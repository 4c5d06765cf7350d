----------------------------- MODULE Preprocess -----------------------------
(***************************************************************************)
(* The driver of the preprocessor (lib/Lex/Preprocessor.cpp, process): one *)
(* invocation per file being read, a stack of conditional sections per     *)
(* invocation, one macro table for the whole run, and the lines of text    *)
(* that wait for the next directive before they are expanded.              *)
(*                                                                         *)
(* The members of the current invocation (file, pos, conds, pending) are   *)
(* variables; those of the invocations that called it are in callers.      *)
(* Lines are abstract: what a directive's arguments denote and whether     *)
(* they are well formed.  Expansion only records the definition that every *)
(* token is expanded under; what a replacement looks like is modelled by   *)
(* MacroExpansion.                                                         *)
(***************************************************************************)
EXTENDS Integers, Sequences, FiniteSets

CONSTANTS
  File,        \* source files, by their canonical identity
  Main,        \* the file the compiler was started on
  Programs,    \* the contents the files may have: a set of [File -> Seq(Line)]
  Dir,         \* directories, as spelled in a path
  MainDir,     \* the directory in the spelling of Main
  IncludeDirs, \* the -I directories, in order
  Header,      \* names an #include can ask for
  Lookup,      \* the file a header names in a directory, and its spelling:
               \* defined where there is a regular file
  Unreadable,  \* files that exist and cannot be opened or read
  Unlexable,   \* files whose text is not a sequence of tokens
  Name,        \* macro names
  Predefined,  \* the names isPredefined answers for
  Fn,          \* the name that is only ever defined with parameters
  Value,       \* replacement lists
  True,        \* the replacement list a #if finds to be nonzero
  Undefined,   \* the value of a name that is no macro
  Malformed,   \* arguments the directive rejects
  MaxDepth     \* limit on nested includes (64 in the code)

(* Text is a macro name, Fn with its opening parenthesis, or a closing one. *)
Open  == "open"
Close == "close"
Token == Name \cup {Open, Close}

Line ==
       [kind : {"text"}, tok : Token]
  \cup [kind : {"null", "once", "error", "unsupported"}]
  \cup [kind : {"if", "ifdef", "ifndef", "elif", "undef"},
        name : Name \cup {Malformed}]
  \cup [kind : {"else", "endif"}, extra : BOOLEAN]
  \cup [kind : {"define"}, name : Name \cup {Malformed}, value : Value]
  \cup [kind : {"include"}, header : Header \cup {Malformed}, quoted : BOOLEAN]

Found == [file : File, dir : Dir]

ASSUME ProgramsAssumption ==
  /\ Main \in File
  /\ Programs \subseteq [File -> Seq(Line)]
ASSUME DirsAssumption ==
  /\ MainDir \in Dir
  /\ IncludeDirs \in Seq(Dir)
  /\ DOMAIN Lookup \subseteq Dir \X Header
  /\ \A q \in DOMAIN Lookup : Lookup[q] \in Found
ASSUME NamesAssumption ==
  /\ Predefined \subseteq Name
  /\ Fn \in Name \ Predefined
  /\ Undefined \notin Value
  /\ Malformed \notin Name \cup Header
  /\ {Open, Close} \cap Name = {}
ASSUME MaxDepthAssumption == MaxDepth \in Nat \ {0}

VARIABLES
  source,    \* the contents of the files, never changed
  macros,    \* _macros: the definition of every name
  once,      \* _once: files in which #pragma once was seen
  visited,   \* _visited: files that were entered
  spelling,  \* SourceManager::_files: directory each file was first found in
  output,    \* _output: expanded text
  file,      \* the file the current invocation of process reads
  pos,       \* its next line
  conds,     \* its open conditional sections, innermost last
  pending,   \* its text read since the last directive
  callers,   \* the invocations that wait for it, outermost first
  outcome    \* of run: "idle", "running", "ok" or "failed"

shared == <<macros, once, visited, spelling>>
vars == <<source, shared, output, file, pos, conds, pending, callers, outcome>>

-----------------------------------------------------------------------------

NotLoaded == "not loaded"

(* struct Conditional, without its location. *)
Conditional == [parentActive : BOOLEAN, active : BOOLEAN,
                taken : BOOLEAN, seenElse : BOOLEAN]

(* A token knows where it was read. *)
PPToken == [tok : Token, file : File, line : Nat]
OutToken == [tok : Token, file : File, line : Nat,
             value : Value \cup {Undefined}]
Invocation == [file : File, pos : Nat, conds : Seq(Conditional),
               pending : Seq(PPToken)]

Top == conds[Len(conds)]
Active == IF conds = <<>> THEN TRUE ELSE Top.active
AtLine == outcome = "running" /\ pos <= Len(source[file])
AtEnd == outcome = "running" /\ pos > Len(source[file])
Current == source[file][pos]
AtDirective == AtLine /\ Current.kind # "text"

IsDefinedInTable(n) == macros[n] # Undefined
IsDefined(n) == n \in Predefined \/ macros[n] # Undefined

(* The value of #if n: an expression that is one macro name. *)
Holds(n) == n \in Predefined \/ (n # Fn /\ macros[n] = True)

(* The definition a token of text is replaced by. *)
ValueOf(t) ==
  CASE t \in Name /\ t # Fn -> macros[t]
    [] t = Open -> macros[Fn]
    [] OTHER -> Undefined

(* expand, as far as the driver can tell: each token of the waiting text   *)
(* under the definitions in force now.                                     *)
Expansion == [i \in 1..Len(pending) |->
                [tok |-> pending[i].tok, file |-> pending[i].file,
                 line |-> pending[i].line, value |-> ValueOf(pending[i].tok)]]

Count(t, i, j) == Cardinality({k \in i..j : pending[k].tok = t})

(* expand fails on an invocation that the waiting text does not close. *)
ExpandFails ==
  /\ macros[Fn] # Undefined
  /\ \E i \in 1..Len(pending) :
       /\ pending[i].tok = Open
       /\ \A j \in i..Len(pending) : Count(Open, i, j) > Count(Close, i, j)

(* The text that waited goes out, once. *)
FlushTwice == output' = output \o Expansion /\ UNCHANGED pending
Flush == output' = output \o Expansion /\ pending' = <<>>

(* Every error returns false through all invocations; run drops the output. *)
Fail ==
  /\ outcome' = "failed"
  /\ output' = <<>>
  /\ UNCHANGED <<source, shared, file, pos, conds, pending, callers>>

(* The next line of the same file. *)
ProceedExceptPastInclude ==
  /\ pos' = IF Current.kind = "include" THEN pos ELSE pos + 1
  /\ UNCHANGED <<source, file, callers, outcome>>
Proceed == pos' = pos + 1 /\ UNCHANGED <<source, file, callers, outcome>>

Directive(kinds) ==
  AtDirective /\ Current.kind \in kinds /\ ~ExpandFails

-----------------------------------------------------------------------------
(* Text waits, so that an invocation may span lines; skipped text is dropped. *)
ReadText ==
  /\ AtLine /\ Current.kind = "text"
  /\ pending' = IF Active
                THEN Append(pending, [tok |-> Current.tok, file |-> file,
                                      line |-> pos])
                ELSE pending
  /\ Proceed
  /\ UNCHANGED <<shared, output, conds>>

(* Any line that starts with # expands the waiting text first. *)
FlushFails ==
  /\ AtDirective \/ AtEnd
  /\ ExpandFails
  /\ Fail

NullDirective ==
  /\ Directive({"null"})
  /\ Flush
  /\ Proceed
  /\ UNCHANGED <<shared, conds>>

(* #ifdef and #ifndef check their argument even in a skipped group; the    *)
(* condition of #if is only evaluated in an active one.                    *)
Selected ==
  \/ Current.kind = "ifdef" /\ IsDefined(Current.name)
  \/ Current.kind = "ifndef" /\ ~IsDefined(Current.name)
  \/ Current.kind \in {"if", "elif"} /\ Holds(Current.name)

Opened(selected) ==
  [parentActive |-> Active, active |-> selected, taken |-> selected,
   seenElse |-> FALSE]

OpenConditional ==
  /\ Directive({"if", "ifdef", "ifndef"})
  /\ IF Current.name = Malformed /\ (Current.kind = "if" => Active)
     THEN Fail
     ELSE /\ conds' = Append(conds, Opened(Active /\ Selected))
          /\ Flush
          /\ Proceed
          /\ UNCHANGED shared

(* Whether the section still looks for a group to select. *)
WantedIgnoringParent == ~Top.taken
Wanted == Top.parentActive /\ ~Top.taken

Continued(selected) ==
  [Top EXCEPT !.active = selected, !.taken = @ \/ selected]

Elif ==
  /\ Directive({"elif"})
  /\ IF \/ conds = <<>>
        \/ Top.seenElse
        \/ Wanted /\ Current.name = Malformed
     THEN Fail
     ELSE /\ conds' = [conds EXCEPT ![Len(conds)] =
                         Continued(Wanted /\ Selected)]
          /\ Flush
          /\ Proceed
          /\ UNCHANGED shared

Otherwise ==
  [Top EXCEPT !.active = Wanted, !.taken = TRUE, !.seenElse = TRUE]

Else ==
  /\ Directive({"else"})
  /\ IF conds = <<>> \/ Current.extra \/ Top.seenElse
     THEN Fail
     ELSE /\ conds' = [conds EXCEPT ![Len(conds)] = Otherwise]
          /\ Flush
          /\ Proceed
          /\ UNCHANGED shared

Endif ==
  /\ Directive({"endif"})
  /\ IF conds = <<>> \/ Current.extra
     THEN Fail
     ELSE /\ conds' = SubSeq(conds, 1, Len(conds) - 1)
          /\ Flush
          /\ Proceed
          /\ UNCHANGED shared

(* The other directives of a skipped group are not looked at. *)
SkipDirective ==
  /\ Directive({"define", "undef", "include", "once", "error", "unsupported"})
  /\ ~Active
  /\ Flush
  /\ Proceed
  /\ UNCHANGED <<shared, conds>>

(* define: a redefinition must not change the replacement. *)
Define ==
  /\ Directive({"define"})
  /\ Active
  /\ LET n == Current.name
     IN IF \/ n = Malformed
           \/ n \in Predefined
           \/ macros[n] \notin {Undefined, Current.value}
        THEN Fail
        ELSE /\ macros' = [macros EXCEPT ![n] = Current.value]
             /\ Flush
             /\ Proceed
             /\ UNCHANGED <<once, visited, spelling, conds>>

Undef ==
  /\ Directive({"undef"})
  /\ Active
  /\ IF Current.name \in Predefined \cup {Malformed}
     THEN Fail
     ELSE /\ macros' = [macros EXCEPT ![Current.name] = Undefined]
          /\ Flush
          /\ Proceed
          /\ UNCHANGED <<once, visited, spelling, conds>>

PragmaOnceSkippedToo ==
  /\ Directive({"once"})
  /\ once' = once \cup {file}
  /\ Flush
  /\ Proceed
  /\ UNCHANGED <<macros, visited, spelling, conds>>

PragmaOnce ==
  /\ Directive({"once"})
  /\ Active
  /\ once' = once \cup {file}
  /\ Flush
  /\ Proceed
  /\ UNCHANGED <<macros, visited, spelling, conds>>

ErrorDirective ==
  /\ Directive({"error", "unsupported"})
  /\ Active
  /\ Fail

-----------------------------------------------------------------------------
(* include searches the includer's own directory (as first spelled) for a  *)
(* quoted name, then the -I directories.                                   *)
SearchPath ==
  (IF Current.quoted THEN <<spelling[file]>> ELSE <<>>) \o IncludeDirs

Hits == {i \in 1..Len(SearchPath) :
           <<SearchPath[i], Current.header>> \in DOMAIN Lookup}

Target ==
  Lookup[<<SearchPath[CHOOSE i \in Hits : \A j \in Hits : i <= j],
           Current.header>>]

(* load keeps the first spelling of a file that is already known. *)
LoadFails(f) == spelling[f] = NotLoaded /\ f \in Unreadable
Loaded(t) == IF spelling[t.file] = NotLoaded
             THEN [spelling EXCEPT ![t.file] = t.dir]
             ELSE spelling

(* A file that is to be read once is its identity, not its spelling. *)
ReadBeforeAs(f) == f \in once \cap visited /\ spelling[f] = Target.dir
ReadBefore(f) == f \in once \cap visited

Include ==
  /\ Directive({"include"})
  /\ Active
  /\ IF Current.header = Malformed
     THEN Fail
     ELSE IF Hits = {} \/ LoadFails(Target.file)
     THEN Fail
     ELSE LET f == Target.file
          IN IF ReadBefore(f)
             THEN /\ spelling' = Loaded(Target)
                  /\ Flush
                  /\ Proceed
                  /\ UNCHANGED <<macros, once, visited, conds>>
             ELSE IF Len(callers) + 1 >= MaxDepth \/ f \in Unlexable
             THEN Fail
             ELSE /\ callers' = Append(callers, [file |-> file, pos |-> pos + 1,
                                                 conds |-> conds,
                                                 pending |-> <<>>])
                  /\ file' = f
                  /\ pos' = 1
                  /\ conds' = <<>>
                  /\ visited' = visited \cup {f}
                  /\ spelling' = Loaded(Target)
                  /\ Flush
                  /\ UNCHANGED <<source, macros, once, outcome>>

(* The end of a file: its text is expanded, its sections must be closed,   *)
(* and its caller goes on; run is over at the end of the main file.        *)
EndOfFile ==
  /\ AtEnd
  /\ ~ExpandFails
  /\ IF conds # <<>>
     THEN Fail
     ELSE /\ output' = output \o Expansion
          /\ IF callers = <<>>
             THEN /\ outcome' = "ok"
                  /\ pending' = <<>>
                  /\ UNCHANGED <<file, pos, conds, callers>>
             ELSE LET c == callers[Len(callers)]
                  IN /\ file' = c.file
                     /\ pos' = c.pos
                     /\ conds' = c.conds
                     /\ pending' = c.pending
                     /\ callers' = SubSeq(callers, 1, Len(callers) - 1)
                     /\ UNCHANGED outcome
          /\ UNCHANGED <<source, shared>>

(* run does its work on the first call only. *)
Run ==
  /\ outcome = "idle"
  /\ visited' = {Main}
  /\ IF Main \in Unlexable
     THEN outcome' = "failed"
     ELSE outcome' = "running"
  /\ UNCHANGED <<source, macros, once, spelling, output, file, pos, conds,
                 pending, callers>>

Init ==
  /\ source \in Programs
  /\ macros = [n \in Name |-> Undefined]
  /\ once = {}
  /\ visited = {}
  /\ spelling = [f \in File |-> IF f = Main THEN MainDir ELSE NotLoaded]
  /\ output = <<>>
  /\ file = Main
  /\ pos = 1
  /\ conds = <<>>
  /\ pending = <<>>
  /\ callers = <<>>
  /\ outcome = "idle"

Next ==
  \/ Run
  \/ ReadText
  \/ FlushFails
  \/ NullDirective
  \/ OpenConditional
  \/ Elif
  \/ Else
  \/ Endif
  \/ SkipDirective
  \/ Define
  \/ Undef
  \/ PragmaOnce
  \/ ErrorDirective
  \/ Include
  \/ EndOfFile

Spec == Init /\ [][Next]_vars

(* The compiler runs the preprocessor to its end. *)
FairSpec == Spec /\ WF_vars(Next)

-----------------------------------------------------------------------------
(* TypeOK: every member of the Preprocessor and of process holds a value   *)
(* of its declared type, and every invocation stands on a line of its file *)
(* or right behind the last.                                               *)
TypeOK ==
  /\ source \in [File -> Seq(Line)]
  /\ macros \in [Name -> Value \cup {Undefined}]
  /\ once \subseteq File
  /\ visited \subseteq File
  /\ spelling \in [File -> Dir \cup {NotLoaded}]
  /\ output \in Seq(OutToken)
  /\ file \in File
  /\ pos \in 1..(Len(source[file]) + 1)
  /\ conds \in Seq(Conditional)
  /\ pending \in Seq(PPToken)
  /\ callers \in Seq(Invocation)
  /\ \A k \in 1..Len(callers) :
       callers[k].pos \in 1..(Len(source[callers[k].file]) + 1)
  /\ outcome \in {"idle", "running", "ok", "failed"}

Nested(stack) ==
  \A i \in 1..Len(stack) :
    LET c == stack[i]
    IN /\ c.parentActive <=> \A j \in 1..(i - 1) : stack[j].active
       /\ c.active => c.parentActive /\ c.taken
       /\ c.seenElse => c.taken

(* SectionsNest: parentActive, which process copies when a section opens,  *)
(* stays the truth about all the sections around it for as long as it is   *)
(* open, in every invocation; so the innermost flag alone tells whether a  *)
(* line is read, as process takes it to at line 745.                       *)
SectionsNest ==
  /\ Nested(conds)
  /\ \A k \in 1..Len(callers) :
       /\ Nested(callers[k].conds)
       /\ LET c == callers[k].conds IN c = <<>> \/ c[Len(c)].active

(* NothingWaitsAcrossFiles: no text is left waiting in a group that is     *)
(* skipped or in a file that has included another, where a later #define   *)
(* would change its meaning.                                               *)
NothingWaitsAcrossFiles ==
  /\ ~Active => pending = <<>>
  /\ \A k \in 1..Len(callers) : callers[k].pending = <<>>

Skipped == AtLine /\ \E i \in 1..Len(conds) : ~conds[i].active

(* SkippedGroupsAreInert: while any section around a line is in a group    *)
(* that was not selected, no step defines a macro, marks or enters a file, *)
(* or adds text; at most it finds an error, which ends the run.            *)
SkippedGroupsAreInert ==
  [][Skipped => \/ outcome' = "failed"
                \/ UNCHANGED <<shared, output, pending, callers, file>>]_vars

(* OnceTextAppearsOnce: text of a file that starts with #pragma once comes *)
(* out at most once, however the file is named, found or nested.           *)
StartsWithOnce(f) == source[f] # <<>> /\ source[f][1].kind = "once"
OnceTextAppearsOnce ==
  \A i, j \in 1..Len(output) :
    /\ output[i].file = output[j].file /\ output[i].line = output[j].line
    /\ StartsWithOnce(output[i].file)
    => i = j

Groups == INSTANCE ConditionalGroups

(* The whole program is one file. *)
Alone == /\ Main \notin Unlexable
         /\ \A i \in 1..Len(source[Main]) : source[Main][i].kind # "include"

(* MatchesReference: at the end of a run on a file alone, the program was  *)
(* accepted exactly when its directives are correct, and the text that     *)
(* came out is the text of the live lines, each token under the definition *)
(* in force on its own line.                                               *)
MatchesReference ==
  Alone /\ outcome \in {"ok", "failed"} =>
    LET p == source[Main]
        live == Groups!Live(p)
    IN /\ outcome = "ok" => /\ Groups!Accepted(p, live)
                           /\ Groups!IsText(p, live, Len(p) + 1, output)
       /\ outcome = "failed" => ~Groups!Accepted(p, live)

(* Terminates: run returns, also when headers include each other without   *)
(* end.                                                                    *)
Terminates == <>(outcome \in {"ok", "failed"})
=============================================================================
