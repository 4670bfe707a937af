-------------------------------- MODULE Document --------------------------------
(* Framing of a native configuration: how Document.line turns the lines of a *)
(* session transcript into nested commands, and when Parse believes that it  *)
(* has seen a whole configuration (internal/config/config.go).               *)
EXTENDS Naturals, Sequences

CONSTANTS
    Indents,        \* widths of leading white space
    Delims,         \* characters that may delimit a banner
    None            \* no banner is open

ASSUME DocumentAssumption ==
    /\ Indents \subseteq Nat /\ 0 \in Indents
    /\ None \notin Delims

VARIABLES
    commands,       \* Document.Commands; parent 0 stands for -1
    stack,          \* the commands that enclose the next line, outermost first
    started, complete,
    banner,         \* the delimiter that closes the open banner
    outcome         \* of Parse

document == <<commands, stack, started, complete, banner>>
parser == <<document, outcome>>

Openings == Delims \union {"require-enter-key", "invalid"}

\* What the parser tells apart in a line.  chars are the delimiters it holds;
\* a banner line opens with one, and may hold it a second time.
LineSet ==
    [text : {"ver", "blank", "end", "command"}, indent : Indents, chars : SUBSET Delims]
    \union [text : {"banner"}, indent : Indents, chars : SUBSET Delims,
            opens : Openings, closes : BOOLEAN]

CommandSet == [indent : Indents, parent : Nat, lines : Nat]

DocumentInit ==
    /\ commands = <<>> /\ stack = <<>> /\ started = FALSE /\ complete = FALSE
    /\ banner = None /\ outcome = "reading"

-----------------------------------------------------------------------------
(* Document.line.                                                          *)

\* Parse returns no document.
Refuse ==
    /\ outcome' = "error" /\ commands' = <<>> /\ stack' = <<>> /\ banner' = None
    /\ UNCHANGED <<started, complete>>

\* Inside a banner every line is text, whatever it looks like.
Payload(l) ==
    /\ banner # None
    /\ banner' = IF banner \in l.chars THEN None ELSE banner
    /\ commands' = [commands EXCEPT ![Len(commands)].lines = @ + 1]
    /\ UNCHANGED <<stack, started, complete, outcome>>

\* What the session shows before the configuration.
Version(l) == l.text = "ver" /\ l.indent = 0
Preamble(l) ==
    /\ banner = None /\ ~started /\ ~Version(l)
    /\ UNCHANGED parser

Skip(l) ==
    /\ banner = None /\ started /\ l.text = "blank"
    /\ UNCHANGED parser

\* Faults the properties must detect.
KeepsSiblings(l, k) == k > 0 => commands[stack[k]].indent <= l.indent
StaysOpen(l) == l.opens \in Delims
EndsAnywhere(l) == l.text = "end"

\* The loop pops commands no shallower than the line and keeps k of them.
Encloses(l, k) == k > 0 => commands[stack[k]].indent < l.indent
Keeps(l, k) == Encloses(l, k) /\ \A j \in (k + 1)..Len(stack) : ~Encloses(l, j)
Parent(k) == IF k = 0 THEN 0 ELSE stack[k]

IsBanner(l) == l.text = "banner" /\ l.indent = 0
Opens(l) == l.opens \in Delims /\ ~l.closes
Completes(l) == l.text = "end" /\ l.indent = 0
Read(l) == banner = None /\ (started \/ Version(l)) /\ l.text # "blank"

Orphaned(l, k) == l.indent > 0 /\ k = 0
Invalid(l) == IsBanner(l) /\ l.opens = "invalid"

Orphan(l) ==
    /\ Read(l) /\ Refuse
    /\ Invalid(l) \/ \E k \in 0..Len(stack) : Keeps(l, k) /\ Orphaned(l, k)

Command(l) ==
    /\ Read(l) /\ ~Invalid(l)
    /\ \E k \in 0..Len(stack) :
          /\ Keeps(l, k) /\ ~Orphaned(l, k)
          /\ commands' = Append(commands, [indent |-> l.indent, parent |-> Parent(k), lines |-> 1])
          /\ stack' = Append(SubSeq(stack, 1, k), Len(commands) + 1)
    /\ started' = TRUE
    /\ complete' = Completes(l)
    /\ banner' = IF IsBanner(l) /\ Opens(l) THEN l.opens ELSE None
    /\ UNCHANGED outcome

\* Parse stops at the line that completes the configuration.
Line(l) ==
    /\ outcome = "reading" /\ ~complete
    /\ Payload(l) \/ Preamble(l) \/ Skip(l) \/ Orphan(l) \/ Command(l)

\* The transcript is over, or nothing more of it is read.
Finish ==
    /\ outcome = "reading"
    /\ \/ complete /\ outcome' = "document" /\ UNCHANGED document
       \/ ~complete /\ Refuse

DocumentNext == (\E l \in LineSet : Line(l)) \/ Finish

DocumentSpec == DocumentInit /\ [][DocumentNext]_parser

-----------------------------------------------------------------------------
(* Properties.                                                             *)

\* Every variable has its type.
DocumentTypeOK ==
    /\ commands \in Seq(CommandSet) /\ stack \in Seq(Nat)
    /\ started \in BOOLEAN /\ complete \in BOOLEAN
    /\ banner \in Delims \union {None} /\ outcome \in {"reading", "document", "error"}
    /\ banner # None => commands # <<>>

Indent(i) == commands[i].indent

\* A command belongs to the nearest command above it that is shallower, for
\* any transcript whatever its indentation; only an unindented one has none
\* (Document.line).  Every feature reads its stanza by this relation.
ParentIsNearest ==
    \A i \in 1..Len(commands) :
        LET p == commands[i].parent IN
        /\ p = 0 <=> Indent(i) = 0
        /\ p # 0 => p < i /\ Indent(p) < Indent(i)
        /\ \A j \in (p + 1)..(i - 1) : Indent(j) >= Indent(i)

\* The stack holds the last command and all that enclose it: whatever follows
\* an enclosing command is at least as deep as the next one on the stack.
StackEncloses ==
    /\ \A m \in 1..Len(stack) : stack[m] \in 1..Len(commands)
    /\ \A m, n \in 1..Len(stack) :
          m < n => stack[m] < stack[n] /\ Indent(stack[m]) < Indent(stack[n])
    /\ commands # <<>> => stack # <<>> /\ stack[Len(stack)] = Len(commands)
    /\ \A m \in 1..Len(stack), j \in 1..Len(commands) :
          (m = 1 \/ j > stack[m - 1]) => Indent(j) >= Indent(stack[m])

NestingInv == DocumentTypeOK /\ ParentIsNearest /\ StackEncloses
=============================================================================
