------------------------------- MODULE Transcript -------------------------------
(* Document beside the switch whose session it reads: the preamble of the     *)
(* session, nested commands, banners with any text, and the end, or a         *)
(* transcript that stops anywhere (internal/config/config.go, config.rl).     *)
EXTENDS Document

CONSTANT MaxLines   \* bound on the lines of a transcript

ASSUME TranscriptAssumption == MaxLines \in Nat

VARIABLES
    mode,           \* what the switch is printing
    delim,          \* of the banner it is printing
    path,           \* the commands that the next one may be nested in
    printed,        \* the configuration it means
    lines           \* so far

switch == <<mode, delim, path, printed, lines>>

SwitchInit == mode = "preamble" /\ delim = None /\ path = <<>> /\ printed = <<>> /\ lines = 0

Means(depth, parent) == Append(printed, [indent |-> depth, parent |-> parent, lines |-> 1])

\* A nested command follows its parent, one step deeper.
Prints(l) ==
    /\ l.indent <= Len(path)
    /\ printed' = Means(l.indent, IF l.indent = 0 THEN 0 ELSE path[l.indent])
    /\ path' = Append(SubSeq(path, 1, l.indent), Len(printed) + 1)

Echo(l) ==
    /\ mode = "preamble" /\ ~Version(l) /\ UNCHANGED <<mode, delim, path, printed>>

Starts(l) == mode = "preamble" /\ Version(l) /\ Prints(l) /\ mode' = "config" /\ UNCHANGED delim

Separates(l) ==
    /\ mode = "config" /\ l.text = "blank" /\ UNCHANGED <<mode, delim, path, printed>>

\* Any other command, or a word that means something only at the top level.
Configures(l) ==
    /\ mode = "config" /\ Prints(l) /\ UNCHANGED <<mode, delim>>
    /\ l.text = "command" \/ (l.text \in {"end", "banner"} /\ l.indent > 0)

Announces(l) ==
    /\ mode = "config" /\ IsBanner(l) /\ l.opens # "invalid" /\ Prints(l)
    /\ IF l.opens \in Delims /\ ~l.closes
       THEN mode' = "banner" /\ delim' = l.opens
       ELSE UNCHANGED <<mode, delim>>

\* Text holds the delimiter once, at its end.
Says(l) ==
    /\ mode = "banner"
    /\ printed' = [printed EXCEPT ![Len(printed)].lines = @ + 1]
    /\ IF delim \in l.chars THEN mode' = "config" /\ delim' = None ELSE UNCHANGED <<mode, delim>>
    /\ UNCHANGED path

Ends(l) ==
    /\ mode = "config" /\ l.text = "end" /\ l.indent = 0
    /\ Prints(l) /\ mode' = "done" /\ UNCHANGED delim

Sends(l) ==
    /\ lines < MaxLines /\ lines' = lines + 1
    /\ \/ Echo(l) \/ Starts(l) \/ Separates(l) \/ Configures(l)
       \/ Announces(l) \/ Says(l) \/ Ends(l)
    /\ Line(l)

\* The transcript stops, where it should or sooner.
Stops == Finish /\ UNCHANGED switch

Done == outcome # "reading" /\ UNCHANGED <<parser, switch>>

TranscriptInit == DocumentInit /\ SwitchInit
TranscriptNext == (\E l \in LineSet : Sends(l)) \/ Stops \/ Done
TranscriptSpec == TranscriptInit /\ [][TranscriptNext]_<<parser, switch>>

-----------------------------------------------------------------------------
(* Properties.                                                             *)

\* What has been read is what the switch means: no word of a banner is a
\* command, no command is lost or nested elsewhere (Document.line).
ReadsWhatIsMeant == outcome # "error" => commands = printed

\* A document is a whole configuration, and a whole configuration is never
\* refused: a transcript cut short is not taken for one (Parse).
OnlyWhole == (outcome = "document" => mode = "done") /\ (outcome = "error" => mode # "done")
=============================================================================
