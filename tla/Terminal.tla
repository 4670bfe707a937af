------------------------------- MODULE Terminal -------------------------------
(* One CLI session of the SSH transport: what the switch prints arrives in  *)
(* chunks cut anywhere, and Client.Run has to find in them where each       *)
(* command's output ends (internal/transport/ssh/client.go, terminal.go).   *)
(* Output is a sequence of pieces; a piece is a prompt, a password request, *)
(* an error report, or ordinary text.                                       *)
EXTENDS Naturals, Sequences

CONSTANTS
    Own,            \* the name in the switch's own prompt
    Foreign,        \* a name in ordinary output that looks like a prompt
    NoName,         \* terminal.promptName before login
    Commands,       \* how many commands Run was given
    Banners,        \* what the switch may print before its first prompt
    Answers,        \* what the switch may print for a command
    Limit           \* pieces a read may collect before the size limit

Text == [kind |-> "text"]
Error == [kind |-> "error"]
Ask == [kind |-> "password"]
Prompt(n, p) == [kind |-> "prompt", name |-> n, privileged |-> p]
Pieces == {Text, Error, Ask} \union {Prompt(n, p) : n \in {Own, Foreign}, p \in BOOLEAN}

ASSUME TerminalAssumption ==
    /\ Own # Foreign /\ NoName \notin {Own, Foreign}
    /\ Commands \in Nat /\ Limit \in Nat
    /\ Banners \subseteq Seq(Pieces) /\ Answers \subseteq Seq(Pieces)
    \* Ordinary output never imitates the switch's own prompt.
    /\ \A s \in Banners \union Answers : \A i \in 1..Len(s) :
           s[i] # Ask /\ \A p \in BOOLEAN : s[i] # Prompt(Own, p)

\* Run learns its prompt from the first line that looks like one: a banner
\* with two such lines could make it take the output of one command for
\* another's.
ASSUME BannerAssumption ==
    \A s \in Banners : \A i, j \in 1..Len(s) :
        s[i].kind = "prompt" /\ s[j].kind = "prompt" => i = j

VARIABLES
    setup,          \* Run's privileged flag, its enable password, what the switch wants
    wire,           \* printed and not yet read
    eof,            \* the connection is closed
    typed,          \* sent and not yet handled by the switch
    level, asking,  \* the shell's privilege, and whether it awaits a password
    said,           \* what the switch printed for each command it handled
    pump, chunk,    \* newTerminal's goroutine, and what it is handing over
    step,           \* which read of Run is under way
    buffer,         \* what that read has collected
    promptName,
    outputs, result,
    expired         \* the session's context has ended

vars == <<setup, wire, eof, typed, level, asking, said, pump, chunk, step, buffer,
          promptName, outputs, result, expired>>
shell == <<level, asking, said>>
reader == <<step, buffer, promptName, outputs, result>>

Setups == [privileged : BOOLEAN, password : {"none", "wrong", "right"}, wanted : BOOLEAN]
Steps == {"login", "enable", "password", "skip-page-display", "command"}
Lines == {"enable", "secret", "skip-page-display", "command"}

Init ==
    /\ setup \in Setups /\ level \in BOOLEAN
    /\ wire \in {b \o <<Prompt(Own, level)>> : b \in Banners}
    /\ typed = <<>> /\ asking = FALSE /\ said = <<>>
    /\ eof = FALSE /\ expired = FALSE
    /\ pump = "reading" /\ chunk = <<>>
    /\ step = "login" /\ buffer = <<>> /\ promptName = NoName
    /\ outputs = <<>> /\ result = "none"

-----------------------------------------------------------------------------
(* The switch handles the lines it receives in order.                      *)

Shows(answer, privileged, asks) ==
    /\ wire' = wire \o answer \o (IF asks THEN <<Ask>> ELSE <<Prompt(Own, privileged)>>)
    /\ level' = privileged /\ asking' = asks

Handle(line) ==
    \/ asking /\ UNCHANGED said
       /\ IF line = "secret" /\ setup.password = "right"
          THEN Shows(<<>>, TRUE, FALSE)
          ELSE Shows(<<Error>>, level, FALSE)
    \/ ~asking /\ line = "enable" /\ UNCHANGED said
       /\ IF level \/ ~setup.wanted THEN Shows(<<>>, TRUE, FALSE) ELSE Shows(<<>>, level, TRUE)
    \/ ~asking /\ line = "secret" /\ Shows(<<Error>>, level, FALSE) /\ UNCHANGED said
    \/ ~asking /\ line = "skip-page-display" /\ UNCHANGED said
       /\ \E answer \in {<<>>, <<Error>>} : Shows(answer, level, FALSE)
    \/ ~asking /\ line = "command"
       /\ \E answer \in Answers :
              Shows(answer, level, FALSE) /\ said' = Append(said, answer)

Switch ==
    /\ typed # <<>> /\ ~eof
    /\ typed' = Tail(typed) /\ Handle(Head(typed))
    /\ UNCHANGED <<setup, eof, pump, chunk, reader, expired>>

Disconnect ==
    /\ ~eof /\ eof' = TRUE
    /\ UNCHANGED <<setup, wire, typed, shell, pump, chunk, reader, expired>>

\* The timeout closes the connection under any blocked read or write.
Expire ==
    /\ ~expired /\ expired' = TRUE /\ eof' = TRUE
    /\ UNCHANGED <<setup, wire, typed, shell, pump, chunk, reader>>

-----------------------------------------------------------------------------
(* The goroutine of newTerminal.                                           *)

PumpRead ==
    /\ pump = "reading"
    /\ \/ \E n \in 1..Len(wire) :
              /\ chunk' = SubSeq(wire, 1, n)
              /\ wire' = SubSeq(wire, n + 1, Len(wire))
              /\ pump' = "data"
       \/ wire = <<>> /\ eof /\ chunk' = <<>> /\ pump' = "error" /\ UNCHANGED wire
    /\ UNCHANGED <<setup, eof, typed, shell, reader, expired>>

\* terminal.close releases a goroutine that nobody listens to.
NeverReleased == FALSE
Released == result # "none"

PumpDone ==
    /\ pump \in {"data", "error"} /\ Released
    /\ pump' = "exited"
    /\ UNCHANGED <<setup, wire, eof, typed, chunk, shell, reader, expired>>

-----------------------------------------------------------------------------
(* terminal.read and Client.Run.                                           *)

\* Faults the properties must detect.
AnyPromptEnds(b) == b # <<>> /\ b[Len(b)].kind = "prompt"
PromptAsks(b) == b # <<>> /\ b[Len(b)].kind \in {"password", "prompt"}
AssumeElevated(p) == TRUE

TooLong(b) == Len(b) > Limit
AsksPassword(b) == b # <<>> /\ b[Len(b)] = Ask

\* Only a prompt at the very end counts, and after login only this switch's.
AtPrompt(b) ==
    /\ b # <<>> /\ b[Len(b)].kind = "prompt"
    /\ promptName \in {NoName, b[Len(b)].name}

Rejected(output) == \E i \in 1..Len(output) : output[i] = Error
Elevated(p) == p.privileged

Stop(outcome) == result' = outcome /\ eof' = TRUE /\ UNCHANGED <<typed, step>>

\* A write on a closed connection may fail.
Send(line, next) ==
    \/ typed' = Append(typed, line) /\ step' = next /\ UNCHANGED <<result, eof>>
    \/ eof /\ Stop("error")

NextCommand(done) ==
    IF done = Commands THEN Stop("ok") ELSE Send("command", "command")

\* What Run does with a password request.
Asked ==
    IF setup.password = "none" THEN Stop("error") ELSE Send("secret", "password")

\* What Run does with a prompt p after output.
Prompted(output, p) ==
    \/ /\ step = "login" /\ UNCHANGED outputs
       /\ IF setup.privileged /\ ~p.privileged
          THEN Send("enable", "enable")
          ELSE Send("skip-page-display", "skip-page-display")
    \/ /\ step \in {"enable", "password"} /\ UNCHANGED outputs
       /\ IF Elevated(p)
          THEN Send("skip-page-display", "skip-page-display")
          ELSE Stop("error")
    \/ /\ step = "skip-page-display" /\ UNCHANGED outputs
       /\ IF Rejected(output) THEN Stop("error") ELSE NextCommand(0)
    \/ /\ step = "command"
       /\ IF Rejected(output)
          THEN Stop("error") /\ UNCHANGED outputs
          ELSE NextCommand(Len(outputs) + 1) /\ outputs' = Append(outputs, output)

Receive ==
    /\ result = "none" /\ pump \in {"data", "error"}
    /\ pump' = IF pump = "data" THEN "reading" ELSE "exited"
    /\ chunk' = <<>>
    /\ LET b == buffer \o chunk IN
       \/ TooLong(b) /\ Stop("error") /\ UNCHANGED <<buffer, promptName, outputs>>
       \/ /\ ~TooLong(b) /\ step = "enable" /\ AsksPassword(b)
          /\ Asked /\ buffer' = <<>> /\ UNCHANGED <<promptName, outputs>>
       \/ /\ ~TooLong(b) /\ ~(step = "enable" /\ AsksPassword(b)) /\ AtPrompt(b)
          /\ Prompted(SubSeq(b, 1, Len(b) - 1), b[Len(b)])
          /\ promptName' = b[Len(b)].name /\ buffer' = <<>>
       \/ /\ ~TooLong(b) /\ ~(step = "enable" /\ AsksPassword(b)) /\ ~AtPrompt(b)
          /\ UNCHANGED <<promptName, outputs>>
          /\ IF pump = "error"
             THEN Stop("error") /\ UNCHANGED buffer
             ELSE buffer' = b /\ UNCHANGED <<typed, step, result, eof>>
    /\ UNCHANGED <<setup, wire, shell, expired>>

\* ctx.Done wins the select of a read.
TimedOut ==
    /\ result = "none" /\ expired /\ Stop("error")
    /\ UNCHANGED <<setup, wire, shell, pump, chunk, buffer, promptName, outputs, expired>>

Finished ==
    /\ result # "none" /\ pump = "exited" /\ UNCHANGED vars

Next ==
    \/ Switch \/ Disconnect \/ Expire
    \/ PumpRead \/ PumpDone \/ Receive \/ TimedOut \/ Finished

Spec == Init /\ [][Next]_vars

\* The timer fires, and every goroutine that can run does; a select with two
\* ready cases may choose either.
FairSpec == Spec /\ WF_vars(Expire) /\ WF_vars(PumpRead \/ PumpDone) /\ WF_vars(TimedOut)

-----------------------------------------------------------------------------
(* Properties.                                                             *)

\* Every variable has its type, and no read keeps more than its limit.
TypeOK ==
    /\ setup \in Setups /\ level \in BOOLEAN /\ asking \in BOOLEAN
    /\ wire \in Seq(Pieces) /\ chunk \in Seq(Pieces)
    /\ buffer \in Seq(Pieces) /\ Len(buffer) <= Limit
    /\ typed \in Seq(Lines) /\ said \in Seq(Seq(Pieces)) /\ outputs \in Seq(Seq(Pieces))
    /\ pump \in {"reading", "data", "error", "exited"}
    /\ step \in Steps /\ promptName \in {NoName, Own, Foreign}
    /\ result \in {"none", "ok", "error"} /\ eof \in BOOLEAN /\ expired \in BOOLEAN

\* However the output is cut into chunks, what Run returns for a command is
\* all and only what the switch printed for it (terminal.read, command).
OutputsBelong ==
    /\ Len(outputs) <= Len(said)
    /\ \A i \in 1..Len(outputs) : outputs[i] = said[i]
    /\ result = "ok" => Len(outputs) = Commands

\* The enable password is sent only to a shell that asked for it (Client.Run).
PasswordOnlyWhenAsked ==
    \A i \in 1..Len(typed) : typed[i] = "secret" => i = 1 /\ asking

\* A privileged Run's commands reach only a privileged shell, whatever a
\* banner looked like (Client.Run's elevation).
OnlyPrivileged ==
    setup.privileged /\ (said # <<>> \/ \E i \in 1..Len(typed) : typed[i] = "command")
        => level

\* Run returns and its goroutine ends, whatever the switch prints or withholds.
RunEnds == <>[](result # "none" /\ pump = "exited")
=============================================================================
