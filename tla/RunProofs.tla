------------------------------- MODULE RunProofs -------------------------------
(* What the runs of the provider rest on.  A session's outputs are its        *)
(* commands', its password goes to who asked, and a privileged session's      *)
(* commands to a privileged shell: however the output is cut into chunks, for *)
(* any number of commands, banners and answers.  What the parser records of a *)
(* session's transcript is what the switch means, for transcripts of any      *)
(* length and depth.  What a resource's state says has been saved has been    *)
(* saved, and what is forgotten was saved as removed: for any number of runs, *)
(* edits and failures, and every kind of resource.                            *)
EXTENDS Terminal, Transcript, Lifecycle, SequenceTheorems, TLAPS

-----------------------------------------------------------------------------
(* The inductive invariant.                                                *)

\* Printed, and not yet part of what a read returned.
Pending == buffer \o chunk \o wire
Body == SubSeq(Pending, 1, Len(Pending) - 1)

OwnPrompt(x) == \E p \in BOOLEAN : x = Prompt(Own, p)
ForeignPrompt(x) == \E p \in BOOLEAN : x = Prompt(Foreign, p)

\* Output as the switch's banners and answers are: nothing in it ends a read.
Ordinary(s) == \A i \in 1..Len(s) : s[i] # Ask /\ ~OwnPrompt(s[i])
OnePrompt(s) == \A i, j \in 1..Len(s) : ForeignPrompt(s[i]) /\ ForeignPrompt(s[j]) => i = j

\* The line that Run sends before each read.
Sent(at) ==
    CASE at = "enable" -> "enable"
      [] at = "password" -> "secret"
      [] at = "skip-page-display" -> "skip-page-display"
      [] OTHER -> "command"

\* At most one line is under way, and the password only to who asked for it.
LineInv ==
    \/ typed = <<>>
    \/ \E line \in Lines : typed = <<line>> /\ (line = "secret" => asking)

ChunkInv == result = "none" /\ pump # "data" => chunk = <<>>

\* Before the first prompt.
LoggingIn ==
    /\ step = "login" /\ promptName = NoName /\ typed = <<>> /\ ~asking /\ said = <<>> /\ outputs = <<>>
    /\ Pending = Append(Body, Prompt(Own, level)) /\ Ordinary(Body) /\ OnePrompt(Body)

\* The last line awaits its reply.
Waiting == typed = <<Sent(step)>> /\ Pending = <<>> /\ (asking <=> step = "password") /\ Len(said) = Len(outputs)

\* The reply is under way, and nothing else.
Replied ==
    /\ typed = <<>> /\ Ordinary(Body)
    /\ \/ Pending = Append(Body, Prompt(Own, level)) /\ ~asking
       \/ Pending = Append(Body, Ask) /\ asking /\ step = "enable"
    /\ step = "command" => Len(said) = Len(outputs) + 1 /\ said[Len(said)] = Body

\* Run knows the switch's own prompt: what it sends and reads alternates.
InStep ==
    /\ promptName = Own /\ step \in {"enable", "password", "skip-page-display", "command"}
    /\ Waiting \/ Replied
    /\ \A i \in 1..Len(outputs) : outputs[i] = said[i]
    /\ step # "command" => said = <<>> /\ outputs = <<>>
    /\ setup.privileged /\ step \in {"skip-page-display", "command"} => level

\* Run took a line of the banner for the prompt: it waits for it in vain.
Astray ==
    /\ promptName = Foreign /\ step \in {"enable", "password", "skip-page-display"}
    /\ said = <<>> /\ outputs = <<>> /\ typed # <<"command">>
    /\ \A i \in 1..Len(Pending) :
           /\ ~ForeignPrompt(Pending[i])
           /\ Pending[i] = Ask => i = Len(Pending) /\ asking /\ typed = <<>>

IInv ==
    /\ TypeOK /\ LineInv /\ ChunkInv
    /\ result = "none" => LoggingIn \/ InStep \/ Astray
    /\ OutputsBelong /\ PasswordOnlyWhenAsked /\ OnlyPrivileged

-----------------------------------------------------------------------------
(* Pieces and sequences of them.                                           *)

\* A piece that looks like a prompt is one, and it is neither a request nor a report.
LEMMA PieceKinds ==
    /\ Text \in Pieces /\ Error \in Pieces /\ Ask \in Pieces
    /\ \A p \in BOOLEAN : Prompt(Own, p) \in Pieces /\ Prompt(Foreign, p) \in Pieces
    /\ \A n, p : Prompt(n, p).kind = "prompt" /\ Prompt(n, p).name = n
    /\ \A n, p : Prompt(n, p).privileged = p
    /\ \A n, p : Prompt(n, p) # Ask /\ Prompt(n, p) # Error /\ Prompt(n, p) # Text
    /\ Error # Ask /\ Text # Ask
    /\ \A x \in Pieces : x.kind = "prompt" => OwnPrompt(x) \/ ForeignPrompt(x)
    /\ \A x : OwnPrompt(x) => ~ForeignPrompt(x)
<1>1. \A n, p : Prompt(n, p).kind = "prompt" /\ Prompt(n, p).name = n /\ Prompt(n, p).privileged = p
    BY DEF Prompt
<1>2. Text.kind = "text" /\ Error.kind = "error" /\ Ask.kind = "password"
    BY DEF Text, Error, Ask
<1>3. \A n, p : Prompt(n, p) # Ask /\ Prompt(n, p) # Error /\ Prompt(n, p) # Text
    BY <1>1, <1>2
<1>4. \A x \in Pieces : x.kind = "prompt" => OwnPrompt(x) \/ ForeignPrompt(x)
    <2>1. TAKE x \in Pieces
    <2>2. HAVE x.kind = "prompt"
    <2>3. x # Text /\ x # Error /\ x # Ask
        BY <1>2, <2>2
    <2>4. PICK n \in {Own, Foreign}, p \in BOOLEAN : x = Prompt(n, p)
        BY <2>1, <2>3 DEF Pieces
    <2> QED BY <2>4 DEF OwnPrompt, ForeignPrompt
<1>5. \A x : OwnPrompt(x) => ~ForeignPrompt(x)
    BY <1>1, TerminalAssumption DEF OwnPrompt, ForeignPrompt
<1>6. Text \in Pieces /\ Error \in Pieces /\ Ask \in Pieces
    BY DEF Pieces
<1>7. \A p \in BOOLEAN : Prompt(Own, p) \in Pieces /\ Prompt(Foreign, p) \in Pieces
    BY DEF Pieces
<1> QED BY <1>1, <1>2, <1>3, <1>4, <1>5, <1>6, <1>7

\* A sequence that continues b and shows b's last piece only at its end is b.
LEMMA Framing ==
    ASSUME NEW b \in Seq(Pieces), NEW w \in Seq(Pieces), b # <<>>,
           \A i \in 1..Len(b \o w) - 1 : (b \o w)[i] # b[Len(b)]
    PROVE  w = <<>> /\ b \o w = b
<1>1. Len(b) \in Nat \ {0} /\ Len(w) \in Nat
    BY EmptySeq, LenProperties
<1>2. Len(b \o w) = Len(b) + Len(w) /\ (b \o w)[Len(b)] = b[Len(b)]
    BY <1>1, ConcatProperties
<1>3. Len(w) = 0
    BY <1>1, <1>2
<1>4. w = <<>>
    BY <1>3, EmptySeq
<1> QED BY <1>4, ConcatEmptySeq

\* What precedes the last piece of a sequence that ends with it.
LEMMA TextEnds ==
    ASSUME NEW s \in Seq(Pieces), NEW x \in Pieces
    PROVE  /\ s \o <<x>> \in Seq(Pieces) /\ Len(s \o <<x>>) = Len(s) + 1
           /\ (s \o <<x>>)[Len(s) + 1] = x
           /\ \A i \in 1..Len(s) : (s \o <<x>>)[i] = s[i]
           /\ SubSeq(s \o <<x>>, 1, Len(s \o <<x>>) - 1) = s
<1>1. <<x>> \in Seq(Pieces) /\ Len(<<x>>) = 1 /\ <<x>>[1] = x
    OBVIOUS
<1>2. Len(s) \in Nat
    BY LenProperties
<1>3. /\ s \o <<x>> \in Seq(Pieces) /\ Len(s \o <<x>>) = Len(s) + 1
      /\ (s \o <<x>>)[Len(s) + 1] = x
      /\ \A i \in 1..Len(s) : (s \o <<x>>)[i] = s[i]
    BY <1>1, <1>2, ConcatProperties
<1> DEFINE t == SubSeq(s \o <<x>>, 1, Len(s))
<1>4. \A i \in 1..Len(s) : (s \o <<x>>)[i] \in Pieces
    BY <1>3, ElementOfSeq
<1>5. t \in Seq(Pieces) /\ Len(t) = Len(s) /\ \A i \in 1..Len(s) : t[i] = s[i]
    BY <1>2, <1>3, <1>4, SubSeqProperties, SMTT(30)
<1>6. t = s
    BY <1>5, SeqEqual, Zenon
<1>7. Len(s \o <<x>>) - 1 = Len(s)
    BY <1>2, <1>3
<1> QED BY <1>3, <1>6, <1>7

\* A sequence is what precedes its last piece and that piece.
LEMMA Splits ==
    ASSUME NEW s \in Seq(Pieces), s # <<>>
    PROVE  /\ Len(s) \in Nat \ {0}
           /\ SubSeq(s, 1, Len(s) - 1) \in Seq(Pieces)
           /\ Len(SubSeq(s, 1, Len(s) - 1)) = Len(s) - 1
           /\ \A i \in 1..Len(s) - 1 : SubSeq(s, 1, Len(s) - 1)[i] = s[i]
           /\ s[Len(s)] \in Pieces
<1>1. Len(s) \in Nat \ {0}
    BY EmptySeq
<1>2. \A i \in 1..Len(s) : s[i] \in Pieces
    BY ElementOfSeq
<1>3. \A i \in 1..Len(s) - 1 : s[i] \in Pieces
    BY <1>1, <1>2
<1>4. PICK n \in Nat : Len(s) = n + 1 /\ Len(s) - 1 = n
    BY <1>1
<1>5. \A i \in 1..n : s[i] \in Pieces
    BY <1>3, <1>4
<1>6. n \in Int /\ 1 \in Int
    OBVIOUS
<1>7. /\ SubSeq(s, 1, n) \in Seq(Pieces)
      /\ Len(SubSeq(s, 1, n)) = IF 1 <= n THEN n - 1 + 1 ELSE 0
      /\ \A i \in 1..n - 1 + 1 : SubSeq(s, 1, n)[i] = s[1 + i - 1]
    BY ONLY <1>5, <1>6, SubSeqProperties, SMTT(30)
<1>8. Len(SubSeq(s, 1, n)) = n /\ \A i \in 1..n : SubSeq(s, 1, n)[i] = s[i]
    BY <1>7
<1>9. s[Len(s)] \in Pieces
    BY <1>1, <1>2
<1> QED BY <1>1, <1>4, <1>7, <1>8, <1>9

\* Reading n pieces takes them from the wire and loses none.
LEMMA Cut ==
    ASSUME NEW s \in Seq(Pieces), NEW n \in 1..Len(s)
    PROVE  /\ SubSeq(s, 1, n) \in Seq(Pieces) /\ SubSeq(s, n + 1, Len(s)) \in Seq(Pieces)
           /\ SubSeq(s, 1, n) \o SubSeq(s, n + 1, Len(s)) = s
<1>1. Len(s) \in Nat
    BY LenProperties
<1>2. \A i \in 1..Len(s) : s[i] \in Pieces
    BY ElementOfSeq
<1>3. SubSeq(s, 1, n) \in Seq(Pieces)
    BY <1>1, <1>2, SubSeqProperties, SMTT(30)
<1>4. SubSeq(s, n + 1, Len(s)) \in Seq(Pieces)
    BY <1>1, <1>2, SubSeqProperties, SMTT(30)
<1>5. SubSeq(s, 1, n) \o SubSeq(s, n + 1, Len(s)) = SubSeq(s, 1, Len(s))
    BY <1>1, ConcatAdjacentSubSeq
<1>6. SubSeq(s, 1, Len(s)) = s
    BY SubSeqFull
<1> QED BY <1>3, <1>4, <1>5, <1>6

-----------------------------------------------------------------------------
(* What the actions do.                                                    *)

\* What ends a reply.
LastPiece(privileged, asks) == IF asks THEN Ask ELSE Prompt(Own, privileged)

LEMMA LastPieceType ==
    ASSUME NEW privileged \in BOOLEAN, NEW asks \in BOOLEAN
    PROVE  LastPiece(privileged, asks) \in Pieces
<1>1. CASE asks
    BY <1>1, PieceKinds, Zenon DEF LastPiece
<1>2. CASE ~asks
    BY <1>2, PieceKinds, Zenon DEF LastPiece
<1> QED BY <1>1, <1>2

\* A handled line is answered with ordinary output, then a prompt or the request.
Handled(line, answer, privileged, asks) ==
    /\ Ordinary(answer) /\ (level => privileged) /\ level' = privileged /\ asking' = asks
    /\ wire' = wire \o answer \o <<LastPiece(privileged, asks)>>
    /\ asks => line = "enable" /\ ~asking
    /\ asking \/ line # "command" => said' = said /\ answer \in {<<>>, <<Error>>}
    /\ ~asking /\ line = "command" => said' = Append(said, answer)

LEMMA Short ==
    /\ <<>> \in Seq(Pieces) /\ <<Error>> \in Seq(Pieces)
    /\ Ordinary(<<>>) /\ Ordinary(<<Error>>)
<1>1. <<>> \in Seq(Pieces) /\ <<Error>> \in Seq(Pieces)
    BY PieceKinds
<1>2. Ordinary(<<>>)
    BY EmptySeq DEF Ordinary
<1>3. Len(<<Error>>) = 1 /\ <<Error>>[1] = Error
    OBVIOUS
<1>4. Error # Ask /\ ~OwnPrompt(Error)
    BY PieceKinds DEF OwnPrompt
<1> QED BY <1>1, <1>2, <1>3, <1>4 DEF Ordinary

LEMMA AnswersAreOrdinary ==
    ASSUME NEW s \in Banners \union Answers
    PROVE  s \in Seq(Pieces) /\ Ordinary(s)
BY TerminalAssumption DEF Ordinary, OwnPrompt

LEMMA ShowsIs ==
    ASSUME NEW answer, NEW privileged, NEW asks, Shows(answer, privileged, asks)
    PROVE  /\ wire' = wire \o answer \o <<LastPiece(privileged, asks)>>
           /\ level' = privileged /\ asking' = asks
<1>1. CASE asks
    BY <1>1, Zenon DEF Shows, LastPiece
<1>2. CASE ~asks
    BY <1>2, Zenon DEF Shows, LastPiece
<1> QED BY <1>1, <1>2

LEMMA HandleReplies ==
    ASSUME TypeOK, NEW line \in Lines, Handle(line)
    PROVE  \E answer \in Seq(Pieces), privileged \in BOOLEAN, asks \in BOOLEAN :
               Handled(line, answer, privileged, asks)
<1> USE Short
<1>0. level \in BOOLEAN /\ asking \in BOOLEAN
    BY DEF TypeOK
<1>1. CASE asking /\ said' = said /\ Shows(<<>>, TRUE, FALSE)
    BY <1>1, ShowsIs, Zenon DEF Handled
<1>2. CASE /\ asking \/ line # "command"
           /\ said' = said /\ \E answer \in {<<>>, <<Error>>} : Shows(answer, level, FALSE)
    BY <1>0, <1>2, ShowsIs, Zenon DEF Handled
<1>3. CASE ~asking /\ line = "enable" /\ said' = said /\ Shows(<<>>, TRUE, FALSE)
    BY <1>3, ShowsIs, Zenon DEF Handled
<1>4. CASE ~asking /\ line = "enable" /\ said' = said /\ Shows(<<>>, level, TRUE)
    BY <1>0, <1>4, ShowsIs, Zenon DEF Handled
<1>5. CASE ~asking /\ line = "command" /\ \E answer \in Answers : Shows(answer, level, FALSE) /\ said' = Append(said, answer)
    <2>1. PICK answer \in Answers : Shows(answer, level, FALSE) /\ said' = Append(said, answer)
        BY <1>5
    <2>2. answer \in Seq(Pieces) /\ Ordinary(answer)
        BY AnswersAreOrdinary
    <2> QED BY <1>0, <1>5, <2>1, <2>2, ShowsIs, Zenon DEF Handled
<1>6. \/ asking /\ said' = said /\ Shows(<<>>, TRUE, FALSE)
      \/ /\ asking \/ line # "command"
         /\ said' = said /\ \E answer \in {<<>>, <<Error>>} : Shows(answer, level, FALSE)
      \/ ~asking /\ line = "enable" /\ said' = said /\ Shows(<<>>, TRUE, FALSE)
      \/ ~asking /\ line = "enable" /\ said' = said /\ Shows(<<>>, level, TRUE)
      \/ ~asking /\ line = "command" /\ \E answer \in Answers : Shows(answer, level, FALSE) /\ said' = Append(said, answer)
    BY Zenon DEF Handle
<1> QED BY <1>1, <1>2, <1>3, <1>4, <1>5, <1>6

\* The switch handles the first line under way.
LEMMA SwitchReplies ==
    ASSUME TypeOK, Switch
    PROVE  /\ typed # <<>> /\ Head(typed) \in Lines /\ typed' = Tail(typed)
           /\ \E answer \in Seq(Pieces), privileged \in BOOLEAN, asks \in BOOLEAN :
                  Handled(Head(typed), answer, privileged, asks)
<1>1. typed \in Seq(Lines) /\ typed # <<>> /\ typed' = Tail(typed) /\ Handle(Head(typed))
    BY DEF TypeOK, Switch
<1>2. Head(typed) \in Lines
    BY <1>1, HeadTailProperties, Zenon
<1> QED BY <1>1, <1>2, HandleReplies

\* What a read has, and the four ways it goes on.
Got == buffer \o chunk
TooMuch == TooLong(Got) /\ Stop("error") /\ UNCHANGED <<buffer, promptName, outputs>>
Requested == step = "enable" /\ AsksPassword(Got) /\ Asked /\ buffer' = <<>> /\ UNCHANGED <<promptName, outputs>>
Ended ==
    /\ AtPrompt(Got) /\ Prompted(SubSeq(Got, 1, Len(Got) - 1), Got[Len(Got)])
    /\ promptName' = Got[Len(Got)].name /\ buffer' = <<>>
Broken == Stop("error") /\ UNCHANGED <<buffer, promptName, outputs>>
Stored ==
    /\ pump = "data" /\ ~TooLong(Got) /\ buffer' = Got
    /\ UNCHANGED <<typed, step, result, eof, promptName, outputs>>

LEMMA ReceiveCases ==
    ASSUME Receive
    PROVE  /\ result = "none" /\ pump \in {"data", "error"} /\ chunk' = <<>>
           /\ pump' \in {"reading", "exited"}
           /\ UNCHANGED <<setup, wire, shell, expired>>
           /\ TooMuch \/ Requested \/ Ended \/ Broken \/ Stored
<1>1. /\ result = "none" /\ pump \in {"data", "error"} /\ chunk' = <<>>
      /\ pump' \in {"reading", "exited"}
      /\ UNCHANGED <<setup, wire, shell, expired>>
    BY Zenon DEF Receive
<1>2. TooMuch \/ Requested \/ Ended \/ Broken \/ Stored
    BY <1>1, Zenon DEF Receive, TooMuch, Requested, Ended, Broken, Stored, Got
<1> QED BY <1>1, <1>2

\* What Run does at the end of an output.
GoesOn(output, p) ==
    \/ step = "login" /\ step' = "enable" /\ outputs' = outputs
    \/ /\ step \in {"login", "enable", "password"} /\ step' = "skip-page-display" /\ outputs' = outputs
       /\ setup.privileged => p.privileged
    \/ step = "skip-page-display" /\ step' = "command" /\ outputs' = outputs
    \/ step = "command" /\ step' = "command" /\ outputs' = Append(outputs, output)

LEMMA PromptedEffects ==
    ASSUME NEW output, NEW p, Prompted(output, p)
    PROVE  \/ /\ result' = "error" /\ typed' = typed /\ step' = step
              /\ outputs' = outputs \/ (step = "command" /\ outputs' = Append(outputs, output))
           \/ /\ result' = "ok" /\ typed' = typed /\ step' = step
              /\ \/ step = "skip-page-display" /\ Commands = 0 /\ outputs' = outputs
                 \/ step = "command" /\ Commands = Len(outputs) + 1 /\ outputs' = Append(outputs, output)
           \/ result' = result /\ typed' = Append(typed, Sent(step')) /\ GoesOn(output, p)
<1>0. /\ Sent("enable") = "enable" /\ Sent("skip-page-display") = "skip-page-display"
      /\ Sent("command") = "command"
    BY DEF Sent
<1>1. CASE step = "login" /\ outputs' = outputs /\ Send("enable", "enable")
    BY <1>0, <1>1, Zenon DEF Send, Stop, GoesOn
<1>2. CASE /\ step \in {"login", "enable", "password"} /\ outputs' = outputs
           /\ setup.privileged => p.privileged
           /\ Send("skip-page-display", "skip-page-display")
    BY <1>0, <1>2, Zenon DEF Send, Stop, GoesOn
<1>3. CASE outputs' = outputs /\ Stop("error")
    BY <1>3, Zenon DEF Stop
<1>4. CASE step = "skip-page-display" /\ outputs' = outputs /\ NextCommand(0)
    BY <1>0, <1>4, Zenon DEF NextCommand, Send, Stop, GoesOn
<1>5. CASE step = "command" /\ outputs' = Append(outputs, output) /\ NextCommand(Len(outputs) + 1)
    BY <1>0, <1>5, Zenon DEF NextCommand, Send, Stop, GoesOn
<1>6. \/ step = "login" /\ outputs' = outputs /\ Send("enable", "enable")
      \/ /\ step \in {"login", "enable", "password"} /\ outputs' = outputs
         /\ setup.privileged => p.privileged
         /\ Send("skip-page-display", "skip-page-display")
      \/ outputs' = outputs /\ Stop("error")
      \/ step = "skip-page-display" /\ outputs' = outputs /\ NextCommand(0)
      \/ step = "command" /\ outputs' = Append(outputs, output) /\ NextCommand(Len(outputs) + 1)
    BY Zenon DEF Prompted, Elevated
<1> QED BY <1>1, <1>2, <1>3, <1>4, <1>5, <1>6, Zenon

LEMMA AskedEffects ==
    ASSUME Asked
    PROVE  \/ result' = "error" /\ typed' = typed /\ step' = step
           \/ result' = result /\ typed' = Append(typed, "secret") /\ step' = "password"
BY Zenon DEF Asked, Send, Stop

-----------------------------------------------------------------------------
(* Types.                                                                  *)

LEMMA Parts ==
    ASSUME TypeOK
    PROVE  /\ Got \in Seq(Pieces) /\ Len(Got) \in Nat
           /\ wire \in Seq(Pieces) /\ chunk \in Seq(Pieces) /\ buffer \in Seq(Pieces)
           /\ Pending = Got \o wire /\ Pending \in Seq(Pieces) /\ Len(Pending) \in Nat
<1>1. wire \in Seq(Pieces) /\ chunk \in Seq(Pieces) /\ buffer \in Seq(Pieces)
    BY DEF TypeOK
<1>2. Got \in Seq(Pieces)
    BY <1>1, ConcatProperties DEF Got
<1>3. Got \o wire \in Seq(Pieces)
    BY <1>1, <1>2, ConcatProperties
<1> QED BY <1>1, <1>2, <1>3, LenProperties DEF Pending, Got

LEMMA SwitchTypes ==
    ASSUME TypeOK, Switch
    PROVE  TypeOK'
<1>1. PICK answer \in Seq(Pieces), privileged \in BOOLEAN, asks \in BOOLEAN :
          Handled(Head(typed), answer, privileged, asks)
    BY SwitchReplies
<1>2. level' \in BOOLEAN /\ asking' \in BOOLEAN
    BY <1>1, Zenon DEF Handled
<1>3. <<LastPiece(privileged, asks)>> \in Seq(Pieces)
    BY LastPieceType
<1>4. wire \o answer \in Seq(Pieces)
    BY ConcatProperties DEF TypeOK
<1>5. wire \o answer \o <<LastPiece(privileged, asks)>> \in Seq(Pieces)
    BY <1>3, <1>4, ConcatProperties
<1>6. wire' \in Seq(Pieces)
    BY <1>1, <1>5 DEF Handled
<1>7. said' = said \/ said' = Append(said, answer)
    BY <1>1, Zenon DEF Handled
<1>8. said' \in Seq(Seq(Pieces))
    <2>1. said \in Seq(Seq(Pieces))
        BY DEF TypeOK
    <2>2. Append(said, answer) \in Seq(Seq(Pieces))
        BY <2>1, AppendProperties, Zenon
    <2> QED BY <1>7, <2>1, <2>2, Zenon
<1>9. typed' \in Seq(Lines)
    BY SwitchReplies, HeadTailProperties DEF TypeOK
<1> QED BY <1>2, <1>6, <1>8, <1>9 DEF TypeOK, Switch, reader

LEMMA ReceiveTypes ==
    ASSUME TypeOK, Receive
    PROVE  TypeOK'
<1>0. Len(<<>>) = 0 /\ <<>> \in Seq(Pieces) /\ Limit \in Nat
    BY TerminalAssumption
<1>1. /\ chunk' \in Seq(Pieces) /\ pump' \in {"reading", "data", "error", "exited"}
      /\ setup' \in Setups /\ wire' \in Seq(Pieces) /\ expired' \in BOOLEAN
      /\ level' \in BOOLEAN /\ asking' \in BOOLEAN /\ said' \in Seq(Seq(Pieces))
    BY <1>0, ReceiveCases DEF TypeOK, shell
<1>2. TooMuch \/ Requested \/ Ended \/ Broken \/ Stored
    BY ReceiveCases
<1>3. eof' \in BOOLEAN
    <2>1. eof' = TRUE \/ eof' = eof
        BY <1>2, Zenon DEF TooMuch, Requested, Ended, Broken, Stored, Stop, Asked, Prompted,
                           Send, NextCommand
    <2> QED BY <2>1 DEF TypeOK
<1>4. Got \in Seq(Pieces)
    BY Parts
<1>5. CASE Ended
    <2>1. Got # <<>> /\ Got[Len(Got)].kind = "prompt"
        BY <1>5, Zenon DEF Ended, AtPrompt
    <2>2. OwnPrompt(Got[Len(Got)]) \/ ForeignPrompt(Got[Len(Got)])
        BY <1>4, <2>1, PieceKinds, Splits
    <2>3. promptName' \in {NoName, Own, Foreign}
        BY <1>5, <2>2, PieceKinds DEF Ended, OwnPrompt, ForeignPrompt
    <2> DEFINE output == SubSeq(Got, 1, Len(Got) - 1)
    <2>4. output \in Seq(Pieces)
        BY <1>4, <2>1, Splits
    <2>5. outputs' = outputs \/ outputs' = Append(outputs, output)
        BY <1>5, PromptedEffects, Zenon DEF Ended, GoesOn
    <2>6. outputs' \in Seq(Seq(Pieces))
        <3>1. outputs \in Seq(Seq(Pieces))
            BY DEF TypeOK
        <3>2. Append(outputs, output) \in Seq(Seq(Pieces))
            BY <2>4, <3>1, AppendProperties, Zenon
        <3> QED BY <2>5, <3>1, <3>2, Zenon
    <2>7. \/ typed' = typed /\ step' = step
          \/ typed' = Append(typed, Sent(step')) /\ step' \in Steps
        BY <1>5, PromptedEffects, Zenon DEF Ended, GoesOn, Steps
    <2>8. \A at : Sent(at) \in Lines
        BY DEF Sent, Lines
    <2>9. typed' \in Seq(Lines) /\ step' \in Steps
        <3>1. typed \in Seq(Lines) /\ step \in Steps
            BY DEF TypeOK
        <3>2. Append(typed, Sent(step')) \in Seq(Lines)
            BY <2>8, <3>1, AppendProperties, Zenon
        <3> QED BY <2>7, <3>1, <3>2, Zenon
    <2>10. result' \in {"none", "ok", "error"}
        BY <1>5, PromptedEffects DEF Ended, TypeOK
    <2>11. buffer' = <<>>
        BY <1>5 DEF Ended
    <2> QED BY <1>0, <1>1, <1>3, <2>3, <2>6, <2>9, <2>10, <2>11 DEF TypeOK
<1>6. CASE Requested
    <2>1. typed' \in Seq(Lines) /\ step' \in Steps /\ result' \in {"none", "ok", "error"}
        <3>1. "secret" \in Lines /\ "password" \in Steps
            BY DEF Lines, Steps
        <3>2. typed \in Seq(Lines) /\ step \in Steps /\ result \in {"none", "ok", "error"}
            BY DEF TypeOK
        <3>3. Append(typed, "secret") \in Seq(Lines)
            BY <3>1, <3>2, AppendProperties, Zenon
        <3>4. \/ result' = "error" /\ typed' = typed /\ step' = step
              \/ result' = result /\ typed' = Append(typed, "secret") /\ step' = "password"
            BY <1>6, AskedEffects DEF Requested
        <3> QED BY <3>1, <3>2, <3>3, <3>4
    <2> QED BY <1>0, <1>1, <1>3, <1>6, <2>1 DEF TypeOK, Requested
<1>7. CASE TooMuch \/ Broken
    BY <1>1, <1>3, <1>7 DEF TypeOK, TooMuch, Broken, Stop
<1>8. CASE Stored
    <2>1. Len(Got) <= Limit
        BY <1>0, <1>4, <1>8, LenProperties DEF Stored, TooLong
    <2> QED BY <1>1, <1>3, <1>4, <1>8, <2>1 DEF TypeOK, Stored
<1> QED BY <1>2, <1>5, <1>6, <1>7, <1>8

\* Every step keeps the types.
LEMMA StepTypes ==
    ASSUME TypeOK, [Next]_vars
    PROVE  TypeOK'
<1>1. CASE Switch
    BY <1>1, SwitchTypes
<1>2. CASE Receive
    BY <1>2, ReceiveTypes
<1>3. CASE Disconnect \/ Expire
    BY <1>3 DEF Disconnect, Expire, TypeOK, shell, reader
<1>4. CASE PumpRead
    <2>1. \A n \in 1..Len(wire) : SubSeq(wire, 1, n) \in Seq(Pieces) /\ SubSeq(wire, n + 1, Len(wire)) \in Seq(Pieces)
        BY Cut DEF TypeOK
    <2>2. wire' \in Seq(Pieces) /\ chunk' \in Seq(Pieces) /\ pump' \in {"data", "error"}
        BY <1>4, <2>1 DEF PumpRead, TypeOK
    <2> QED BY <1>4, <2>2 DEF PumpRead, TypeOK, shell, reader
<1>5. CASE PumpDone
    BY <1>5 DEF PumpDone, TypeOK, shell, reader
<1>6. CASE TimedOut
    BY <1>6 DEF TimedOut, Stop, TypeOK, shell
<1>7. CASE UNCHANGED vars
    BY <1>7 DEF vars, TypeOK
<1>8. Finished => UNCHANGED vars
    BY DEF Finished
<1> QED BY <1>1, <1>2, <1>3, <1>4, <1>5, <1>6, <1>7, <1>8 DEF Next

-----------------------------------------------------------------------------
(* What is pending.                                                        *)

\* Output that ends with x: its last piece is x, and its body what precedes it.
LEMMA Shape ==
    ASSUME TypeOK, NEW x \in Pieces, Pending = Append(Body, x)
    PROVE  /\ Pending # <<>> /\ Len(Pending) \in Nat \ {0} /\ Pending[Len(Pending)] = x
           /\ Body \in Seq(Pieces) /\ Len(Body) = Len(Pending) - 1
           /\ \A i \in 1..Len(Pending) - 1 : Pending[i] = Body[i]
<1>1. Pending \in Seq(Pieces) /\ Len(Pending) \in Nat
    BY Parts
<1>2. Pending # <<>>
    <2>1. SUFFICES ASSUME Pending = <<>> PROVE FALSE
        OBVIOUS
    <2>2. Len(<<>>) = 0
        OBVIOUS
    <2>3. Body = SubSeq(<<>>, 1, Len(Pending) - 1) /\ Len(Pending) - 1 < 1
        BY <2>1, <2>2 DEF Body
    <2>4. Len(Pending) - 1 \in Int
        BY <1>1
    <2>5. Body = <<>>
        BY <2>3, <2>4, SubSeqEmpty
    <2>6. Body \in Seq(Pieces)
        BY <2>5
    <2> QED BY <2>1, <2>6, AppendProperties, Zenon
<1>3. /\ Len(Pending) \in Nat \ {0}
      /\ Body \in Seq(Pieces) /\ Len(Body) = Len(Pending) - 1
      /\ \A i \in 1..Len(Pending) - 1 : Body[i] = Pending[i]
    BY <1>1, <1>2, Splits, Zenon DEF Body
<1>4. Append(Body, x)[Len(Body) + 1] = x
    BY <1>3, AppendProperties, Zenon
<1>5. Len(Body) + 1 = Len(Pending)
    BY <1>3
<1> QED BY <1>2, <1>3, <1>4, <1>5

\* The same the other way round.
LEMMA Composed ==
    ASSUME NEW s \in Seq(Pieces), NEW x \in Pieces, NEW q, q = s \o <<x>>
    PROVE  q = Append(SubSeq(q, 1, Len(q) - 1), x) /\ SubSeq(q, 1, Len(q) - 1) = s
<1>1. SubSeq(q, 1, Len(q) - 1) = s
    BY TextEnds
<1>2. Append(s, x) = s \o <<x>>
    BY AppendIsConcat, Zenon
<1> QED BY <1>1, <1>2

\* What a read has is the beginning of what is pending.
LEMMA GotPending ==
    ASSUME TypeOK, Got # <<>>
    PROVE  /\ Len(Got) \in Nat \ {0} /\ Len(Got) <= Len(Pending) /\ Pending # <<>>
           /\ Pending[Len(Got)] = Got[Len(Got)] /\ Got[Len(Got)] \in Pieces
           /\ Len(Pending) = Len(Got) + Len(wire)
           /\ \A i \in 1..Len(wire) : wire[i] = Pending[Len(Got) + i]
<1>1. Got \in Seq(Pieces) /\ wire \in Seq(Pieces) /\ Pending = Got \o wire
    BY Parts
<1>2. Len(Got) \in Nat \ {0} /\ Len(wire) \in Nat /\ Got[Len(Got)] \in Pieces
    BY <1>1, Splits, LenProperties
<1>3. /\ Len(Pending) = Len(Got) + Len(wire)
      /\ \A i \in 1..Len(Got) + Len(wire) : Pending[i] = IF i <= Len(Got) THEN Got[i] ELSE wire[i - Len(Got)]
    BY <1>1, ConcatProperties
<1>4. Pending # <<>>
    BY <1>2, <1>3
<1>5. \A i \in 1..Len(wire) : wire[i] = Pending[Len(Got) + i]
    BY <1>2, <1>3
<1> QED BY <1>2, <1>3, <1>4, <1>5

\* A read that has the piece only the end shows has all there is.
LEMMA WholeText ==
    ASSUME TypeOK, Got # <<>>,
           \A i \in 1..Len(Pending) - 1 : Pending[i] # Got[Len(Got)]
    PROVE  /\ wire = <<>> /\ Pending = Got /\ Body = SubSeq(Got, 1, Len(Got) - 1)
           /\ Pending[Len(Pending)] = Got[Len(Got)]
<1>1. Got \in Seq(Pieces) /\ wire \in Seq(Pieces) /\ Pending = Got \o wire
    BY Parts
<1>2. wire = <<>> /\ Pending = Got
    BY <1>1, Framing
<1> QED BY <1>2 DEF Body

LEMMA Regrouped ==
    \A a, b, c \in Seq(Pieces) : (a \o b) \o c = a \o (b \o c)
BY ConcatAssociative

\* A step that hands over output, or keeps it for the next chunk, loses none.
LEMMA PumpKeeps ==
    ASSUME TypeOK, ChunkInv, result = "none", PumpRead
    PROVE  Pending' = Pending
<1>1. chunk = <<>> /\ buffer' = buffer
    BY DEF ChunkInv, PumpRead, reader
<1>2. wire \in Seq(Pieces) /\ buffer \in Seq(Pieces)
    BY Parts
<1>3. chunk' \in Seq(Pieces) /\ wire' \in Seq(Pieces) /\ chunk' \o wire' = wire
    <2>1. CASE chunk' = <<>> /\ wire' = wire
        BY <1>2, <2>1, ConcatEmptySeq
    <2>2. ASSUME NEW n \in 1..Len(wire), chunk' = SubSeq(wire, 1, n), wire' = SubSeq(wire, n + 1, Len(wire))
          PROVE  chunk' \in Seq(Pieces) /\ wire' \in Seq(Pieces) /\ chunk' \o wire' = wire
        BY <1>2, <2>2, Cut
    <2> QED BY <2>1, <2>2 DEF PumpRead
<1>4. (buffer \o chunk') \o wire' = buffer \o (chunk' \o wire')
    BY <1>2, <1>3, Regrouped, Zenon
<1>5. buffer \o <<>> = buffer
    BY <1>2, ConcatEmptySeq
<1> QED BY <1>1, <1>3, <1>4, <1>5 DEF Pending

LEMMA StoredKeeps ==
    ASSUME TypeOK, Stored, chunk' = <<>>, wire' = wire
    PROVE  Pending' = Pending
<1>1. Got \in Seq(Pieces) /\ Pending = Got \o wire
    BY Parts
<1>2. Got \o <<>> = Got
    BY <1>1, ConcatEmptySeq
<1> QED BY <1>1, <1>2 DEF Pending, Stored

\* A read that returns leaves what is still on the wire.
LEMMA TakenLeaves ==
    ASSUME TypeOK, buffer' = <<>>, chunk' = <<>>, wire' = wire
    PROVE  Pending' = wire
<1>1. wire \in Seq(Pieces) /\ <<>> \in Seq(Pieces)
    BY Parts, Short
<1>2. <<>> \o <<>> = <<>> /\ <<>> \o wire = wire
    BY <1>1, ConcatEmptySeq
<1> QED BY <1>2 DEF Pending

\* What the switch prints comes after what is pending.
LEMMA PrintedFollows ==
    ASSUME TypeOK, NEW answer \in Seq(Pieces), NEW x \in Pieces,
           wire' = wire \o answer \o <<x>>, UNCHANGED <<buffer, chunk>>
    PROVE  /\ Pending \o answer \in Seq(Pieces)
           /\ Pending' = (Pending \o answer) \o <<x>>
<1>1. Got \in Seq(Pieces) /\ wire \in Seq(Pieces) /\ Pending = Got \o wire /\ Pending \in Seq(Pieces)
    BY Parts
<1>2. wire \o answer \in Seq(Pieces) /\ Pending \o answer \in Seq(Pieces) /\ <<x>> \in Seq(Pieces)
    BY <1>1, ConcatProperties
<1>3. Got \o ((wire \o answer) \o <<x>>) = (Got \o (wire \o answer)) \o <<x>>
    BY <1>1, <1>2, ConcatAssociative
<1>4. Got \o (wire \o answer) = (Got \o wire) \o answer
    BY <1>1, ConcatAssociative
<1>5. Pending' = Got \o wire'
    BY DEF Pending, Got
<1> QED BY <1>1, <1>2, <1>3, <1>4, <1>5

-----------------------------------------------------------------------------
(* Run and the switch stay in step.                                        *)

Phase == LoggingIn \/ InStep \/ Astray

\* A step that only moves output along changes no phase.
LEMMA PhaseFrame ==
    ASSUME Phase, Pending' = Pending,
           UNCHANGED <<setup, typed, level, asking, said, step, promptName, outputs>>
    PROVE  Phase'
<1>1. Body' = Body
    BY DEF Body
<1>2. /\ setup' = setup /\ typed' = typed /\ level' = level /\ asking' = asking /\ said' = said
      /\ step' = step /\ promptName' = promptName /\ outputs' = outputs
    OBVIOUS
<1>3. LoggingIn => LoggingIn'
    BY <1>1, <1>2 DEF LoggingIn, Ordinary, OnePrompt
<1>4. Astray => Astray'
    BY <1>2 DEF Astray
<1>5. Waiting => Waiting'
    BY <1>2 DEF Waiting, Sent
<1>6. Replied => Replied'
    BY <1>1, <1>2 DEF Replied, Ordinary
<1>7. InStep => InStep'
    BY <1>2, <1>5, <1>6 DEF InStep
<1> QED BY <1>3, <1>4, <1>7 DEF Phase

LEMMA Appended ==
    ASSUME NEW s \in Seq(Seq(Pieces)), NEW t \in Seq(Pieces)
    PROVE  /\ Append(s, t) \in Seq(Seq(Pieces)) /\ Len(Append(s, t)) = Len(s) + 1
           /\ Append(s, t)[Len(s) + 1] = t
           /\ \A i \in 1..Len(s) : Append(s, t)[i] = s[i]
<1> DEFINE S == Seq(Pieces)
<1>1. s \in Seq(S) /\ t \in S
    OBVIOUS
<1> HIDE DEF S
<1> QED BY <1>1, AppendProperties

LEMMA SentIs ==
    /\ Sent("enable") = "enable" /\ Sent("password") = "secret"
    /\ Sent("skip-page-display") = "skip-page-display" /\ Sent("command") = "command"
BY DEF Sent

\* A reply to the line Run waits for.
LEMMA SwitchInStep ==
    ASSUME TypeOK, InStep, Switch
    PROVE  InStep'
<1>1. PICK answer \in Seq(Pieces), privileged \in BOOLEAN, asks \in BOOLEAN :
          Handled(Head(typed), answer, privileged, asks)
    BY SwitchReplies
<1>2. /\ typed # <<>> /\ typed' = Tail(typed)
      /\ UNCHANGED <<setup, buffer, chunk, step, promptName, outputs>>
    BY SwitchReplies DEF Switch, reader
<1>3. Waiting
    BY <1>2 DEF InStep, Replied
<1> DEFINE line == Sent(step)
           x == LastPiece(privileged, asks)
<1>4. typed = <<line>> /\ Pending = <<>> /\ (asking <=> step = "password") /\ Len(said) = Len(outputs)
    BY <1>3, Zenon DEF Waiting
<1>5. Head(typed) = line /\ typed' = <<>>
    BY <1>2, <1>4
<1>6. /\ Ordinary(answer) /\ (level => privileged) /\ level' = privileged /\ asking' = asks
      /\ wire' = wire \o answer \o <<x>>
      /\ asks => line = "enable" /\ ~asking
      /\ asking \/ line # "command" => said' = said
      /\ ~asking /\ line = "command" => said' = Append(said, answer)
    BY <1>1, <1>5, Zenon DEF Handled
<1>7. x \in Pieces
    BY LastPieceType
<1>8. Pending' = (Pending \o answer) \o <<x>>
    BY <1>2, <1>6, <1>7, PrintedFollows
<1>9. Pending \o answer = answer
    BY <1>4, ConcatEmptySeq
<1>10. Pending' = Append(Body', x) /\ Body' = answer
    <2>1. Pending' = answer \o <<x>>
        BY <1>8, <1>9
    <2> QED BY <1>7, <2>1, Composed DEF Body
<1>11. step \in {"enable", "password", "skip-page-display", "command"} /\ promptName = Own
    BY DEF InStep
<1>12. /\ line = "enable" => step = "enable"
       /\ line = "command" <=> step = "command"
    BY <1>11, SentIs
<1>13. \/ Pending' = Append(Body', Prompt(Own, level')) /\ ~asking'
       \/ Pending' = Append(Body', Ask) /\ asking' /\ step' = "enable"
    <2>1. CASE asks
        BY <1>2, <1>6, <1>10, <1>12, <2>1, Zenon DEF LastPiece
    <2>2. CASE ~asks
        BY <1>6, <1>10, <2>2, Zenon DEF LastPiece
    <2> QED BY <2>1, <2>2
<1>14. CASE step = "command"
    <2>1. said' = Append(said, answer)
        BY <1>4, <1>6, <1>12, <1>14
    <2>2. said \in Seq(Seq(Pieces)) /\ outputs \in Seq(Seq(Pieces))
        BY DEF TypeOK
    <2>3. /\ Len(said') = Len(said) + 1 /\ said'[Len(said) + 1] = answer
          /\ \A i \in 1..Len(said) : said'[i] = said[i]
        <3> DEFINE longer == Append(said, answer)
        <3>1. /\ Len(longer) = Len(said) + 1 /\ longer[Len(said) + 1] = answer
              /\ \A i \in 1..Len(said) : longer[i] = said[i]
            BY <2>2, Appended, Zenon
        <3> QED BY <2>1, <3>1
    <2>4. \A i \in 1..Len(outputs) : outputs'[i] = said'[i]
        BY <1>2, <1>4, <2>3 DEF InStep
    <2>5. Len(said') = Len(outputs') + 1 /\ said'[Len(said')] = Body'
        BY <1>2, <1>4, <1>10, <2>3
    <2>6. Replied'
        BY <1>5, <1>6, <1>10, <1>13, <2>5, Zenon DEF Replied
    <2>7. setup'.privileged => level'
        BY <1>2, <1>6, <1>14, Zenon DEF InStep
    <2> QED BY <1>2, <1>11, <1>14, <2>4, <2>6, <2>7, Zenon DEF InStep
<1>15. CASE step # "command"
    <2>1. said' = said
        BY <1>6, <1>12, <1>15
    <2>2. Replied'
        BY <1>2, <1>5, <1>6, <1>10, <1>13, <1>15, Zenon DEF Replied
    <2>3. setup'.privileged /\ step' = "skip-page-display" => level'
        BY <1>2, <1>6, Zenon DEF InStep
    <2> QED BY <1>2, <1>15, <2>1, <2>2, <2>3, Zenon DEF InStep
<1> QED BY <1>14, <1>15

\* A reply to a session that has gone astray holds nothing it takes for its prompt.
LEMMA SwitchAstray ==
    ASSUME TypeOK, LineInv, Astray, Switch
    PROVE  Astray'
<1>1. PICK answer \in Seq(Pieces), privileged \in BOOLEAN, asks \in BOOLEAN :
          Handled(Head(typed), answer, privileged, asks)
    BY SwitchReplies
<1>2. /\ typed # <<>> /\ typed' = Tail(typed)
      /\ UNCHANGED <<setup, buffer, chunk, step, promptName, outputs>>
    BY SwitchReplies DEF Switch, reader
<1>3. PICK line \in Lines : typed = <<line>>
    BY <1>2 DEF LineInv
<1>4. Head(typed) = line /\ typed' = <<>> /\ line # "command"
    BY <1>2, <1>3 DEF Astray
<1> DEFINE x == LastPiece(privileged, asks)
<1>5. /\ asking' = asks /\ wire' = wire \o answer \o <<x>>
      /\ said' = said /\ answer \in {<<>>, <<Error>>}
    BY <1>1, <1>4, Zenon DEF Handled
<1>6. x \in Pieces
    BY LastPieceType
<1>7. Pending \o answer \in Seq(Pieces) /\ Pending' = (Pending \o answer) \o <<x>> /\ Pending \in Seq(Pieces)
    BY <1>2, <1>5, <1>6, PrintedFollows, Parts
<1>8. \A i \in 1..Len(Pending) : Pending[i] # Ask /\ ~ForeignPrompt(Pending[i])
    BY <1>2 DEF Astray
<1>9. \A i \in 1..Len(answer) : answer[i] # Ask /\ ~ForeignPrompt(answer[i])
    <2>1. CASE answer = <<>>
        BY <2>1
    <2>2. CASE answer = <<Error>>
        <3>1. Len(answer) = 1 /\ answer[1] = Error
            BY <2>2
        <3>2. Error # Ask /\ ~ForeignPrompt(Error)
            BY PieceKinds DEF ForeignPrompt
        <3> QED BY <3>1, <3>2
    <2> QED BY <1>5, <2>1, <2>2
<1>10. \A i \in 1..Len(Pending \o answer) : (Pending \o answer)[i] # Ask /\ ~ForeignPrompt((Pending \o answer)[i])
    <2>1. Len(Pending) \in Nat /\ Len(answer) \in Nat
        BY <1>7, LenProperties
    <2>2. Len(Pending \o answer) = Len(Pending) + Len(answer)
        BY <1>7, ConcatProperties
    <2>3. \A i \in 1..Len(Pending) + Len(answer) :
              (Pending \o answer)[i] = IF i <= Len(Pending) THEN Pending[i] ELSE answer[i - Len(Pending)]
        BY <1>7, ConcatProperties
    <2> QED BY <1>8, <1>9, <2>1, <2>2, <2>3
<1>11. ~ForeignPrompt(x) /\ (x = Ask => asks)
    <2>1. CASE asks
        BY <2>1, PieceKinds, Zenon DEF LastPiece, ForeignPrompt
    <2>2. CASE ~asks
        <3>1. x = Prompt(Own, privileged)
            BY <2>2, Zenon DEF LastPiece
        <3> QED BY <3>1, PieceKinds DEF OwnPrompt
    <2> QED BY <2>1, <2>2
<1>12. /\ Len(Pending') = Len(Pending \o answer) + 1 /\ Pending'[Len(Pending \o answer) + 1] = x
       /\ \A i \in 1..Len(Pending \o answer) : Pending'[i] = (Pending \o answer)[i]
    BY <1>6, <1>7, TextEnds
<1>13. Len(Pending \o answer) \in Nat
    BY <1>7, LenProperties
<1>14. \A i \in 1..Len(Pending') :
          ~ForeignPrompt(Pending'[i]) /\ (Pending'[i] = Ask => i = Len(Pending') /\ asks)
    <2> SUFFICES ASSUME NEW i \in 1..Len(Pending')
                 PROVE  ~ForeignPrompt(Pending'[i]) /\ (Pending'[i] = Ask => i = Len(Pending') /\ asks)
        OBVIOUS
    <2>1. CASE i = Len(Pending \o answer) + 1
        BY <1>11, <1>12, <2>1, Zenon
    <2>2. CASE i # Len(Pending \o answer) + 1
        <3>1. i \in 1..Len(Pending \o answer)
            <4> HIDE DEF Pending
            <4> QED BY <1>12, <1>13, <2>2
        <3> QED BY <1>10, <1>12, <3>1, Zenon
    <2> QED BY <2>1, <2>2, Zenon
<1>15. \A i \in 1..Len(Pending') : (~ForeignPrompt(Pending[i]))'
    BY <1>14, Zenon DEF ForeignPrompt
<1>16. /\ (promptName = Foreign /\ step \in {"enable", "password", "skip-page-display"})'
       /\ said' = <<>> /\ outputs' = <<>> /\ typed' # <<"command">>
    <2>1. <<>> # <<"command">>
        OBVIOUS
    <2>2. /\ promptName = Foreign /\ step \in {"enable", "password", "skip-page-display"}
          /\ said = <<>> /\ outputs = <<>>
        BY <1>2, Zenon DEF Astray
    <2>3. promptName' = promptName /\ step' = step /\ outputs' = outputs
        BY <1>2
    <2> QED BY <1>4, <1>5, <2>1, <2>2, <2>3, Zenon
<1>17. \A i \in 1..Len(Pending') :
          Pending'[i] = Ask => i = Len(Pending') /\ asking' /\ typed' = <<>>
    BY <1>4, <1>5, <1>14, Zenon
<1> QED BY <1>15, <1>16, <1>17, Zenon DEF Astray

LEMMA SwitchPhase ==
    ASSUME TypeOK, LineInv, Phase, Switch
    PROVE  Phase'
<1>1. ~LoggingIn
    BY DEF Switch, LoggingIn
<1> QED BY <1>1, SwitchInStep, SwitchAstray DEF Phase

\* A read of Run that goes on: what it leaves as it is.
Taken == result = "none" /\ chunk' = <<>> /\ UNCHANGED <<setup, wire, level, asking, said>>

\* A reply that a read has seen the end of is all there is.
LEMMA ReplySeen ==
    ASSUME TypeOK, Replied, Got # <<>>, Got[Len(Got)] = Ask \/ OwnPrompt(Got[Len(Got)])
    PROVE  /\ wire = <<>> /\ typed = <<>> /\ Body = SubSeq(Got, 1, Len(Got) - 1)
           /\ \/ Got[Len(Got)] = Prompt(Own, level) /\ ~asking
              \/ Got[Len(Got)] = Ask /\ asking /\ step = "enable"
<1>1. level \in BOOLEAN /\ Ask \in Pieces /\ Prompt(Own, level) \in Pieces
    BY PieceKinds DEF TypeOK
<1>2. PICK x \in Pieces : /\ Pending = Append(Body, x)
                          /\ \/ x = Prompt(Own, level) /\ ~asking
                             \/ x = Ask /\ asking /\ step = "enable"
    BY <1>1, Zenon DEF Replied
<1>3. \A i \in 1..Len(Body) : Body[i] # Ask /\ ~OwnPrompt(Body[i])
    BY DEF Replied, Ordinary
<1>4. \A i \in 1..Len(Pending) - 1 : Pending[i] # Got[Len(Got)]
    BY <1>2, <1>3, Shape
<1>5. wire = <<>> /\ Body = SubSeq(Got, 1, Len(Got) - 1) /\ Pending[Len(Pending)] = Got[Len(Got)]
    BY <1>4, WholeText
<1>6. Got[Len(Got)] = x
    BY <1>2, <1>5, Shape
<1> QED BY <1>2, <1>5, <1>6 DEF Replied

LEMMA NotWaiting ==
    ASSUME TypeOK, InStep, Got # <<>>
    PROVE  Replied
BY GotPending DEF InStep, Waiting

\* Run answers a request that the switch made, and none other.
LEMMA RequestedPhase ==
    ASSUME TypeOK, Phase, Taken, Requested, result' = "none"
    PROVE  /\ typed = <<>> /\ asking /\ typed' = <<"secret">>
           /\ Phase'
<1>1. typed' = Append(typed, "secret") /\ step' = "password" /\ step = "enable"
    BY AskedEffects DEF Requested
<1>2. Got # <<>> /\ Got[Len(Got)] = Ask /\ buffer' = <<>> /\ promptName' = promptName /\ outputs' = outputs
    BY DEF Requested, AsksPassword
<1>3. Pending' = wire
    BY <1>2, TakenLeaves DEF Taken
<1>4. InStep \/ Astray
    BY <1>1 DEF Phase, LoggingIn
<1>5. /\ setup' = setup /\ wire' = wire /\ level' = level /\ asking' = asking /\ said' = said
    BY DEF Taken
<1>6. CASE InStep
    <2>1. Replied
        BY <1>2, <1>6, NotWaiting
    <2>2. Ask # Prompt(Own, level)
        BY PieceKinds
    <2>3. wire = <<>> /\ typed = <<>> /\ asking
        BY <1>2, <2>1, <2>2, ReplySeen
    <2>4. typed' = <<"secret">>
        BY <1>1, <2>3
    <2>5. said = <<>> /\ outputs = <<>> /\ promptName = Own
        BY <1>1, <1>6, Zenon DEF InStep
    <2>6. Waiting'
        BY <1>1, <1>2, <1>3, <1>5, <2>3, <2>4, <2>5 DEF Waiting, Sent
    <2>7. Len(<<>>) = 0
        OBVIOUS
    <2>8. InStep'
        BY <1>1, <1>2, <1>5, <2>5, <2>6, <2>7 DEF InStep
    <2> QED BY <2>3, <2>4, <2>8 DEF Phase
<1>7. CASE Astray
    <2>1. Pending[Len(Got)] = Ask /\ Len(Got) \in 1..Len(Pending)
        BY <1>2, GotPending, Parts
    <2>2. Len(Got) = Len(Pending) /\ asking /\ typed = <<>>
        BY <1>7, <2>1 DEF Astray
    <2>3. Len(wire) = 0
        BY <1>2, <2>2, GotPending, Parts, LenProperties
    <2>4. typed' = <<"secret">>
        BY <1>1, <2>2
    <2>5. \A i \in 1..Len(Pending') : FALSE
        BY <1>3, <2>3
    <2>6. promptName' = Foreign /\ said' = <<>> /\ outputs' = <<>> /\ typed' # <<"command">>
        BY <1>2, <1>5, <1>7, <2>4 DEF Astray
    <2>7. Astray'
        BY <1>1, <2>5, <2>6 DEF Astray
    <2> QED BY <2>2, <2>4, <2>7 DEF Phase
<1> QED BY <1>4, <1>6, <1>7

\* The prompt that ends a read is the switch's own, or one that a banner showed.
LEMMA EndIs ==
    ASSUME TypeOK, Ended
    PROVE  /\ Got # <<>> /\ Got[Len(Got)].kind = "prompt" /\ Got[Len(Got)] # Ask
           /\ \/ OwnPrompt(Got[Len(Got)]) /\ promptName' = Own
              \/ ForeignPrompt(Got[Len(Got)]) /\ promptName' = Foreign
           /\ promptName \in {NoName, promptName'} /\ buffer' = <<>>
<1>1. /\ Got # <<>> /\ Got[Len(Got)].kind = "prompt" /\ promptName' = Got[Len(Got)].name
      /\ promptName \in {NoName, Got[Len(Got)].name} /\ buffer' = <<>>
    BY Zenon DEF Ended, AtPrompt
<1>2. Got[Len(Got)] \in Pieces
    BY <1>1, GotPending
<1>3. OwnPrompt(Got[Len(Got)]) \/ ForeignPrompt(Got[Len(Got)])
    BY <1>1, <1>2, PieceKinds
<1>4. Got[Len(Got)] # Ask
    BY <1>3, PieceKinds DEF OwnPrompt, ForeignPrompt
<1>5. /\ OwnPrompt(Got[Len(Got)]) => Got[Len(Got)].name = Own
      /\ ForeignPrompt(Got[Len(Got)]) => Got[Len(Got)].name = Foreign
    BY PieceKinds DEF OwnPrompt, ForeignPrompt
<1> QED BY <1>1, <1>3, <1>4, <1>5

\* A read of Run that ends at a prompt, after which a line is sent.
Continued ==
    /\ Taken /\ Ended /\ result' = "none"
    /\ typed' = Append(typed, Sent(step')) /\ GoesOn(SubSeq(Got, 1, Len(Got) - 1), Got[Len(Got)])

\* The switch's own first prompt puts Run in step with it.
LEMMA LogsIn ==
    ASSUME TypeOK, LoggingIn, Continued, OwnPrompt(Got[Len(Got)])
    PROVE  InStep'
<1>1. level \in BOOLEAN /\ Prompt(Own, level) \in Pieces
    BY PieceKinds DEF TypeOK
<1>2. /\ Pending = Append(Body, Prompt(Own, level)) /\ step = "login" /\ typed = <<>> /\ ~asking
      /\ said = <<>> /\ outputs = <<>>
    BY DEF LoggingIn
<1>3. \A i \in 1..Len(Body) : ~OwnPrompt(Body[i])
    BY DEF LoggingIn, Ordinary
<1>4. /\ Got # <<>> /\ buffer' = <<>> /\ promptName' = Own
    BY EndIs, PieceKinds DEF Continued
<1>5. \A i \in 1..Len(Pending) - 1 : Pending[i] # Got[Len(Got)]
    BY <1>1, <1>2, <1>3, Shape
<1>6. wire = <<>> /\ Pending[Len(Pending)] = Got[Len(Got)]
    BY <1>4, <1>5, WholeText
<1>7. Got[Len(Got)] = Prompt(Own, level)
    BY <1>1, <1>2, <1>6, Shape
<1>8. Pending' = <<>>
    BY <1>4, <1>6, TakenLeaves DEF Continued, Taken
<1>9. /\ setup' = setup /\ level' = level /\ asking' = asking /\ said' = said
      /\ typed' = Append(typed, Sent(step'))
    BY DEF Continued, Taken
<1>10. /\ outputs' = <<>> /\ step' \in {"enable", "skip-page-display"}
       /\ step' = "skip-page-display" /\ setup.privileged => level
    <2>1. Prompt(Own, level).privileged = level
        BY PieceKinds
    <2> QED BY <1>2, <1>7, <2>1 DEF Continued, GoesOn
<1>11. typed' = <<Sent(step')>>
    BY <1>2, <1>9
<1>12. Sent(step)' = Sent(step')
    BY DEF Sent
<1>13. Waiting'
    BY <1>2, <1>8, <1>9, <1>10, <1>11, <1>12 DEF Waiting
<1>14. Len(<<>>) = 0
    OBVIOUS
<1> QED BY <1>2, <1>4, <1>9, <1>10, <1>13, <1>14 DEF InStep

\* A banner's line that looks like a prompt leads Run astray, and it is the only one.
LEMMA GoesAstray ==
    ASSUME TypeOK, LoggingIn, Continued, ForeignPrompt(Got[Len(Got)])
    PROVE  Astray'
<1>1. level \in BOOLEAN /\ Prompt(Own, level) \in Pieces
    BY PieceKinds DEF TypeOK
<1>2. /\ Pending = Append(Body, Prompt(Own, level)) /\ step = "login" /\ typed = <<>>
      /\ said = <<>> /\ outputs = <<>> /\ Ordinary(Body) /\ OnePrompt(Body)
    BY DEF LoggingIn
<1>3. Got # <<>> /\ buffer' = <<>> /\ promptName' = Foreign
    BY EndIs, PieceKinds DEF Continued
<1>4. OwnPrompt(Prompt(Own, level)) /\ ~ForeignPrompt(Prompt(Own, level)) /\ Prompt(Own, level) # Ask
    BY <1>1, PieceKinds DEF OwnPrompt
<1>5. /\ Len(Pending) \in Nat \ {0} /\ Pending[Len(Pending)] = Prompt(Own, level)
      /\ Len(Body) = Len(Pending) - 1
      /\ \A i \in 1..Len(Pending) - 1 : Pending[i] = Body[i]
    BY <1>1, <1>2, Shape
<1>6. /\ Len(Got) \in Nat \ {0} /\ Len(Got) <= Len(Pending) /\ Pending[Len(Got)] = Got[Len(Got)]
      /\ Len(Pending) = Len(Got) + Len(wire) /\ Len(wire) \in Nat
      /\ \A i \in 1..Len(wire) : wire[i] = Pending[Len(Got) + i]
    BY <1>3, GotPending, Parts, LenProperties
<1>7. Len(Got) # Len(Pending)
    BY <1>4, <1>5, <1>6
<1>8. Len(Got) \in 1..Len(Body) /\ ForeignPrompt(Body[Len(Got)])
    BY <1>5, <1>6, <1>7
<1>9. \A i \in 1..Len(Body) : Body[i] # Ask /\ (i # Len(Got) => ~ForeignPrompt(Body[i]))
    BY <1>2, <1>8, Zenon DEF Ordinary, OnePrompt
<1>10. \A i \in 1..Len(wire) : wire[i] # Ask /\ ~ForeignPrompt(wire[i])
    BY <1>4, <1>5, <1>6, <1>8, <1>9
<1>11. Pending' = wire
    BY <1>3, TakenLeaves DEF Continued, Taken
<1>12. said' = said /\ typed' = Append(typed, Sent(step'))
    BY DEF Continued, Taken
<1>13. outputs' = <<>> /\ step' \in {"enable", "skip-page-display"}
    BY <1>2 DEF Continued, GoesOn
<1>14. typed' = <<Sent(step')>>
    BY <1>2, <1>12
<1>15. typed' # <<"command">>
    BY <1>13, <1>14, SentIs
<1>16. \A i \in 1..Len(Pending') : Pending'[i] # Ask /\ (~ForeignPrompt(Pending[i]))'
    BY <1>10, <1>11 DEF ForeignPrompt
<1> QED BY <1>2, <1>3, <1>12, <1>13, <1>15, <1>16 DEF Astray

\* In step, a read that ends at a prompt has the reply to the line before it.
LEMMA ReplyTaken ==
    ASSUME TypeOK, InStep, Taken, Ended
    PROVE  /\ wire = <<>> /\ typed = <<>> /\ ~asking /\ Replied
           /\ promptName' = Own /\ buffer' = <<>>
           /\ Body = SubSeq(Got, 1, Len(Got) - 1)
           /\ Got[Len(Got)].privileged = level
<1>1. Got # <<>> /\ Got[Len(Got)] # Ask /\ buffer' = <<>>
    BY EndIs
<1>2. promptName = Own /\ Own # NoName /\ Own # Foreign
    BY TerminalAssumption DEF InStep
<1>3. OwnPrompt(Got[Len(Got)]) /\ promptName' = Own
    BY <1>2, EndIs
<1>4. Replied
    BY <1>1, NotWaiting
<1>5. /\ wire = <<>> /\ typed = <<>> /\ Body = SubSeq(Got, 1, Len(Got) - 1)
      /\ Got[Len(Got)] = Prompt(Own, level) /\ ~asking
    BY <1>1, <1>3, <1>4, ReplySeen
<1>6. Prompt(Own, level).privileged = level
    BY PieceKinds
<1> QED BY <1>1, <1>3, <1>4, <1>5, <1>6

\* It is then in step for the next line.
LEMMA GoesOnInStep ==
    ASSUME TypeOK, InStep, Continued
    PROVE  typed = <<>> /\ InStep'
<1>1. /\ wire = <<>> /\ typed = <<>> /\ ~asking /\ Replied
      /\ promptName' = Own /\ buffer' = <<>>
      /\ Body = SubSeq(Got, 1, Len(Got) - 1)
      /\ Got[Len(Got)].privileged = level
    BY ReplyTaken DEF Continued
<1>2. /\ setup' = setup /\ level' = level /\ asking' = asking /\ said' = said
      /\ typed' = Append(typed, Sent(step'))
    BY DEF Continued, Taken
<1>3. Pending' = <<>>
    BY <1>1, TakenLeaves DEF Continued, Taken
<1>4. typed' = <<Sent(step')>> /\ Sent(step)' = Sent(step')
    BY <1>1, <1>2 DEF Sent
<1>5. step # "login" /\ level \in BOOLEAN
    BY DEF InStep, TypeOK
<1>6. \/ /\ step \in {"enable", "password"} /\ step' = "skip-page-display" /\ outputs' = outputs
         /\ setup.privileged => level
      \/ step = "skip-page-display" /\ step' = "command" /\ outputs' = outputs
      \/ step = "command" /\ step' = "command" /\ outputs' = Append(outputs, Body)
    BY <1>1, <1>5, Zenon DEF Continued, GoesOn
<1>7. Len(<<>>) = 0
    OBVIOUS
<1>8. setup'.privileged => level'
    BY <1>2, <1>6, Zenon DEF InStep
<1>9. CASE step # "command"
    <2>1. said' = <<>> /\ outputs' = <<>> /\ step' \in {"skip-page-display", "command"}
        BY <1>2, <1>6, <1>9, Zenon DEF InStep
    <2>2. Waiting'
        BY <1>1, <1>2, <1>3, <1>4, <1>7, <2>1 DEF Waiting
    <2> QED BY <1>1, <1>7, <1>8, <2>1, <2>2 DEF InStep
<1>10. CASE step = "command"
    <2>1. outputs' = Append(outputs, Body) /\ step' = "command"
        BY <1>6, <1>10
    <2>2. Len(said) = Len(outputs) + 1 /\ said[Len(said)] = Body
        BY <1>1, <1>10 DEF Replied
    <2>3. Body \in Seq(Pieces) /\ outputs \in Seq(Seq(Pieces)) /\ Len(outputs) \in Nat
        <3>1. Got # <<>>
            BY EndIs DEF Continued
        <3> QED BY <1>1, <3>1, Splits, Parts, LenProperties DEF TypeOK
    <2>4. /\ Len(outputs') = Len(outputs) + 1 /\ outputs'[Len(outputs) + 1] = Body
          /\ \A i \in 1..Len(outputs) : outputs'[i] = outputs[i]
        <3> DEFINE longer == Append(outputs, Body)
        <3>1. /\ Len(longer) = Len(outputs) + 1 /\ longer[Len(outputs) + 1] = Body
              /\ \A i \in 1..Len(outputs) : longer[i] = outputs[i]
            BY <2>3, Appended, Zenon
        <3> QED BY <2>1, <3>1
    <2>5. \A i \in 1..Len(outputs') : outputs'[i] = said'[i]
        <3>1. \A i \in 1..Len(outputs) : outputs[i] = said[i]
            BY DEF InStep
        <3>2. said' = said
            BY <1>2
        <3>3. TAKE i \in 1..Len(outputs')
        <3>4. i \in 1..Len(outputs) \/ i = Len(outputs) + 1
            BY <2>3, <2>4, <3>3
        <3>5. CASE i \in 1..Len(outputs)
            BY <2>4, <3>1, <3>2, <3>5
        <3>6. CASE i = Len(outputs) + 1
            BY <2>2, <2>4, <3>2, <3>6
        <3> QED BY <3>4, <3>5, <3>6
    <2>6. Waiting'
        BY <1>1, <1>2, <1>3, <1>4, <2>1, <2>2, <2>4 DEF Waiting
    <2> QED BY <1>1, <1>8, <2>1, <2>5, <2>6 DEF InStep
<1> QED BY <1>1, <1>9, <1>10

\* Astray, no read ends at a prompt.
LEMMA AstrayNeverEnds ==
    ASSUME TypeOK, Astray, Ended
    PROVE  FALSE
<1>1. Got # <<>>
    BY EndIs
<1>2. promptName = Foreign /\ Foreign # NoName /\ Foreign # Own
    BY TerminalAssumption DEF Astray
<1>3. ForeignPrompt(Got[Len(Got)])
    BY <1>1, <1>2, EndIs
<1>4. Pending[Len(Got)] = Got[Len(Got)] /\ Len(Got) \in 1..Len(Pending)
    BY <1>1, GotPending, Parts
<1>5. ~ForeignPrompt(Pending[Len(Got)])
    BY <1>4 DEF Astray
<1> QED BY <1>3, <1>4, <1>5

\* Whatever ends a read, Run and the switch go on in step, or Run in vain.
LEMMA ContinuedPhase ==
    ASSUME TypeOK, Phase, Continued
    PROVE  /\ typed = <<>> /\ typed' = <<Sent(step')>>
           /\ step' \in {"enable", "skip-page-display", "command"}
           /\ step' = "command" /\ setup.privileged => level
           /\ Phase'
<1>1. /\ typed' = Append(typed, Sent(step')) /\ step' \in {"enable", "skip-page-display", "command"}
      /\ step' = "command" => step \in {"skip-page-display", "command"}
    BY DEF Continued, GoesOn
<1>2. Ended /\ level' = level /\ setup' = setup
    BY DEF Continued, Taken
<1>3. CASE LoggingIn
    <2>1. typed = <<>> /\ step = "login"
        BY <1>3 DEF LoggingIn
    <2>2. OwnPrompt(Got[Len(Got)]) \/ ForeignPrompt(Got[Len(Got)])
        BY <1>2, EndIs
    <2>3. Phase'
        BY <1>3, <2>2, LogsIn, GoesAstray DEF Phase
    <2> QED BY <1>1, <2>1, <2>3
<1>4. CASE InStep
    <2>1. typed = <<>> /\ InStep'
        BY <1>4, GoesOnInStep
    <2>2. step' = "command" /\ setup.privileged => level
        BY <1>1, <1>4, Zenon DEF InStep
    <2> QED BY <1>1, <2>1, <2>2 DEF Phase
<1>5. CASE Astray
    BY <1>2, <1>5, AstrayNeverEnds
<1> QED BY <1>3, <1>4, <1>5 DEF Phase

\* What a read that ends at a prompt returns is what the switch printed.
LEMMA EndedOutputs ==
    ASSUME TypeOK, Phase, OutputsBelong, Taken, Ended
    PROVE  OutputsBelong'
<1> DEFINE output == SubSeq(Got, 1, Len(Got) - 1)
<1>1. said' = said /\ result = "none"
    BY DEF Taken
<1>2. InStep \/ (LoggingIn /\ step = "login")
    BY AstrayNeverEnds DEF Phase, LoggingIn
<1>3. /\ Len(outputs) <= Len(said) /\ \A i \in 1..Len(outputs) : outputs[i] = said[i]
    BY DEF OutputsBelong
<1>4. CASE outputs' = outputs /\ result' # "ok"
    BY <1>1, <1>3, <1>4 DEF OutputsBelong
<1>5. CASE outputs' = outputs /\ step = "skip-page-display" /\ Commands = 0
    <2>1. outputs = <<>>
        BY <1>2, <1>5 DEF InStep
    <2> QED BY <1>1, <1>3, <1>5, <2>1 DEF OutputsBelong
<1>6. CASE /\ outputs' = Append(outputs, output) /\ step = "command"
           /\ result' = "ok" => Commands = Len(outputs) + 1
    <2>1. InStep
        BY <1>2, <1>6
    <2>2. Replied /\ Body = output
        BY <2>1, ReplyTaken
    <2>3. Len(said) = Len(outputs) + 1 /\ said[Len(said)] = output
        BY <1>6, <2>2 DEF Replied
    <2>4. output \in Seq(Pieces) /\ outputs \in Seq(Seq(Pieces)) /\ Len(outputs) \in Nat
        BY EndIs, Splits, Parts, LenProperties DEF TypeOK
    <2>5. /\ Len(outputs') = Len(outputs) + 1 /\ outputs'[Len(outputs) + 1] = output
          /\ \A i \in 1..Len(outputs) : outputs'[i] = outputs[i]
        <3> DEFINE longer == Append(outputs, output)
        <3> HIDE DEF output
        <3>1. /\ Len(longer) = Len(outputs) + 1 /\ longer[Len(outputs) + 1] = output
              /\ \A i \in 1..Len(outputs) : longer[i] = outputs[i]
            BY <2>4, Appended, Zenon
        <3> QED BY <1>6, <3>1
    <2>6. \A i \in 1..Len(outputs') : outputs'[i] = said[i]
        <3>1. TAKE i \in 1..Len(outputs')
        <3>2. i \in 1..Len(outputs) \/ i = Len(outputs) + 1
            BY <2>4, <2>5, <3>1
        <3>3. CASE i \in 1..Len(outputs)
            BY <1>3, <2>5, <3>3
        <3>4. CASE i = Len(outputs) + 1
            BY <2>3, <2>5, <3>4
        <3> QED BY <3>2, <3>3, <3>4
    <2>7. Len(outputs') <= Len(said') /\ (result' = "ok" => Len(outputs') = Commands)
        BY <1>1, <1>6, <2>3, <2>4, <2>5
    <2> QED BY <1>1, <2>6, <2>7 DEF OutputsBelong
<1>7. \/ outputs' = outputs /\ result' # "ok"
      \/ outputs' = outputs /\ step = "skip-page-display" /\ Commands = 0
      \/ /\ outputs' = Append(outputs, output) /\ step = "command"
         /\ result' = "ok" => Commands = Len(outputs) + 1
    BY <1>1, PromptedEffects DEF Ended, GoesOn
<1> QED BY <1>4, <1>5, <1>6, <1>7

-----------------------------------------------------------------------------
(* The invariant is inductive.                                             *)

\* What holds of the line under way, whether or not Run still reads.
Safe == LineInv /\ OutputsBelong /\ OnlyPrivileged

LEMMA LineIsSafe ==
    ASSUME LineInv
    PROVE  PasswordOnlyWhenAsked
<1>1. CASE typed = <<>>
    BY <1>1 DEF PasswordOnlyWhenAsked
<1>2. ASSUME NEW line \in Lines, typed = <<line>>, line = "secret" => asking
      PROVE  PasswordOnlyWhenAsked
    BY <1>2 DEF PasswordOnlyWhenAsked
<1> QED BY <1>1, <1>2 DEF LineInv

LEMMA SafeFrame ==
    ASSUME Safe, UNCHANGED <<setup, typed, level, asking, said, outputs>>,
           result' = "ok" => result = "ok"
    PROVE  Safe'
<1>1. LineInv'
    BY DEF Safe, LineInv
<1>2. OutputsBelong'
    BY DEF Safe, OutputsBelong
<1>3. OnlyPrivileged'
    BY DEF Safe, OnlyPrivileged
<1> QED BY <1>1, <1>2, <1>3 DEF Safe

LEMMA SwitchSafe ==
    ASSUME TypeOK, Safe, Switch
    PROVE  Safe'
<1>1. PICK answer \in Seq(Pieces), privileged \in BOOLEAN, asks \in BOOLEAN :
          Handled(Head(typed), answer, privileged, asks)
    BY SwitchReplies
<1>2. typed # <<>> /\ typed' = Tail(typed) /\ setup' = setup /\ outputs' = outputs /\ result' = result
    BY SwitchReplies DEF Switch, reader
<1>3. PICK line \in Lines : typed = <<line>>
    BY <1>2 DEF Safe, LineInv
<1>4. Head(typed) = line /\ typed' = <<>>
    BY <1>2, <1>3
<1>5. /\ level => level'
      /\ said' = said \/ (line = "command" /\ said' = Append(said, answer))
    BY <1>1, <1>4, Zenon DEF Handled
<1>6. LineInv'
    BY <1>4 DEF LineInv
<1>7. OutputsBelong'
    <2>1. /\ Len(outputs) <= Len(said) /\ \A i \in 1..Len(outputs) : outputs[i] = said[i]
          /\ result = "ok" => Len(outputs) = Commands
        BY DEF Safe, OutputsBelong
    <2>2. said \in Seq(Seq(Pieces)) /\ Len(said) \in Nat /\ Len(outputs) \in Nat
        BY LenProperties DEF TypeOK
    <2>3. CASE said' = said
        BY <1>2, <2>1, <2>3 DEF OutputsBelong
    <2>4. CASE said' = Append(said, answer)
        <3> DEFINE longer == Append(said, answer)
        <3>1. /\ Len(longer) = Len(said) + 1
              /\ \A i \in 1..Len(said) : longer[i] = said[i]
            BY <2>2, Appended, Zenon
        <3>2. \A i \in 1..Len(outputs) : i \in 1..Len(said)
            BY <2>1, <2>2
        <3>3. Len(outputs) <= Len(longer)
            BY <2>1, <2>2, <3>1
        <3>4. \A i \in 1..Len(outputs) : outputs[i] = longer[i]
            BY <2>1, <3>1, <3>2
        <3> QED BY <1>2, <2>1, <2>4, <3>3, <3>4 DEF OutputsBelong
    <2> QED BY <1>5, <2>3, <2>4
<1>8. OnlyPrivileged'
    <2>0. \A i \in 1..Len(typed') : FALSE
        BY <1>4
    <2>1. SUFFICES ASSUME setup.privileged, said' # <<>> PROVE level'
        BY <1>2, <2>0, Zenon DEF OnlyPrivileged
    <2>2. said # <<>> \/ \E i \in 1..Len(typed) : typed[i] = "command"
        <3>1. Len(typed) = 1 /\ typed[1] = line
            BY <1>3
        <3> QED BY <1>5, <2>1, <3>1
    <2> QED BY <1>5, <2>1, <2>2 DEF Safe, OnlyPrivileged
<1> QED BY <1>6, <1>7, <1>8 DEF Safe

LEMMA ReceiveStep ==
    ASSUME TypeOK, Safe, result = "none" => Phase, Receive
    PROVE  Safe' /\ ChunkInv' /\ (result' = "none" => Phase')
<1>1. /\ result = "none" /\ chunk' = <<>> /\ setup' = setup /\ wire' = wire
      /\ level' = level /\ asking' = asking /\ said' = said
      /\ TooMuch \/ Requested \/ Ended \/ Broken \/ Stored
    BY ReceiveCases DEF shell
<1>2. Taken /\ Phase
    BY <1>1 DEF Taken
<1>3. ChunkInv'
    BY <1>1 DEF ChunkInv
<1>4. ASSUME typed' = typed PROVE LineInv' /\ OnlyPrivileged'
    BY <1>1, <1>4 DEF Safe, LineInv, OnlyPrivileged
<1>5. ASSUME outputs' = outputs, result' # "ok" PROVE OutputsBelong'
    BY <1>1, <1>5 DEF Safe, OutputsBelong
<1>6. CASE TooMuch \/ Broken
    <2>1. typed' = typed /\ outputs' = outputs /\ result' = "error"
        BY <1>6, Zenon DEF TooMuch, Broken, Stop
    <2> QED BY <1>3, <1>4, <1>5, <2>1 DEF Safe
<1>7. CASE Stored
    <2>1. /\ typed' = typed /\ outputs' = outputs /\ result' = result /\ step' = step
          /\ promptName' = promptName
        BY <1>7, Zenon DEF Stored
    <2>2. Pending' = Pending
        BY <1>1, <1>7, StoredKeeps
    <2>3. Phase'
        BY <1>1, <1>2, <2>1, <2>2, PhaseFrame
    <2> QED BY <1>1, <1>3, <1>4, <1>5, <2>1, <2>3 DEF Safe
<1>8. CASE Requested
    <2>1. outputs' = outputs
        BY <1>8 DEF Requested
    <2>2. CASE result' = "error" /\ typed' = typed
        BY <1>3, <1>4, <1>5, <2>1, <2>2 DEF Safe
    <2>3. CASE result' = "none"
        <3>1. asking' = asking /\ asking /\ typed' = <<"secret">> /\ Phase'
            BY <1>1, <1>2, <1>8, <2>3, RequestedPhase
        <3>2. LineInv'
            <4>1. "secret" \in Lines
                BY DEF Lines
            <4> QED BY <3>1, <4>1 DEF LineInv
        <3>3. OnlyPrivileged'
            BY <1>1, <3>1 DEF Safe, OnlyPrivileged
        <3> QED BY <1>3, <1>5, <2>1, <2>3, <3>1, <3>2, <3>3 DEF Safe
    <2> QED BY <1>1, <1>8, <2>2, <2>3, AskedEffects DEF Requested
<1>9. CASE Ended
    <2>1. OutputsBelong'
        BY <1>2, <1>9, EndedOutputs DEF Safe
    <2>2. CASE result' # "none" /\ typed' = typed
        BY <1>3, <1>4, <2>1, <2>2 DEF Safe
    <2>3. CASE Continued
        <3>1. /\ typed' = <<Sent(step')>> /\ step' \in {"enable", "skip-page-display", "command"}
              /\ step' = "command" /\ setup.privileged => level
              /\ Phase'
            BY <1>2, <2>3, ContinuedPhase
        <3>2. /\ Sent(step') \in Lines /\ Sent(step') # "secret"
              /\ Sent(step') = "command" => step' = "command"
            BY <3>1, SentIs DEF Lines
        <3>3. LineInv'
            BY <3>1, <3>2 DEF LineInv
        <3>4. OnlyPrivileged'
            <4>1. CASE step' = "command"
                BY <1>1, <3>1, <4>1 DEF OnlyPrivileged
            <4>2. CASE step' # "command"
                BY <1>1, <3>1, <3>2, <4>2 DEF Safe, OnlyPrivileged
            <4> QED BY <4>1, <4>2
        <3> QED BY <1>3, <2>1, <3>1, <3>3, <3>4 DEF Safe
    <2>4. (result' # "none" /\ typed' = typed) \/ Continued
        BY <1>1, <1>2, <1>9, PromptedEffects DEF Ended, Continued
    <2> QED BY <2>2, <2>3, <2>4
<1> QED BY <1>1, <1>6, <1>7, <1>8, <1>9

LEMMA StepKeeps ==
    ASSUME IInv, [Next]_vars
    PROVE  IInv'
<1>1. TypeOK /\ Safe /\ ChunkInv /\ (result = "none" => Phase)
    BY DEF IInv, Safe, Phase
<1>2. SUFFICES Safe' /\ ChunkInv' /\ (result' = "none" => Phase')
    <2>1. TypeOK'
        BY <1>1, StepTypes
    <2>2. LineInv' => PasswordOnlyWhenAsked'
        BY LineIsSafe, PTL
    <2> QED BY <2>1, <2>2 DEF IInv, Safe, Phase
<1>3. CASE Switch
    <2>1. Safe'
        BY <1>1, <1>3, SwitchSafe
    <2>2. result = "none" => Phase'
        BY <1>1, <1>3, SwitchPhase DEF Safe
    <2>3. result' = result /\ pump' = pump /\ chunk' = chunk
        BY <1>3 DEF Switch, reader
    <2> QED BY <1>1, <2>1, <2>2, <2>3 DEF ChunkInv
<1>4. CASE Receive
    BY <1>1, <1>4, ReceiveStep
<1>5. CASE Disconnect \/ Expire \/ UNCHANGED vars
    <2>1. UNCHANGED <<setup, typed, level, asking, said, step, promptName, outputs, result,
                      pump, chunk, buffer, wire>>
        BY <1>5 DEF Disconnect, Expire, vars, shell, reader
    <2>2. Pending' = Pending
        BY <2>1 DEF Pending
    <2>3. Safe'
        BY <1>1, <2>1, SafeFrame
    <2>4. Phase => Phase'
        BY <2>1, <2>2, PhaseFrame
    <2> QED BY <1>1, <2>1, <2>3, <2>4 DEF ChunkInv
<1>6. CASE PumpRead
    <2>1. UNCHANGED <<setup, typed, level, asking, said, step, promptName, outputs, result>>
        BY <1>6 DEF PumpRead, shell, reader
    <2>2. Safe'
        BY <1>1, <2>1, SafeFrame
    <2>3. result = "none" => Phase'
        BY <1>1, <1>6, <2>1, PumpKeeps, PhaseFrame
    <2>4. ChunkInv'
        BY <1>6 DEF PumpRead, ChunkInv
    <2> QED BY <2>1, <2>2, <2>3, <2>4
<1>7. CASE PumpDone
    <2>1. UNCHANGED <<setup, typed, level, asking, said, outputs, result>> /\ result # "none"
        BY <1>7 DEF PumpDone, Released, shell, reader
    <2>2. Safe'
        BY <1>1, <2>1, SafeFrame
    <2> QED BY <2>1, <2>2 DEF ChunkInv
<1>8. CASE TimedOut
    <2>1. UNCHANGED <<setup, typed, level, asking, said, outputs>> /\ result' = "error"
        BY <1>8 DEF TimedOut, Stop, shell
    <2>2. Safe'
        BY <1>1, <2>1, SafeFrame
    <2> QED BY <2>1, <2>2 DEF ChunkInv
<1>9. Finished => UNCHANGED vars
    BY DEF Finished
<1> QED BY <1>3, <1>4, <1>5, <1>6, <1>7, <1>8, <1>9 DEF Next

LEMMA InitHolds ==
    ASSUME Init
    PROVE  IInv
<1>1. PICK greeting \in Banners : wire = greeting \o <<Prompt(Own, level)>>
    BY DEF Init
<1>2. /\ level \in BOOLEAN /\ typed = <<>> /\ asking = FALSE /\ said = <<>> /\ eof = FALSE
      /\ expired = FALSE /\ pump = "reading" /\ chunk = <<>> /\ step = "login" /\ buffer = <<>>
      /\ promptName = NoName /\ outputs = <<>> /\ result = "none" /\ setup \in Setups
    BY DEF Init
<1>3. greeting \in Seq(Pieces) /\ Ordinary(greeting)
    BY AnswersAreOrdinary
<1>4. Prompt(Own, level) \in Pieces
    BY <1>2, PieceKinds
<1>5. wire \in Seq(Pieces)
    BY <1>1, <1>3, <1>4, TextEnds
<1>6. TypeOK
    <2>1. Len(<<>>) = 0 /\ <<>> \in Seq(Pieces) /\ <<>> \in Seq(Lines) /\ <<>> \in Seq(Seq(Pieces))
        OBVIOUS
    <2>2. /\ wire \in Seq(Pieces) /\ chunk \in Seq(Pieces) /\ buffer \in Seq(Pieces)
          /\ typed \in Seq(Lines) /\ said \in Seq(Seq(Pieces)) /\ outputs \in Seq(Seq(Pieces))
        BY <1>2, <1>5, <2>1, Zenon
    <2>3. Len(buffer) <= Limit
        BY <1>2, <2>1, TerminalAssumption
    <2>4. step \in Steps /\ promptName \in {NoName, Own, Foreign}
        BY <1>2 DEF Steps
    <2> QED BY <1>2, <2>2, <2>3, <2>4, Zenon DEF TypeOK
<1>7. Pending = wire
    <2>1. <<>> \o <<>> = <<>> /\ <<>> \o wire = wire
        BY <1>5, Short, ConcatEmptySeq
    <2> QED BY <1>2, <2>1 DEF Pending
<1>8. Pending = Append(Body, Prompt(Own, level)) /\ Body = greeting
    BY <1>1, <1>3, <1>4, <1>7, Composed DEF Body
<1>9. OnePrompt(greeting)
    BY BannerAssumption, PieceKinds DEF OnePrompt, ForeignPrompt
<1>10. LoggingIn
    BY <1>2, <1>3, <1>8, <1>9 DEF LoggingIn
<1>11. LineInv /\ ChunkInv
    BY <1>2 DEF LineInv, ChunkInv
<1>12. OutputsBelong /\ OnlyPrivileged
    BY <1>2 DEF OutputsBelong, OnlyPrivileged
<1> QED BY <1>6, <1>10, <1>11, <1>12, LineIsSafe DEF IInv

\* A session keeps Run and the switch in step, or lets it wait in vain:
\* what Client.Run sends and reads alternates with what the shell answers.
THEOREM Inductive == Spec => []IInv
<1>1. Init => IInv
    BY InitHolds
<1>2. IInv /\ [Next]_vars => IInv'
    BY StepKeeps
<1> QED BY <1>1, <1>2, PTL DEF Spec

\* What Run returns for a command is all and only what the switch printed
\* for it, however terminal.read gets it cut into chunks.
THEOREM OutputsAreTheirs == Spec => []OutputsBelong
<1>1. IInv => OutputsBelong
    BY DEF IInv
<1> QED BY <1>1, Inductive, PTL

\* The enable password goes only to a shell that asked for it.
THEOREM PasswordIsAskedFor == Spec => []PasswordOnlyWhenAsked
<1>1. IInv => PasswordOnlyWhenAsked
    BY DEF IInv
<1> QED BY <1>1, Inductive, PTL

\* A privileged session runs no command in an unprivileged shell, whatever
\* its banner showed.
THEOREM CommandsArePrivileged == Spec => []OnlyPrivileged
<1>1. IInv => OnlyPrivileged
    BY DEF IInv
<1> QED BY <1>1, Inductive, PTL

\* Every variable keeps its type, and no read more than its limit.
THEOREM TypeCorrect == Spec => []TypeOK
<1>1. IInv => TypeOK
    BY DEF IInv
<1> QED BY <1>1, Inductive, PTL

-----------------------------------------------------------------------------
(* The nesting a document records is that of the nearest shallower line.     *)

\* A line's indentation is a number.
LEMMA LineIndent == ASSUME NEW l \in LineSet PROVE l.indent \in Indents /\ l.indent \in Nat
<1>1. l.indent \in Indents BY DEF LineSet
<1> QED BY <1>1, DocumentAssumption

\* Lengths, indents and positions on the stack are numbers.
LEMMA Numbers ==
    ASSUME DocumentTypeOK, StackEncloses
    PROVE  /\ Len(stack) \in Nat /\ Len(commands) \in Nat
           /\ \A i \in 1..Len(commands) : Indent(i) \in Indents /\ Indent(i) \in Nat
           /\ \A m \in 1..Len(stack) : stack[m] \in 1..Len(commands)
<1>1. Len(stack) \in Nat /\ Len(commands) \in Nat BY DEF DocumentTypeOK
<1>2. \A i \in 1..Len(commands) : commands[i] \in CommandSet BY DEF DocumentTypeOK
<1>3. \A i \in 1..Len(commands) : Indent(i) \in Indents BY <1>2 DEF CommandSet, Indent
<1>4. \A m \in 1..Len(stack) : stack[m] \in 1..Len(commands) BY DEF StackEncloses
<1> QED BY <1>1, <1>3, <1>4, DocumentAssumption

\* What the pop loop leaves is shallower than the line, and everything below
\* the last command it leaves is at least as deep.
LEMMA Kept ==
    ASSUME NEW l \in LineSet, NEW k \in 0..Len(stack), DocumentTypeOK, StackEncloses, Keeps(l, k)
    PROVE  /\ \A m \in 1..k : Indent(stack[m]) < l.indent
           /\ \A j \in 1..Len(commands) : j > Parent(k) => Indent(j) >= l.indent
<1>1. /\ Len(stack) \in Nat /\ Len(commands) \in Nat
      /\ l.indent \in Nat
      /\ \A i \in 1..Len(commands) : Indent(i) \in Nat
      /\ \A m \in 1..Len(stack) : stack[m] \in 1..Len(commands)
  BY LineIndent, Numbers
<1>2. \A m \in 1..k : Indent(stack[m]) < l.indent
  BY <1>1 DEF StackEncloses, Keeps, Encloses, Indent
<1>3. ASSUME NEW j \in 1..Len(commands), j > Parent(k)
      PROVE  Indent(j) >= l.indent
  <2>1. commands # <<>> => stack # <<>> /\ stack[Len(stack)] = Len(commands)
    BY DEF StackEncloses
  <2>2. k < Len(stack)
    BY <1>1, <1>3, <2>1 DEF Parent, DocumentTypeOK
  <2>3. Indent(stack[k + 1]) >= l.indent
    BY <1>1, <2>2 DEF Keeps, Encloses, Indent
  <2>4. Indent(j) >= Indent(stack[k + 1])
    <3>1. k + 1 \in 1..Len(stack) /\ (k + 1) - 1 = k BY <1>1, <2>2
    <3>2. k + 1 = 1 \/ j > stack[(k + 1) - 1] BY <1>1, <1>3, <3>1 DEF Parent
    <3> QED BY <1>3, <3>1, <3>2 DEF StackEncloses
  <2> QED BY <1>1, <2>2, <2>3, <2>4
<1> QED BY <1>2, <1>3

\* The invariant holds when nothing has been read.
LEMMA InitIInv == DocumentInit => NestingInv
<1> SUFFICES ASSUME DocumentInit PROVE NestingInv
  OBVIOUS
<1>1. commands = <<>> /\ stack = <<>> /\ Len(commands) = 0 /\ Len(stack) = 0
  BY DEF DocumentInit
<1>2. DocumentTypeOK
  <2>1. commands \in Seq(CommandSet) /\ stack \in Seq(Nat) BY DEF DocumentInit
  <2>2. /\ started \in BOOLEAN /\ complete \in BOOLEAN
        /\ banner = None /\ outcome = "reading"
    BY Zenon DEF DocumentInit
  <2> QED BY <2>1, <2>2 DEF DocumentTypeOK
<1>3. ParentIsNearest BY <1>1 DEF ParentIsNearest, Indent
<1>4. StackEncloses BY <1>1 DEF StackEncloses
<1> QED BY <1>2, <1>3, <1>4 DEF NestingInv

\* A discarded document has no nesting to get wrong.
LEMMA RefuseIInv == ASSUME NestingInv, Refuse PROVE NestingInv'
<1>1. commands' = <<>> /\ stack' = <<>> /\ Len(commands') = 0 /\ Len(stack') = 0
  BY DEF Refuse
<1>2. DocumentTypeOK' BY DEF NestingInv, DocumentTypeOK, Refuse
<1>3. ParentIsNearest' BY <1>1 DEF ParentIsNearest, Indent
<1>4. StackEncloses' BY <1>1 DEF StackEncloses
<1> QED BY <1>2, <1>3, <1>4 DEF NestingInv

\* Text of a banner changes no command's place.
LEMMA PayloadIInv == ASSUME NEW l \in LineSet, NestingInv, outcome = "reading", Payload(l) PROVE NestingInv'
<1> DEFINE n == Len(commands)
           line == [commands[n] EXCEPT !.lines = @ + 1]
<1>1. n \in Nat /\ n \in 1..n
  BY DEF NestingInv, DocumentTypeOK, Payload
<1>2. /\ commands[n] \in CommandSet /\ line \in CommandSet
      /\ line.indent = commands[n].indent /\ line.parent = commands[n].parent
  <2>1. commands[n] \in CommandSet BY <1>1 DEF NestingInv, DocumentTypeOK
  <2>2. line = [commands[n] EXCEPT !.lines = commands[n].lines + 1] OBVIOUS
  <2> QED BY <2>1, <2>2 DEF CommandSet
<1>3. commands' = [commands EXCEPT ![n] = line] /\ stack' = stack
  BY DEF Payload
<1>4. commands' \in Seq(CommandSet) /\ Len(commands') = n
  BY <1>1, <1>2, <1>3 DEF NestingInv, DocumentTypeOK
<1>5. \A i \in 1..n : commands'[i] = IF i = n THEN line ELSE commands[i]
  BY <1>1, <1>3 DEF NestingInv, DocumentTypeOK
<1>6. \A i \in 1..n : commands'[i].indent = Indent(i) /\ commands'[i].parent = commands[i].parent
  BY <1>2, <1>5 DEF Indent
<1>7. DocumentTypeOK' BY <1>1, <1>4 DEF NestingInv, DocumentTypeOK, Payload
<1>8. ParentIsNearest'
  <2> SUFFICES ASSUME NEW i \in 1..n
               PROVE  LET p == commands'[i].parent IN
                      /\ p = 0 <=> commands'[i].indent = 0
                      /\ p # 0 => p < i /\ commands'[p].indent < commands'[i].indent
                      /\ \A j \in (p + 1)..(i - 1) : commands'[j].indent >= commands'[i].indent
    BY <1>4 DEF ParentIsNearest, Indent
  <2>1. commands[i].parent \in Nat
    <3>1. commands[i] \in CommandSet BY DEF NestingInv, DocumentTypeOK
    <3> QED BY <3>1 DEF CommandSet
  <2> QED BY <1>1, <1>6, <2>1 DEF NestingInv, ParentIsNearest, Indent
<1>9. StackEncloses'
  BY <1>1, <1>3, <1>4, <1>6 DEF NestingInv, StackEncloses, Indent
<1> QED BY <1>7, <1>8, <1>9 DEF NestingInv

\* A command keeps its ancestors on the stack and joins them.
LEMMA CommandIInv == ASSUME NEW l \in LineSet, NestingInv, outcome = "reading", Command(l) PROVE NestingInv'
<1> DEFINE n == Len(commands)
<1>1. PICK k \in 0..Len(stack) :
        /\ Keeps(l, k) /\ ~Orphaned(l, k)
        /\ commands' = Append(commands, [indent |-> l.indent, parent |-> Parent(k), lines |-> 1])
        /\ stack' = Append(SubSeq(stack, 1, k), n + 1)
  BY DEF Command
<1>2. /\ n \in Nat /\ Len(stack) \in Nat /\ k \in Nat /\ k <= Len(stack)
      /\ l.indent \in Indents /\ l.indent \in Nat
      /\ \A i \in 1..n : Indent(i) \in Nat
      /\ \A m \in 1..Len(stack) : stack[m] \in 1..n
  BY LineIndent, Numbers DEF NestingInv
<1>3. /\ \A m \in 1..k : Indent(stack[m]) < l.indent
      /\ \A j \in 1..n : j > Parent(k) => Indent(j) >= l.indent
  BY <1>1, Kept DEF NestingInv
<1>4. /\ Parent(k) \in 0..n
      /\ Parent(k) = 0 <=> k = 0
      /\ Parent(k) # 0 => Indent(Parent(k)) < l.indent
  BY <1>1, <1>2, <1>3 DEF Parent
<1> DEFINE new == [indent |-> l.indent, parent |-> Parent(k), lines |-> 1]
<1>5. new \in CommandSet /\ new.indent = l.indent /\ new.parent = Parent(k)
  BY <1>2, <1>4 DEF CommandSet
<1>6. commands' \in Seq(CommandSet) /\ Len(commands') = n + 1
  BY <1>1, <1>2, <1>5 DEF NestingInv, DocumentTypeOK
<1>7. \A i \in 1..(n + 1) : commands'[i] = IF i = n + 1 THEN new ELSE commands[i]
  BY <1>1, <1>2 DEF NestingInv, DocumentTypeOK
<1>8. stack' \in Seq(Nat) /\ Len(stack') = k + 1
  BY <1>1, <1>2 DEF NestingInv, DocumentTypeOK
<1>9. \A m \in 1..(k + 1) : stack'[m] = IF m = k + 1 THEN n + 1 ELSE stack[m]
  BY <1>1, <1>2 DEF NestingInv, DocumentTypeOK
<1>10. /\ \A i \in 1..n : commands'[i].indent = Indent(i)
       /\ commands'[n + 1].indent = l.indent
  <2>1. ASSUME NEW i \in 1..n PROVE commands'[i].indent = Indent(i)
    BY <1>2, <1>7 DEF Indent
  <2>2. commands'[n + 1].indent = l.indent
    BY <1>2, <1>5, <1>7
  <2> QED BY <2>1, <2>2
<1>11. DocumentTypeOK'
  <2>1. commands' # <<>> BY <1>6, <1>2
  <2>2. banner' \in Delims \union {None} BY DEF Command, Opens
  <2> QED BY <1>6, <1>8, <2>1, <2>2 DEF NestingInv, DocumentTypeOK, Command, Completes
<1>12. ParentIsNearest'
  <2> SUFFICES ASSUME NEW i \in 1..(n + 1)
               PROVE  LET p == commands'[i].parent IN
                      /\ p = 0 <=> commands'[i].indent = 0
                      /\ p # 0 => p < i /\ commands'[p].indent < commands'[i].indent
                      /\ \A j \in (p + 1)..(i - 1) : commands'[j].indent >= commands'[i].indent
    BY <1>6 DEF ParentIsNearest, Indent
  <2>1. CASE i = n + 1
    <3>1. commands'[i].parent = Parent(k) /\ commands'[i].indent = l.indent
      BY <1>5, <1>7, <1>10, <2>1
    <3>2. Parent(k) = 0 <=> l.indent = 0
      BY <1>1, <1>2, <1>4 DEF Orphaned
    <3>3. Parent(k) # 0 => Parent(k) < i /\ commands'[Parent(k)].indent < commands'[i].indent
      BY <1>2, <1>4, <1>10, <2>1, <3>1
    <3>4. \A j \in (Parent(k) + 1)..(i - 1) : commands'[j].indent >= commands'[i].indent
      BY <1>2, <1>3, <1>4, <1>10, <2>1, <3>1
    <3> QED BY <3>1, <3>2, <3>3, <3>4
  <2>2. CASE i \in 1..n
    <3>1. commands'[i] = commands[i] /\ commands[i].parent \in Nat
      <4>1. commands[i] \in CommandSet BY <2>2 DEF NestingInv, DocumentTypeOK
      <4> QED BY <1>2, <1>7, <2>2, <4>1 DEF CommandSet
    <3> DEFINE p == commands[i].parent
    <3>2. /\ p = 0 <=> Indent(i) = 0
          /\ p # 0 => p < i /\ Indent(p) < Indent(i)
          /\ \A j \in (p + 1)..(i - 1) : Indent(j) >= Indent(i)
      BY <2>2 DEF NestingInv, ParentIsNearest
    <3>3. commands'[i].indent = Indent(i) BY <1>10, <2>2
    <3>4. p # 0 => p \in 1..n BY <1>2, <2>2, <3>1, <3>2
    <3>5. \A j \in (p + 1)..(i - 1) : j \in 1..n BY <1>2, <2>2, <3>1
    <3> HIDE DEF p
    <3>6. p # 0 => commands'[p].indent = Indent(p) BY <1>10, <3>4
    <3>7. \A j \in (p + 1)..(i - 1) : commands'[j].indent = Indent(j) BY <1>10, <3>5
    <3>8. commands'[i].parent = p BY <3>1 DEF p
    <3> QED BY <3>2, <3>3, <3>6, <3>7, <3>8
  <2> QED BY <1>2, <2>1, <2>2
<1>13. StackEncloses'
  <2>1. \A m \in 1..(k + 1) : stack'[m] \in 1..(n + 1)
    <3> SUFFICES ASSUME NEW m \in 1..(k + 1) PROVE stack'[m] \in 1..(n + 1)
      OBVIOUS
    <3>1. CASE m = k + 1 BY <1>2, <1>9, <3>1
    <3>2. CASE m \in 1..k
      <4>1. m \in 1..Len(stack) /\ stack'[m] = stack[m] BY <1>2, <1>9, <3>2
      <4> QED BY <1>2, <4>1
    <3> QED BY <1>2, <3>1, <3>2
  <2>2. \A m \in 1..k : stack'[m] = stack[m] /\ commands'[stack'[m]].indent = Indent(stack[m])
    <3> SUFFICES ASSUME NEW m \in 1..k
                 PROVE  stack'[m] = stack[m] /\ commands'[stack'[m]].indent = Indent(stack[m])
      OBVIOUS
    <3>1. stack'[m] = stack[m] /\ stack[m] \in 1..n BY <1>2, <1>9
    <3> QED BY <1>10, <3>1
  <2>3. stack'[k + 1] = n + 1 /\ commands'[stack'[k + 1]].indent = l.indent
    BY <1>2, <1>9, <1>10
  <2>4. ASSUME NEW m \in 1..(k + 1), NEW o \in 1..(k + 1), m < o
        PROVE  stack'[m] < stack'[o] /\ commands'[stack'[m]].indent < commands'[stack'[o]].indent
    <3>0. m \in 1..k /\ m \in 1..Len(stack) BY <1>2, <2>4
    <3>1. CASE o = k + 1
      <4>1. stack'[m] \in 1..n BY <1>2, <2>2, <3>0
      <4>2. commands'[stack'[m]].indent < l.indent BY <1>3, <2>2, <3>0
      <4> QED BY <1>2, <2>3, <3>1, <4>1, <4>2
    <3>2. CASE o \in 1..k
      <4>1. stack[m] < stack[o] /\ Indent(stack[m]) < Indent(stack[o])
        BY <1>2, <2>4, <3>0, <3>2 DEF NestingInv, StackEncloses
      <4> QED BY <2>2, <3>0, <3>2, <4>1
    <3> QED BY <1>2, <3>1, <3>2
  <2>5. ASSUME NEW m \in 1..(k + 1), NEW j \in 1..(n + 1), m = 1 \/ j > stack'[m - 1]
        PROVE  commands'[j].indent >= commands'[stack'[m]].indent
    <3>1. CASE m = k + 1 /\ j = n + 1 BY <1>2, <1>10, <2>3, <3>1
    <3>2. CASE m = k + 1 /\ j \in 1..n
      <4>1. CASE k = 0
        <5>1. j > Parent(k) BY <3>2, <4>1 DEF Parent
        <5> QED BY <1>3, <1>10, <2>3, <3>2, <5>1
      <4>2. CASE k # 0
        <5>1. k \in 1..k /\ m # 1 /\ m - 1 = k BY <1>2, <3>2, <4>2
        <5>2. stack'[k] = stack[k] BY <2>2, <5>1
        <5>3. j > stack'[k] BY <2>5, <5>1
        <5>4. j > Parent(k) BY <4>2, <5>2, <5>3 DEF Parent
        <5> QED BY <1>3, <1>10, <2>3, <3>2, <5>4
      <4> QED BY <4>1, <4>2
    <3>3. CASE m \in 1..k /\ j = n + 1
      <4>1. commands'[stack'[m]].indent = Indent(stack[m]) BY <2>2, <3>3
      <4>2. Indent(stack[m]) < l.indent BY <1>3, <3>3
      <4>3. commands'[j].indent = l.indent BY <1>10, <3>3
      <4>4. m \in 1..Len(stack) /\ stack[m] \in 1..n BY <1>2, <3>3
      <4>5. Indent(stack[m]) \in Nat /\ l.indent \in Nat BY <1>2, <4>4
      <4> QED BY <4>1, <4>2, <4>3, <4>5
    <3>4. CASE m \in 1..k /\ j \in 1..n
      <4>1. m = 1 \/ j > stack[m - 1] BY <1>2, <2>2, <2>5, <3>4
      <4>2. Indent(j) >= Indent(stack[m]) BY <3>4, <4>1 DEF NestingInv, StackEncloses
      <4> QED BY <1>10, <2>2, <3>4, <4>2
    <3> QED BY <1>2, <3>1, <3>2, <3>3, <3>4
  <2>6. commands' # <<>> => stack' # <<>> /\ stack'[Len(stack')] = Len(commands')
    BY <1>2, <1>6, <1>8, <2>3
  <2> QED BY <1>6, <1>8, <2>1, <2>4, <2>5, <2>6 DEF StackEncloses, Indent
<1> QED BY <1>11, <1>12, <1>13 DEF NestingInv

\* Every step keeps the invariant.
LEMMA NextIInv == NestingInv /\ [DocumentNext]_parser => NestingInv'
<1> SUFFICES ASSUME NestingInv, [DocumentNext]_parser PROVE NestingInv'
  OBVIOUS
<1>1. CASE UNCHANGED parser
  BY <1>1 DEF parser, document, NestingInv, DocumentTypeOK, ParentIsNearest, StackEncloses, Indent
<1>2. ASSUME NEW l \in LineSet, Line(l) PROVE NestingInv'
  <2>1. CASE Payload(l) BY <1>2, <2>1, PayloadIInv DEF Line
  <2>2. CASE Preamble(l) \/ Skip(l)
    BY <2>2, <1>1 DEF Preamble, Skip
  <2>3. CASE Orphan(l) BY <2>3, RefuseIInv DEF Orphan
  <2>4. CASE Command(l) BY <1>2, <2>4, CommandIInv DEF Line
  <2> QED BY <1>2, <2>1, <2>2, <2>3, <2>4 DEF Line
<1>3. CASE Finish
  <2>1. CASE Refuse BY <2>1, RefuseIInv
  <2>2. CASE outcome' = "document" /\ UNCHANGED document
    BY <2>2 DEF document, NestingInv, DocumentTypeOK, ParentIsNearest, StackEncloses, Indent
  <2> QED BY <1>3, <2>1, <2>2 DEF Finish
<1> QED BY <1>1, <1>2, <1>3 DEF DocumentNext

\* Whatever lines a session shows, every command of a document belongs to the
\* nearest shallower command above it.
THEOREM Nesting == DocumentSpec => []ParentIsNearest
<1>1. NestingInv => ParentIsNearest BY DEF NestingInv
<1> QED BY InitIInv, NextIInv, <1>1, PTL DEF DocumentSpec

\* Every variable has its type, and the stack holds what encloses the next line.
THEOREM Stack == DocumentSpec => [](DocumentTypeOK /\ StackEncloses)
<1>1. NestingInv => DocumentTypeOK /\ StackEncloses BY DEF NestingInv
<1> QED BY InitIInv, NextIInv, <1>1, PTL DEF DocumentSpec

-----------------------------------------------------------------------------
(* What the switch meant is what the parser read.                            *)

\* The stack of the parser is the path of the switch, one command per depth.
Agree ==
    outcome # "error" =>
        /\ commands = printed /\ stack = path
        /\ \A m \in 1..Len(stack) : Indent(stack[m]) = m - 1
        /\ started <=> mode # "preamble"
        /\ complete <=> mode = "done"
        /\ banner # None <=> mode = "banner"
        /\ banner = delim

\* Only a whole transcript is a document, and a refused one was not whole.
Refused == (outcome = "document" => complete) /\ (outcome = "error" => mode # "done")

TInv == NestingInv /\ Agree /\ Refused

LEMMA InitTInv == TranscriptInit => TInv
<1> SUFFICES ASSUME DocumentInit, SwitchInit PROVE TInv
  BY DEF TranscriptInit
<1>1. NestingInv BY InitIInv
<1>2. Agree
  <2>1. commands = printed /\ stack = path /\ Len(stack) = 0 BY DEF DocumentInit, SwitchInit
  <2>2. started = FALSE /\ complete = FALSE /\ banner = None /\ delim = None /\ mode = "preamble"
    BY Zenon DEF DocumentInit, SwitchInit
  <2> QED BY <2>1, <2>2 DEF Agree
<1>3. Refused BY DEF Refused, DocumentInit, SwitchInit
<1> QED BY <1>1, <1>2, <1>3 DEF TInv

\* Where the switch nests a command is where the parser does.
LEMMA PrintsAgree ==
    ASSUME NEW l \in LineSet, TInv, outcome = "reading", Command(l), Prints(l)
    PROVE  /\ commands' = printed' /\ stack' = path'
           /\ \A m \in 1..Len(stack') : commands'[stack'[m]].indent = m - 1
<1> DEFINE n == Len(commands)
<1>1. PICK k \in 0..Len(stack) :
        /\ Keeps(l, k) /\ ~Orphaned(l, k)
        /\ commands' = Append(commands, [indent |-> l.indent, parent |-> Parent(k), lines |-> 1])
        /\ stack' = Append(SubSeq(stack, 1, k), n + 1)
  BY DEF Command
<1>2. /\ n \in Nat /\ Len(stack) \in Nat /\ k \in Nat /\ k <= Len(stack) /\ l.indent \in Nat
      /\ \A m \in 1..Len(stack) : stack[m] \in 1..n
  BY LineIndent, Numbers DEF TInv, NestingInv
<1>3. /\ commands = printed /\ stack = path
      /\ \A m \in 1..Len(stack) : Indent(stack[m]) = m - 1
  BY DEF TInv, Agree
<1>4. l.indent <= Len(stack)
  BY <1>3 DEF Prints
<1>5. k = l.indent
  <2>1. k > 0 => Indent(stack[k]) < l.indent BY <1>1 DEF Keeps, Encloses, Indent
  <2>2. k <= l.indent BY <1>2, <1>3, <2>1
  <2>3. ASSUME k < l.indent PROVE FALSE
    <3>1. k + 1 \in (k + 1)..Len(stack) /\ k + 1 \in 1..Len(stack) BY <1>2, <1>4, <2>3
    <3>2. ~(Indent(stack[k + 1]) < l.indent) BY <1>1, <1>2, <3>1 DEF Keeps, Encloses, Indent
    <3>3. Indent(stack[k + 1]) = k BY <1>2, <1>3, <3>1
    <3> QED BY <1>2, <2>3, <3>2, <3>3
  <2> QED BY <1>2, <2>2, <2>3
<1>6. commands' = printed'
  <2>1. Parent(k) = IF l.indent = 0 THEN 0 ELSE path[l.indent] BY <1>3, <1>5 DEF Parent
  <2> QED BY <1>1, <1>3, <2>1 DEF Prints, Means
<1>7. stack' = path' BY <1>1, <1>3, <1>5 DEF Prints
<1>8. \A m \in 1..Len(stack') : commands'[stack'[m]].indent = m - 1
  <2>1. Len(stack') = k + 1 /\ \A m \in 1..(k + 1) : stack'[m] = IF m = k + 1 THEN n + 1 ELSE stack[m]
    BY <1>1, <1>2 DEF TInv, NestingInv, DocumentTypeOK
  <2>2. /\ \A i \in 1..n : commands'[i] = commands[i]
        /\ commands'[n + 1].indent = l.indent
    BY <1>1, <1>2 DEF TInv, NestingInv, DocumentTypeOK
  <2> SUFFICES ASSUME NEW m \in 1..(k + 1) PROVE commands'[stack'[m]].indent = m - 1
    BY <2>1
  <2>3. CASE m = k + 1 BY <1>2, <1>5, <2>1, <2>2, <2>3
  <2>4. CASE m \in 1..k
    <3>1. stack'[m] = stack[m] /\ m \in 1..Len(stack) BY <1>2, <2>1, <2>4
    <3>2. Indent(stack[m]) = m - 1 BY <1>3, <3>1
    <3> QED BY <1>2, <2>2, <3>1, <3>2 DEF Indent
  <2> QED BY <1>2, <2>3, <2>4
<1> QED BY <1>6, <1>7, <1>8

\* A command that the switch nests is never an orphan.
LEMMA NestedIsCommand ==
    ASSUME NEW l \in LineSet, TInv, outcome = "reading", ~complete, Line(l), Prints(l),
           Read(l), ~Invalid(l)
    PROVE  Command(l)
<1>1. ~Payload(l) /\ ~Preamble(l) /\ ~Skip(l)
  BY DEF Read, Payload, Preamble, Skip
<1>2. ASSUME Orphan(l) PROVE FALSE
  <2>1. Keeps(l, 0) /\ l.indent > 0 BY <1>2 DEF Orphan, Orphaned
  <2>2. /\ Len(stack) \in Nat /\ l.indent \in Nat /\ l.indent <= Len(stack)
        /\ \A m \in 1..Len(stack) : Indent(stack[m]) = m - 1
    BY LineIndent, Numbers DEF TInv, NestingInv, Agree, Prints
  <2>3. 1 \in 1..Len(stack) /\ 1 \in (0 + 1)..Len(stack) BY <2>1, <2>2
  <2>4. ~(Indent(stack[1]) < l.indent) BY <2>1, <2>3 DEF Keeps, Encloses, Indent
  <2> QED BY <2>1, <2>2, <2>3, <2>4
<1> QED BY <1>1, <1>2 DEF Line

\* A line that the switch sends keeps the agreement.
LEMMA SendsTInv == ASSUME NEW l \in LineSet, TInv, Sends(l) PROVE TInv'
<1>1. outcome = "reading" /\ ~complete /\ Line(l)
  BY DEF Sends, Line
<1>2. NestingInv'
  <2>1. DocumentNext BY <1>1 DEF DocumentNext
  <2> QED BY <2>1, NextIInv DEF TInv
<1>3. /\ commands = printed /\ stack = path
      /\ \A m \in 1..Len(stack) : Indent(stack[m]) = m - 1
      /\ started <=> mode # "preamble"
      /\ mode # "done"
      /\ banner # None <=> mode = "banner"
      /\ banner = delim
  BY <1>1 DEF TInv, Agree
<1>4. CASE Echo(l)
  <2>1. Preamble(l) BY <1>1, <1>3, <1>4 DEF Echo, Line, Payload, Preamble, Skip, Orphan, Command, Read
  <2> QED BY <1>1, <1>2, <1>4, <2>1 DEF Echo, Preamble, parser, document, TInv, Agree, Refused, Indent
<1>5. CASE Separates(l)
  <2>1. Skip(l) BY <1>1, <1>3, <1>5 DEF Separates, Line, Payload, Preamble, Skip, Orphan, Command, Read
  <2> QED BY <1>1, <1>2, <1>5, <2>1 DEF Separates, Skip, parser, document, TInv, Agree, Refused, Indent
<1>6. CASE Says(l)
  <2> DEFINE n == Len(commands)
  <2>1. Payload(l) BY <1>1, <1>3, <1>6 DEF Says, Line, Payload, Preamble, Skip, Orphan, Command, Read
  <2>2. commands' = printed' /\ stack' = path' /\ stack' = stack
    BY <1>3, <1>6, <2>1 DEF Says, Payload
  <2>3. \A i \in 1..n : commands'[i].indent = commands[i].indent
    <3>1. n \in Nat /\ n \in 1..n /\ commands[n] \in CommandSet BY <2>1 DEF TInv, NestingInv, DocumentTypeOK, Payload
    <3>2. \A i \in 1..n : commands'[i] =
             IF i = n THEN [commands[n] EXCEPT !.lines = @ + 1] ELSE commands[i]
      BY <2>1, <3>1 DEF Payload, TInv, NestingInv, DocumentTypeOK
    <3> QED BY <3>1, <3>2 DEF CommandSet
  <2>4. \A m \in 1..Len(stack') : commands'[stack'[m]].indent = m - 1
    <3>1. \A m \in 1..Len(stack) : stack[m] \in 1..n BY Numbers DEF TInv, NestingInv
    <3> QED BY <1>3, <2>2, <2>3, <3>1 DEF Indent
  <2>5. /\ started' <=> mode' # "preamble"
        /\ complete' <=> mode' = "done"
        /\ banner' # None <=> mode' = "banner"
        /\ banner' = delim'
    BY <1>1, <1>3, <1>6, <2>1 DEF Says, Payload
  <2> QED BY <1>1, <1>2, <2>1, <2>2, <2>4, <2>5 DEF TInv, Agree, Refused, Payload, Indent
<1>7. CASE Starts(l) \/ Configures(l) \/ Announces(l) \/ Ends(l)
  <2>1. Prints(l) BY <1>7 DEF Starts, Configures, Announces, Ends
  <2>2. Read(l) /\ ~Invalid(l)
    BY <1>3, <1>7 DEF Starts, Configures, Announces, Ends, Read, Invalid, IsBanner, Version
  <2>3. Command(l) BY <1>1, <2>1, <2>2, NestedIsCommand
  <2>4. /\ commands' = printed' /\ stack' = path'
        /\ \A m \in 1..Len(stack') : commands'[stack'[m]].indent = m - 1
    BY <1>1, <2>1, <2>3, PrintsAgree
  <2>5. /\ started' <=> mode' # "preamble"
        /\ complete' <=> mode' = "done"
        /\ banner' # None <=> mode' = "banner"
        /\ banner' = delim'
    <3>1. CASE Starts(l)
      BY <1>3, <2>3, <3>1, TranscriptAssumption, DocumentAssumption DEF Starts, Command, Completes, IsBanner, Version
    <3>2. CASE Configures(l)
      <4>1. ~Completes(l) /\ ~IsBanner(l) BY <3>2 DEF Configures, Completes, IsBanner
      <4>2. started' /\ complete' = FALSE /\ banner' = None BY <2>3, <4>1 DEF Command
      <4>3. mode' = "config" /\ mode = "config" /\ delim' = delim /\ delim = None
        BY <1>3, <3>2 DEF Configures
      <4> QED BY <4>2, <4>3
    <3>3. CASE Announces(l)
      BY <1>3, <2>3, <3>3, DocumentAssumption DEF Announces, Command, Completes, IsBanner, Opens
    <3>4. CASE Ends(l)
      BY <1>3, <2>3, <3>4, DocumentAssumption DEF Ends, Command, Completes, IsBanner
    <3> QED BY <1>7, <3>1, <3>2, <3>3, <3>4
  <2>6. outcome' = "reading" BY <1>1, <2>3 DEF Command
  <2> QED BY <1>2, <2>4, <2>5, <2>6 DEF TInv, Agree, Refused, Indent
<1> QED BY <1>4, <1>5, <1>6, <1>7 DEF Sends

\* Wherever the transcript stops, only a whole one is a document.
LEMMA StopsTInv == ASSUME TInv, Stops PROVE TInv'
<1>1. NestingInv'
  <2>1. DocumentNext BY DEF Stops, DocumentNext
  <2> QED BY <2>1, NextIInv DEF TInv
<1>2. CASE Refuse
  <2>1. ~complete BY <1>2 DEF Stops, Finish, Refuse
  <2> QED BY <1>1, <1>2, <2>1 DEF TInv, Agree, Refused, Stops, Finish, Refuse, switch
<1>3. CASE outcome' = "document" /\ UNCHANGED document
  <2>1. complete /\ outcome = "reading" BY <1>3 DEF Stops, Finish, Refuse
  <2>2. UNCHANGED <<commands, stack, started, complete, banner, mode, delim, path, printed>>
    BY <1>3 DEF Stops, document, switch
  <2> QED BY <1>1, <1>3, <2>1, <2>2 DEF TInv, Agree, Refused, Indent
<1> QED BY <1>2, <1>3 DEF Stops, Finish

LEMMA NextTInv == TInv /\ [TranscriptNext]_<<parser, switch>> => TInv'
<1> SUFFICES ASSUME TInv, [TranscriptNext]_<<parser, switch>> PROVE TInv'
  OBVIOUS
<1>1. CASE UNCHANGED <<parser, switch>>
  <2>1. NestingInv' BY <1>1, NextIInv DEF TInv
  <2> QED BY <1>1, <2>1 DEF TInv, Agree, Refused, parser, document, switch, Indent
<1>2. CASE \E l \in LineSet : Sends(l) BY <1>2, SendsTInv
<1>3. CASE Stops BY <1>3, StopsTInv
<1>4. CASE Done BY <1>1, <1>4 DEF Done
<1> QED BY <1>1, <1>2, <1>3, <1>4 DEF TranscriptNext

\* However long the configuration and however deep its nesting, what has been
\* read is what the switch printed: no banner text is a command, no command is
\* lost or misplaced (Document.line).
THEOREM Faithful == TranscriptSpec => []ReadsWhatIsMeant
<1>1. TInv => ReadsWhatIsMeant BY DEF TInv, Agree, ReadsWhatIsMeant
<1> QED BY InitTInv, NextTInv, <1>1, PTL DEF TranscriptSpec

\* A transcript cut short is never a document, and a whole one always is (Parse).
THEOREM Whole == TranscriptSpec => []OnlyWhole
<1>1. TInv => OnlyWhole BY DEF TInv, Agree, Refused, OnlyWhole
<1> QED BY InitTInv, NextTInv, <1>1, PTL DEF TranscriptSpec

\* Every command of a document belongs to the nearest shallower command above
\* it, and the stack holds what encloses the next line, as the switch prints.
THEOREM AlwaysNested == TranscriptSpec => []NestingInv
<1>1. TInv => NestingInv BY DEF TInv
<1> QED BY InitTInv, NextTInv, <1>1, PTL DEF TranscriptSpec

-----------------------------------------------------------------------------
(* A resource over many runs: the inductive invariant of Lifecycle.        *)

Applying == {"write", "readback", "save", "return"}
Phases == {"idle", "refreshed", "read"} \union Applying
States == [value : Values, pending : BOOLEAN, tainted : BOOLEAN]

\* A resource has at most one state, a tainted state is a pending one, and a
\* call removes what there is or updates what is not tainted.
TypeInv ==
    /\ kind \in KindSet
    /\ config \in Choices /\ goal \in Choices /\ running \in Choices /\ startup \in Choices
    /\ state \in SUBSET States
    /\ \A s, t \in state : s = t
    /\ \A s \in state : s.tainted => s.pending
    /\ phase \in Phases /\ failed \in BOOLEAN /\ observed \in Values \union Nothing
    /\ outside \in Nat
    /\ phase \in Applying \union {"read"} /\ goal = Absent => Tracked
    /\ phase \in Applying \union {"read"} /\ goal # Absent => \A s \in state : ~s.tainted

\* Unless others interfere, a call that has not failed has established what
\* it was to establish before it saves, and saved it before it returns.
CallInv ==
    /\ phase \in {"read", "write", "save"} => ~failed
    /\ outside = 0 =>
         /\ phase = "save" => running = goal
         /\ phase = "return" /\ ~failed => running = goal /\ startup = running
         /\ phase = "save" \/ (phase = "return" /\ ~failed) => observed = Seen

\* With no failure on record, what is not running is not saved either, except
\* while it is being removed.
ForgottenInv ==
    outside = 0 /\ (phase \in {"idle", "refreshed", "read", "write"} \/ goal # Absent)
        /\ (\A s \in state : ~s.pending) /\ running = Absent
    => startup = Absent

\* A refresh forgets an object that is missing, so no call begins with one
\* unless it is to repair a failure.
PresentInv ==
    outside = 0 /\ kind.shape = "object"
        /\ (phase \in {"refreshed", "read"} \/ (phase \in Applying /\ goal # Absent))
    => \A s \in state : ~s.pending => running # Absent

\* A clean state shows what is running and saved between calls.  Within an
\* update that would keep it, it does so or there is something observed to
\* replace it with.
ShowsSaved(s) == s.value = running /\ startup = running
CleanInv ==
    outside = 0 /\ Careful =>
        \A s \in state : ~s.pending =>
            /\ phase \in {"idle", "refreshed", "read"} => ShowsSaved(s)
            /\ phase = "read" /\ goal # Absent => kind.mutable
            /\ phase \in Applying /\ goal # Absent =>
                 /\ kind.mutable
                 /\ kind.unread = "kept" /\ observed \in Nothing => phase = "return" /\ ShowsSaved(s)

LifecycleInv == TypeInv /\ CallInv /\ ForgottenInv /\ PresentInv /\ CleanInv
-----------------------------------------------------------------------------
\* There is nothing to show when nothing has happened yet.
LEMMA LifecycleInitInv == LifecycleInit => LifecycleInv
<1> SUFFICES ASSUME LifecycleInit PROVE LifecycleInv
  OBVIOUS
<1>1. kind \in KindSet /\ Absent \in Choices
  BY LifecycleAssumption DEF LifecycleInit, Choices, Values
<1>2. TypeInv
  BY <1>1 DEF LifecycleInit, TypeInv, States, Phases, Applying, Nothing
<1> QED
  BY <1>2 DEF LifecycleInit, LifecycleInv, CallInv, ForgottenInv, PresentInv, CleanInv

\* What can be asked for is a value, the absent one among them, and no value
\* stands for an observation that was not made.
LEMMA Choosing ==
    /\ Choices \subseteq Values /\ Absent \in Choices
    /\ \A v \in Values : v \notin Nothing
    /\ ~kind.mutable => \A v, w \in Choices : v # Absent /\ w # Absent => v = w
<1>1. Names # {} /\ Absent \notin Names
  BY LifecycleAssumption
<1>2. (CHOOSE n \in Names : TRUE) \in Names
  BY <1>1
<1> QED
  BY <1>1, <1>2, LifecycleAssumption DEF Choices, Values, Nothing

\* The only state is the current one.
LEMMA OnlyState == TypeInv /\ Tracked => state = {Current} /\ Current \in States
<1> SUFFICES ASSUME TypeInv, Tracked PROVE state = {Current} /\ Current \in States
  OBVIOUS
<1>1. Current \in state
  BY DEF Tracked, Current
<1> QED
  BY <1>1 DEF TypeInv

\* A resource has a state or none.
LEMMA NoneOrOne == TypeInv => state = {} \/ \E s \in States : state = {s}
BY OnlyState DEF Tracked

LEMMA RefreshStep == LifecycleInv /\ Refresh => LifecycleInv'
<1> SUFFICES ASSUME LifecycleInv, Refresh PROVE LifecycleInv'
  OBVIOUS
<1> USE DEF LifecycleInv
<1>1. CASE Tracked /\ Fault /\ UNCHANGED <<state, phase>>
  BY <1>1 DEF Refresh, Fault, asked, device, call, TypeInv, CallInv, ForgottenInv, PresentInv, CleanInv,
     Choices, Careful, ShowsSaved, Seen, Tracked
<1>2. CASE state' = UNION {Refreshed(s) : s \in state} /\ phase' = "refreshed" /\ NoFault
  <2> USE <1>2 DEF Refresh, NoFault, bounds, asked, device, call
  <2>1. CASE state = {}
    <3>1. state' = {} BY <2>1
    <3> QED
      BY <2>1, <3>1 DEF TypeInv, CallInv, ForgottenInv, PresentInv, CleanInv,
         Choices, Careful, ShowsSaved, Seen, Tracked, Phases, Applying
  <2>2. ASSUME NEW s \in States, state = {s} PROVE LifecycleInv'
    <3>1. state' = Refreshed(s) BY <2>2
    <3>2. running \in Values /\ Absent \in Values /\ (s.tainted => s.pending)
      BY <2>2, Choosing DEF TypeInv
    <3>3. \A v \in Values :
             /\ [s EXCEPT !.value = v] \in States
             /\ [s EXCEPT !.value = v].value = v
             /\ [s EXCEPT !.value = v].pending = s.pending
             /\ [s EXCEPT !.value = v].tainted = s.tainted
      BY DEF States
    <3>4. CASE running # Absent \/ kind.shape = "setting"
      <4>1. PICK t \in States : /\ state' = {t} /\ t.value = running
                               /\ t.pending = s.pending /\ t.tainted = s.tainted
        BY <3>1, <3>2, <3>3, <3>4 DEF Refreshed
      <4>2. TypeInv' BY <2>2, <3>2, <4>1 DEF TypeInv, Choices, Phases, Applying, Tracked
      <4>3. CallInv' BY DEF CallInv
      <4>4. ForgottenInv' BY <2>2, <4>1 DEF ForgottenInv
      <4>5. PresentInv' BY <3>4, <4>1 DEF PresentInv, Applying
      <4>6. CleanInv'
        BY <2>2, <4>1 DEF CleanInv, Careful, ShowsSaved, Applying
      <4> QED BY <4>2, <4>3, <4>4, <4>5, <4>6
    <3>5. CASE ~(running # Absent \/ kind.shape = "setting") /\ ~s.pending
      <4>1. state' = {} BY <3>1, <3>5 DEF Refreshed
      <4> QED
        BY <2>2, <3>5, <4>1 DEF TypeInv, CallInv, ForgottenInv, PresentInv, CleanInv,
           Choices, Careful, ShowsSaved, Tracked, Phases, Applying
    <3>6. CASE ~(running # Absent \/ kind.shape = "setting") /\ s.pending
      <4>1. PICK t \in States : state' = {t} /\ t.pending
        BY <3>1, <3>2, <3>3, <3>6 DEF Refreshed
      <4> QED
        BY <2>2, <4>1 DEF TypeInv, CallInv, ForgottenInv, PresentInv, CleanInv,
           Choices, Careful, ShowsSaved, Tracked, Phases, Applying
    <3> QED BY <3>4, <3>5, <3>6
  <2> QED BY <2>1, <2>2, NoneOrOne
<1> QED BY <1>1, <1>2 DEF Refresh

LEMMA PlanStep == LifecycleInv /\ (Plan \/ PlanFails) => LifecycleInv'
<1> SUFFICES ASSUME LifecycleInv, Plan \/ PlanFails PROVE LifecycleInv'
  OBVIOUS
<1> USE DEF LifecycleInv, asked, device, call, bounds
<1>1. CASE phase' = "idle" /\ phase = "refreshed" /\ UNCHANGED <<asked, state, device, call, outside>>
  BY <1>1 DEF TypeInv, CallInv, ForgottenInv, PresentInv, CleanInv,
     Choices, Careful, ShowsSaved, Seen, Tracked, Phases, Applying
<1>2. ASSUME NEW target \in {config, Absent}, phase = "refreshed", Begin(target),
             target = Absent => Tracked,
             Tracked /\ target # Absent => ~NoChange(Current) /\ ~Current.tainted
      PROVE  LifecycleInv'
  <2> USE <1>2 DEF Begin
  <2>1. TypeInv'
    BY Choosing, OnlyState DEF TypeInv, Choices, Phases, Applying, Nothing, Tracked
  <2>2. CallInv' /\ ForgottenInv' /\ PresentInv'
    BY DEF CallInv, ForgottenInv, PresentInv, Seen
  <2>3. CleanInv'
    <3>1. ASSUME outside = 0, Careful, NEW s \in state, ~s.pending, target # Absent
          PROVE  kind.mutable
      <4>1. Current = s /\ Tracked BY <3>1, OnlyState DEF Tracked
      <4>2. ShowsSaved(s) /\ ~s.tainted BY <3>1 DEF CleanInv, TypeInv
      <4>3. s.value # config BY <3>1, <4>1, <4>2 DEF NoChange
      <4>4. CASE kind.shape = "object"
        <5>1. s.value # Absent BY <3>1, <4>2, <4>4 DEF PresentInv, ShowsSaved
        <5> QED BY <3>1, <4>2, <4>3, <5>1, Choosing DEF TypeInv, ShowsSaved
      <4> QED BY <4>4 DEF TypeInv, KindSet
    <3> QED BY <3>1 DEF CleanInv, Careful, ShowsSaved, Applying
  <2> QED BY <2>1, <2>2, <2>3
<1> QED
  BY <1>1, <1>2 DEF Plan, PlanFails, Fault, NoChange

LEMMA ReadStep == LifecycleInv /\ ReadCurrent => LifecycleInv'
<1> SUFFICES ASSUME LifecycleInv, ReadCurrent PROVE LifecycleInv'
  OBVIOUS
<1> USE DEF LifecycleInv, ReadCurrent, Goto, Fail, asked, device
<1>1. TypeInv'
  BY Choosing DEF TypeInv, Fault, Choices, Phases, Applying, Nothing, Tracked, Seen, AfterRead
<1>2. CallInv'
  BY DEF CallInv, Fault, Seen, AfterRead
<1>3. ForgottenInv' /\ PresentInv'
  BY DEF ForgottenInv, PresentInv, Fault, AfterRead, Applying
<1>4. CleanInv'
  <2>1. CASE Fault /\ Fail("return")
    BY <2>1 DEF CleanInv, Careful, ShowsSaved, Fault, Applying
  <2>2. CASE Goto(AfterRead) /\ observed' = Seen
    <3>1. running \notin Nothing BY Choosing DEF TypeInv
    <3>2. outside = 0 /\ goal # Absent => \A s \in state : ~s.pending => Seen \notin Nothing
      BY <2>2, <3>1 DEF PresentInv, Seen
    <3> QED BY <2>2, <3>2 DEF CleanInv, Careful, ShowsSaved, AfterRead, Applying
  <2> QED BY <2>1, <2>2
<1> QED BY <1>1, <1>2, <1>3, <1>4

LEMMA WriteStep == LifecycleInv /\ Write => LifecycleInv'
<1> SUFFICES ASSUME LifecycleInv, Write PROVE LifecycleInv'
  OBVIOUS
<1> USE DEF LifecycleInv, Write, Goto, Fail, Fault, asked
<1>1. TypeInv'
  BY DEF TypeInv, Choices, Phases, Applying, Tracked
<1>2. CallInv'
  BY DEF CallInv
<1>3. ForgottenInv' /\ PresentInv'
  BY DEF ForgottenInv, PresentInv, Applying
<1>4. CleanInv'
  BY DEF CleanInv, Careful, ShowsSaved, Applying
<1> QED BY <1>1, <1>2, <1>3, <1>4

LEMMA ReadbackStep == LifecycleInv /\ Readback => LifecycleInv'
<1> SUFFICES ASSUME LifecycleInv, Readback PROVE LifecycleInv'
  OBVIOUS
<1> USE DEF LifecycleInv, Readback, Goto, Fail, Fault, asked, device
<1>1. TypeInv'
  BY Choosing DEF TypeInv, Choices, Phases, Applying, Nothing, Tracked, Seen
<1>2. CallInv'
  BY DEF CallInv, Seen, TypeInv
<1>3. ForgottenInv' /\ PresentInv'
  BY DEF ForgottenInv, PresentInv, Applying
<1>4. CleanInv'
  <2>1. running \notin Nothing BY Choosing DEF TypeInv
  <2>2. outside = 0 /\ goal # Absent => \A s \in state : ~s.pending => Seen \notin Nothing
    BY <2>1 DEF PresentInv, Seen, Applying
  <2> QED BY <2>2 DEF CleanInv, Careful, ShowsSaved, Applying
<1> QED BY <1>1, <1>2, <1>3, <1>4

LEMMA SaveStep == LifecycleInv /\ Save => LifecycleInv'
<1> SUFFICES ASSUME LifecycleInv, Save PROVE LifecycleInv'
  OBVIOUS
<1> USE DEF LifecycleInv, Save, Goto, Fail, Fault, asked
<1>1. TypeInv'
  BY DEF TypeInv, Choices, Phases, Applying, Tracked
<1>2. CallInv'
  BY DEF CallInv, Seen
<1>3. ForgottenInv' /\ PresentInv'
  BY DEF ForgottenInv, PresentInv, Applying
<1>4. CleanInv'
  BY DEF CleanInv, Careful, ShowsSaved, Applying
<1> QED BY <1>1, <1>2, <1>3, <1>4

\* Without a failure on record a call returns having saved its goal.
LEMMA Returning ==
    ASSUME LifecycleInv, phase = "return", outside = 0, ~failed
    PROVE  running = goal /\ startup = goal /\ observed = Seen
BY DEF LifecycleInv, CallInv

LEMMA CreateStep == LifecycleInv /\ CreateReturns => LifecycleInv'
<1> SUFFICES ASSUME LifecycleInv, CreateReturns PROVE LifecycleInv'
  OBVIOUS
<1> USE DEF LifecycleInv, CreateReturns, Store, asked, device, call, bounds
<1>1. \/ state' = {}
      \/ \E v \in Values : state' = Created(v) /\ (v = goal \/ v = Shown)
  BY Choosing DEF TypeInv, Shown, Nothing
<1>2. \A v \in Values :
         LET s == [value |-> v, pending |-> failed, tainted |-> failed]
         IN  s \in States /\ s.value = v /\ s.pending = failed /\ s.tainted = failed
  BY DEF States, TypeInv
<1>3. TypeInv'
  BY <1>1, <1>2 DEF TypeInv, Choices, Created, Phases, Applying, Tracked
<1>4. CallInv'
  BY DEF CallInv
<1>5. ForgottenInv'
  BY <1>1, <1>2 DEF ForgottenInv, Tracked
<1>6. PresentInv'
  BY DEF PresentInv, Applying
<1>7. CleanInv'
  <2>1. ASSUME outside = 0, ~failed
        PROVE  Shown = running /\ goal = running /\ startup = running
    BY <2>1, Returning, Choosing DEF Shown, Seen
  <2> QED BY <1>1, <1>2, <2>1 DEF CleanInv, Careful, Created, ShowsSaved, Applying
<1> QED BY <1>3, <1>4, <1>5, <1>6, <1>7

LEMMA UpdateStep == LifecycleInv /\ UpdateReturns => LifecycleInv'
<1> SUFFICES ASSUME LifecycleInv, UpdateReturns PROVE LifecycleInv'
  OBVIOUS
<1> USE DEF LifecycleInv, UpdateReturns, Store, asked, device, call, bounds
<1>1. state = {Current} /\ Current \in States /\ ~Current.tainted
  BY OnlyState DEF TypeInv, Applying
<1>2. failed \in BOOLEAN /\ goal \in Values
  BY Choosing DEF TypeInv
<1>3. PICK t \in States :
         /\ state' = {t} /\ (t.tainted => t.pending)
         /\ \/ t.pending = failed /\ (t.value = goal \/ (t.value = Shown /\ observed \notin Nothing))
            \/ t = Current /\ observed \in Nothing /\ kind.unread = "kept"
            \/ /\ t.value = Current.value /\ t.pending = (Current.pending \/ failed)
               /\ kind.unread = "marked" /\ observed \in Nothing
  <2>1. CASE observed \notin Nothing
    <3>1. Shown \in Values BY <1>2, <2>1 DEF Shown, TypeInv
    <3> DEFINE t == [value |-> Shown, pending |-> failed, tainted |-> FALSE]
    <3>2. t \in States /\ t.value = Shown /\ t.pending = failed /\ ~t.tainted
      BY <1>2, <3>1 DEF States
    <3>3. state' = {t} BY <2>1
    <3> HIDE DEF t
    <3> QED BY <2>1, <3>2, <3>3
  <2>2. CASE observed \in Nothing /\ kind.unread = "kept"
    BY <1>1, <2>2 DEF Unobserved
  <2>3. CASE observed \in Nothing /\ kind.unread = "marked"
    <3> DEFINE t == [Current EXCEPT !.pending = @ \/ failed]
    <3>1. t \in States /\ t.value = Current.value /\ t.pending = (Current.pending \/ failed)
             /\ t.tainted = Current.tainted
      BY <1>1, <1>2 DEF States
    <3>2. state' = {t} BY <2>3 DEF Unobserved
    <3> QED BY <1>1, <2>3, <3>1, <3>2
  <2>4. CASE observed \in Nothing /\ kind.unread = "planned"
    <3> DEFINE t == [Current EXCEPT !.value = goal, !.pending = failed]
    <3>1. t \in States /\ t.value = goal /\ t.pending = failed /\ t.tainted = Current.tainted
      BY <1>1, <1>2 DEF States
    <3>2. state' = {t} BY <2>4 DEF Unobserved
    <3> QED BY <1>1, <2>4, <3>1, <3>2
  <2> QED BY <2>1, <2>2, <2>3, <2>4 DEF TypeInv, KindSet
<1>4. TypeInv'
  BY <1>3 DEF TypeInv, Choices, Phases, Applying
<1>5. CallInv'
  BY DEF CallInv
<1>6. ForgottenInv'
  BY <1>1, <1>3, Returning DEF ForgottenInv
<1>7. PresentInv'
  BY DEF PresentInv, Applying
<1>8. CleanInv'
  <2>1. ASSUME outside = 0, ~failed
        PROVE  /\ goal = running /\ startup = running
               /\ observed \notin Nothing => Shown = running
               /\ observed \notin Nothing
    BY <2>1, Returning, Choosing DEF Shown, Seen, TypeInv
  <2>2. ASSUME outside = 0, Careful, observed \in Nothing, kind.unread = "kept", ~Current.pending
        PROVE  ShowsSaved(Current)
    BY <1>1, <2>2 DEF CleanInv, Applying
  <2> QED BY <1>1, <1>2, <1>3, <2>1, <2>2 DEF CleanInv, Careful, ShowsSaved, Applying
<1> QED BY <1>4, <1>5, <1>6, <1>7, <1>8

LEMMA DeleteStep == LifecycleInv /\ DeleteReturns => LifecycleInv'
<1> SUFFICES ASSUME LifecycleInv, DeleteReturns PROVE LifecycleInv'
  OBVIOUS
<1> USE DEF LifecycleInv, DeleteReturns, Store, asked, device, call, bounds
<1>1. state = {Current} /\ Current \in States
  BY OnlyState DEF TypeInv, Applying
<1>2. \/ ~failed /\ state' = {}
      \/ \E t \in States : state' = {t} /\ t.pending
  <2>1. \A v \in Values :
           LET t == [Current EXCEPT !.pending = TRUE, !.value = v] IN t \in States /\ t.pending
    BY <1>1 DEF States
  <2>2. Current.value \in Values BY <1>1 DEF States
  <2>3. observed \notin Nothing => observed \in Values BY DEF TypeInv
  <2> QED BY <2>1, <2>2, <2>3 DEF Undeleted
<1>3. TypeInv'
  BY <1>2 DEF TypeInv, Choices, Phases, Applying
<1>4. CallInv'
  BY DEF CallInv
<1>5. ForgottenInv'
  BY <1>2, Returning DEF ForgottenInv
<1>6. PresentInv' /\ CleanInv'
  BY <1>2 DEF PresentInv, CleanInv, Careful, ShowsSaved, Applying
<1> QED BY <1>3, <1>4, <1>5, <1>6

LEMMA EditStep == LifecycleInv /\ Edit => LifecycleInv'
<1> SUFFICES ASSUME LifecycleInv, Edit PROVE LifecycleInv'
  OBVIOUS
<1> QED
  BY DEF LifecycleInv, Edit, device, call, TypeInv, CallInv, ForgottenInv, PresentInv, CleanInv,
     Choices, Careful, ShowsSaved, Seen, Tracked

\* Every promise is about an undisturbed resource.
LEMMA OutsideStep == LifecycleInv /\ Outside => LifecycleInv'
<1> SUFFICES ASSUME LifecycleInv, Outside PROVE LifecycleInv'
  OBVIOUS
<1>1. TypeInv'
  BY DEF LifecycleInv, Outside, asked, call, TypeInv, Choices, Tracked
<1>2. outside' # 0
  BY DEF LifecycleInv, Outside, TypeInv
<1>3. CallInv'
  BY <1>2 DEF LifecycleInv, Outside, asked, call, CallInv
<1> QED
  BY <1>1, <1>2, <1>3 DEF LifecycleInv, ForgottenInv, PresentInv, CleanInv

LEMMA StutterStep == LifecycleInv /\ UNCHANGED lifecycle => LifecycleInv'
BY DEF LifecycleInv, lifecycle, TypeInv, CallInv, ForgottenInv, PresentInv, CleanInv, Choices, Careful,
   ShowsSaved, Seen, Tracked, NoChange

-----------------------------------------------------------------------------
(* The theorems about a resource's state.                                  *)

\* The invariant is inductive, whatever the number of faults, edits and runs.
THEOREM LifecycleInductive == LifecycleSpec => []LifecycleInv
<1>1. LifecycleInv /\ [LifecycleNext]_lifecycle => LifecycleInv'
  BY RefreshStep, PlanStep, ReadStep, WriteStep, ReadbackStep, SaveStep, CreateStep, UpdateStep,
     DeleteStep, EditStep, OutsideStep, StutterStep DEF LifecycleNext, Run
<1> QED BY LifecycleInitInv, <1>1, PTL DEF LifecycleSpec

\* For every kind of resource that is careful, between calls a state without
\* persistence_pending that agrees with the switch means the switch has it
\* saved, whichever reads, requests and saves failed before.
THEOREM CarefulSaved == LifecycleSpec => []CarefulMeansSaved
<1>1. LifecycleInv => CarefulMeansSaved
  BY DEF LifecycleInv, CleanInv, CarefulMeansSaved, CleanMeansSaved, ShowsSaved
<1> QED BY LifecycleInductive, <1>1, PTL

\* For every kind of resource, what is forgotten once it is gone is gone from
\* the startup configuration as well.
THEOREM ForgottenSaved == LifecycleSpec => []ForgottenMeansSaved
<1>1. LifecycleInv => ForgottenMeansSaved
  BY DEF LifecycleInv, ForgottenInv, ForgottenMeansSaved, Tracked
<1> QED BY LifecycleInductive, <1>1, PTL
=============================================================================
