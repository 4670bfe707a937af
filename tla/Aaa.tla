-------------------------------- MODULE Aaa --------------------------------
(* AAA (internal/features/aaa): the policy, whose login methods decide     *)
(* who may connect at all, and a server or a user, whose secret can be     *)
(* written and never be read.  Every read compares the native              *)
(* configuration with RESTCONF's projection of it.                         *)
EXTENDS Workflow, Sequences

Features == {"aaapolicy", "aaaserver", "aaauser"}

-----------------------------------------------------------------------------
(* The configuration.                                                      *)

\* The default of dot1x: unset (0), none (1), radius (2).  Login methods take
\* one of two values, and so does CoA: its enablement and the actions it
\* ignores, which are written alike and before all else.
Policies == [coa : 0..1, dot1x : 0..2, login : 0..1]

\* A server or a user: what can be read of it (0: absent), and its secret
\* (0: none); whether local users are protected.
Accounts ==
    {a \in [entry : 0..2, secret : 0..2, protected : 0..1] : a.entry = 0 => a.secret = 0}
Servers == {a \in Accounts : a.protected = 0}
Users == Accounts

ConfigurationsOf == [aaapolicy |-> Policies, aaaserver |-> Servers, aaauser |-> Users]

\* A server's secret is optional, a user's is not; one user is the provider's.
Jobs == {j \in [entry : 0..2, secret : 0..2, own : BOOLEAN] : j.entry = 0 => j.secret = 0}
ServerJobs == {j \in Jobs : ~j.own}
UserJobs == {j \in Jobs : j.entry # 0 => j.secret # 0}
Wanted(f) == CASE f = "aaapolicy" -> Policies [] f = "aaaserver" -> ServerJobs [] f = "aaauser" -> UserJobs

\* What RESTCONF may report: a policy that lags by one field, an account.
PolicyCopies == {c \in Policies : \E x \in DOMAIN c : c = [native EXCEPT ![x] = c[x]]}
ServerCopies == 0..2
UserCopies == 0..2

\* RESTCONF reports an unset dot1x default as none.
PolicyAgrees(copy, s) == copy = s \/ (s.dot1x = 0 /\ copy = [s EXCEPT !.dot1x = 1])
Agrees(copy, s) == IF feature = "aaapolicy" THEN PolicyAgrees(copy, s) ELSE copy = s.entry

Init ==
    /\ feature \in Features
    /\ native \in ConfigurationsOf[feature]
    /\ cache \in CASE feature = "aaapolicy" -> PolicyCopies
                  [] feature = "aaaserver" -> ServerCopies
                  [] feature = "aaauser" -> UserCopies
    /\ unowned = Untouched
    /\ call = NoCall /\ reported = {}
    /\ calls = 0 /\ troubles = 0

-----------------------------------------------------------------------------
(* The switch.                                                             *)

\* The projection follows, except between the two requests of "create".
CacheSyncs ==
    /\ ~At("create")
    /\ cache' \in IF feature = "aaapolicy" THEN {native, [native EXCEPT !.dot1x = IF @ = 0 THEN 1 ELSE @]}
                  ELSE {native.entry}
    /\ UNCHANGED <<feature, native, unowned, call, reported, bounds>>

Outside ==
    Interference({s \in ConfigurationsOf[feature] : \E x \in DOMAIN s : s = [native EXCEPT ![x] = s[x]]})

-----------------------------------------------------------------------------
want == call.job
seen == call.seen

Observed == [call EXCEPT !.seen = native, !.before = native, !.cached = cache, !.others = Preserved,
                         !.fresh = TRUE]
Start == At("read") /\ (Continue([Observed EXCEPT !.pc = "start"]) \/ TimesOut)

\* Every readback compares the two views, too.
Compare ==
    /\ At("compare")
    /\ Goto(IF Agrees(cache, seen) THEN "next" ELSE "failed")

Written(settings, copies, expected) ==
    Send(settings, copies, [call EXCEPT !.pc = "readback", !.then = "compare", !.expect = expected])

\* Nothing is left to write.
Complete == At("next") /\ call.todo = <<>> /\ Goto("done")

-----------------------------------------------------------------------------
(* The policy, one family of commands after the other (applyPolicy).       *)

\* Fault the properties must detect.
LoginFirst == <<"login", "coa", "dot1x">>

PolicyOrder == <<"coa", "dot1x", "login">>

PolicyBegin ==
    /\ At("start")
    /\ Continue([call EXCEPT !.pc = IF Agrees(call.cached, seen) THEN "next" ELSE "refused",
                             !.todo = PolicyOrder])

\* What RESTCONF already reports is not written.
With(field) ==
    IF cache[field] = want[field] /\ want[field] # 0 THEN native ELSE [native EXCEPT ![field] = want[field]]
Wrote(field) ==
    Send({With(field)}, [cache EXCEPT ![field] = want[field]],
         [call EXCEPT !.pc = "readback", !.then = "compare", !.todo = Tail(@),
                      !.expect = {[seen EXCEPT ![field] = want[field]]}])

\* none is reported where nothing is set: the report is removed, and the
\* value created, without a read between that would report it again.
Implicit == seen.dot1x = 0 /\ want.dot1x = 1

PolicyWrite ==
    /\ At("next") /\ call.todo # <<>>
    /\ LET field == Head(call.todo)
       IN  CASE seen[field] = want[field] -> Continue([call EXCEPT !.todo = Tail(@)])
             [] field = "dot1x" /\ Implicit ->
                    Send({native}, [cache EXCEPT !.dot1x = 0], [call EXCEPT !.pc = "create"])
             [] OTHER -> Wrote(field)

PolicyCreate == At("create") /\ IF call.failed THEN Goto("failed") ELSE Wrote("dot1x")

Policy == feature = "aaapolicy" /\ (PolicyBegin \/ PolicyWrite \/ PolicyCreate)

-----------------------------------------------------------------------------
(* A server or a user (applyServer, applyUser).                            *)

\* A key that is not given cannot be kept.
ServerRefused ==
    ~Agrees(call.cached, seen) \/ (want.entry # 0 /\ seen.secret # 0 /\ want.secret = 0)

\* The provider's own account and accounts under protection are left alone.
UserRefused ==
    \/ want.own \/ ~Agrees(call.cached, seen)
    \/ seen.protected = 1 /\ (want.entry # 0 \/ seen.entry # 0)

\* The secret may differ where all that can be read agrees.
Unneeded == want.entry = 0 /\ seen.entry = 0

\* All an account's readback can tell: the secret's presence, never its value;
\* whether users are protected by now is not looked at again.
Looks(entry, secret) ==
    {a \in ConfigurationsOf[feature] : a.entry = entry /\ (a.secret = 0 <=> secret = 0)}

Account(refused) ==
    LET wanted(s) == [s EXCEPT !.entry = want.entry, !.secret = want.secret]
    IN  /\ At("start")
        /\ \/ refused /\ Goto("refused")
           \/ ~refused /\ Unneeded /\ Goto("done")
           \/ /\ ~refused /\ ~Unneeded
              /\ Written({wanted(native)}, want.entry, Looks(want.entry, want.secret))

Server == feature = "aaaserver" /\ Account(ServerRefused)
User == feature = "aaauser" /\ Account(UserRefused)

-----------------------------------------------------------------------------
Apply == Start \/ Refuse \/ Compare \/ Complete \/ Readback \/ Return \/ Policy \/ Server \/ User

Next ==
    \/ \E job \in Wanted(feature) : Begin(job)
    \/ Apply \/ CacheSyncs \/ Outside \/ Finished

Spec == Init /\ [][Next]_vars

-----------------------------------------------------------------------------
(* Properties.                                                             *)

\* What a call reported as done stands until somebody touches it.
ReportedStands ==
    \A job \in reported :
        IF feature = "aaapolicy" THEN native = job
        ELSE native.entry = job.entry /\ (native.secret = 0 <=> job.secret = 0)

\* A call that nothing disturbs succeeds.
QuietCallSucceeds == ~(Fails /\ call.quiet)

\* After a call that nothing disturbed the secret is the one given, although
\* nothing that can be read tells whether it was already.
SecretsInForce ==
    At("done") /\ call.quiet /\ feature # "aaapolicy" => native.secret = want.secret

\* Login methods change only when all the rest of the policy is in place:
\* every later request might no longer be let in.
ChangesLoginLast ==
    ~Idle /\ call'.quiet /\ feature = "aaapolicy" /\ native'.login # native.login
    => \A x \in DOMAIN native \ {"login"} : native[x] = want[x]
=============================================================================
