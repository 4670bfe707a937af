---------------------------- MODULE QuietCallProofs ----------------------------
(* A call that nothing disturbs and that is not refused before its first       *)
(* request does not fail: for all features and every configuration, and        *)
(* whatever an earlier call left half done, each request is carried out, and   *)
(* the last readback shows what was asked for.  Where the code aligns          *)
(* RESTCONF's copy this holds of every copy; the features that do not align it *)
(* need a listing that has the entry just when the switch does.                *)
EXTENDS FeatureProofs

-----------------------------------------------------------------------------
(* Calls that nothing disturbs have what they expect, and go on.           *)

Firm ==
    call # NoCall /\ call.quiet =>
        /\ ~call.failed /\ call.pc # "failed"
        /\ call.pc # "read" => unowned \in call.others
        /\ call.pc = "readback" => call.expect = {} \/ native \in call.expect

LEMMA SendFirmly ==
    ASSUME Firm, call # NoCall, DOMAIN call = Fields, NEW S, NEW x, NEW c, Send(S, x, c), DOMAIN c = Fields,
           c.quiet = call.quiet, c.failed = call.failed, c.others = call.others,
           call.pc # "read", c.pc # "failed",
           call.quiet /\ c.pc = "readback" => c.expect = {} \/ S \subseteq c.expect
    PROVE  /\ Firm'
           /\ call'.quiet => call.quiet /\ call' = c /\ native' \in S /\ cache' = x /\ UNCHANGED unowned
<1>1. CASE call.failed
  BY <1>1 DEF Send, Firm
<1>2. CASE ~call.failed /\ \E error \in BOOLEAN : call' = [c EXCEPT !.failed = error, !.quiet = FALSE]
  BY <1>2 DEF Firm, Fields
<1>3. CASE ~call.failed /\ native' \in S /\ cache' = x /\ UNCHANGED unowned /\ call' = c
  BY <1>3 DEF Firm
<1> QED BY <1>1, <1>2, <1>3 DEF Send

LEMMA ContinueFirmly ==
    ASSUME Firm, NEW c, Continue(c), c.quiet = call.quiet, c.failed = call.failed,
           call # NoCall, c.others = call.others, call.pc # "read",
           call.quiet => c.pc \notin {"failed", "readback"}
    PROVE  Firm' /\ call' = c /\ UNCHANGED <<feature, native, cache, unowned>>
BY ContinueIs DEF Firm

LEMMA GotoFirmly ==
    ASSUME Firm, NEW label, Goto(label), DOMAIN call = Fields, call # NoCall, call.pc # "read",
           call.quiet => label \notin {"failed", "readback"}
    PROVE  /\ Firm' /\ UNCHANGED <<feature, native, cache, unowned>>
           /\ call'.pc = label /\ \A f \in Fields \ {"pc"} : call'[f] = call[f]
<1> DEFINE c == [call EXCEPT !.pc = label]
<1>1. Continue(c) BY DEF Goto
<1>2. c.pc = label /\ \A f \in Fields \ {"pc"} : c[f] = call[f] BY DEF Fields
<1>3. c.quiet = call.quiet /\ c.failed = call.failed /\ c.others = call.others BY <1>2 DEF Fields
<1>. HIDE DEF c
<1> QED BY <1>1, <1>2, <1>3, ContinueFirmly

LEMMA ReadbackFirmly ==
    ASSUME Firm, Readback, DOMAIN call = Fields,
           call.quiet => call.then \notin {"failed", "read", "readback"}
    PROVE  /\ Firm'
           /\ call'.quiet => /\ call.quiet /\ call'.pc = call.then /\ call'.seen = native
                             /\ \A f \in Fields \ {"pc", "fresh", "seen"} : call'[f] = call[f]
                             /\ UNCHANGED <<feature, native, cache, unowned>>
<1>1. call # NoCall /\ call.pc = "readback" BY NothingCalled DEF Readback
<1>2. call.quiet => Confirmed BY <1>1 DEF Firm, Confirmed
<1>3. CASE ~call'.quiet BY <1>3 DEF Firm
<1>4. CASE call'.quiet
  <2>1. /\ call.quiet /\ call'.pc = call.then /\ call'.seen = native
        /\ \A f \in Fields \ {"pc", "fresh", "seen"} : call'[f] = call[f]
        /\ UNCHANGED <<feature, native, cache, unowned>>
    BY <1>2, <1>4, ReadbackQuiet
  <2>2. call'.failed = call.failed /\ call'.others = call.others BY <2>1 DEF Fields
  <2> QED BY <1>1, <2>1, <2>2 DEF Firm
<1> QED BY <1>3, <1>4

LEMMA BeginFirmly ==
    ASSUME NEW job, Begin(job) PROVE Firm' /\ call'.pc = "read"
BY BeginQuiet DEF Firm

-----------------------------------------------------------------------------
(* AAA: an undisturbed call finds the two views in agreement.              *)

AccountsFirm ==
    /\ Firm
    /\ call # NoCall /\ call.quiet =>
         /\ call.pc = "start" => cache = call.cached \/ Accounts!Agrees(cache, native)
         /\ call.pc \in {"readback", "compare", "next"} => Accounts!Agrees(cache, native)
         /\ call.pc = "create" =>
              call.seen = native /\ cache = native /\ native.dot1x = 0 /\ call.job.dot1x = 1

LEMMA AccountsSeen ==
    ASSUME AccountsInv, AccountsQuiet, call # NoCall, call.quiet,
           call.pc \in {"start", "compare", "next", "done"}
    PROVE  call.seen = native
BY DEF AccountsQuiet, AccountsInv, LookedInv, Looking, Unlooked, Accounts!Features

\* Writing a field that is wanted otherwise is carried out, and both views
\* have it.
LEMMA WroteFirmly ==
    ASSUME AccountsInv, AccountsFirm, call # NoCall, feature = "aaapolicy",
           call.pc \in {"next", "create"}, NEW field \in PolicyFields,
           call.quiet => call.seen = native /\ native[field] # call.job[field]
                         /\ Accounts!Agrees(cache, native),
           call.quiet /\ call.pc = "next" /\ field = "dot1x" =>
               ~(native.dot1x = 0 /\ call.job.dot1x = 1),
           call.quiet /\ call.pc = "create" => field = "dot1x",
           Accounts!Wrote(field)
    PROVE  AccountsFirm'
<1> DEFINE v == Accounts!want[field]
           s == [Accounts!seen EXCEPT ![field] = v]
           c == [call EXCEPT !.pc = "readback", !.then = "compare", !.todo = Tail(@), !.expect = {s}]
           x == [cache EXCEPT ![field] = v]
           w == Accounts!With(field)
<1>1. Send({w}, x, c) BY AccountsSame DEF Accounts!Wrote
<1>2. /\ DOMAIN c = Fields /\ c.pc = "readback" /\ c.expect = {s} /\ c.quiet = call.quiet
      /\ c.failed = call.failed /\ c.others = call.others
  BY AccountsKnows DEF Fields
<1>. HIDE DEF c
<1>3. native \in [PolicyFields -> 0..2] /\ call.job \in [PolicyFields -> 0..2]
  BY AccountsKnows DEF Held, Commissioned
<1>4. call.quiet => cache = native \/ (native.dot1x = 0 /\ cache = [native EXCEPT !.dot1x = 1])
  BY DEF Accounts!Agrees, Accounts!PolicyAgrees
<1>5. call.quiet => ~(cache[field] = call.job[field] /\ call.job[field] # 0)
  <2>1. call.quiet /\ call.pc = "create" => cache = native BY DEF AccountsFirm
  <2> QED BY <1>3, <1>4, <2>1 DEF PolicyFields
<1>6. call.quiet => w = s
  BY <1>5, AccountsKnows DEF Accounts!With
<1>7. call.quiet => Accounts!Agrees(x, s)
  <2>1. call.quiet => s = [native EXCEPT ![field] = v] BY AccountsKnows
  <2>2. CASE cache = native BY <2>1, <2>2 DEF Accounts!Agrees, Accounts!PolicyAgrees
  <2>3. CASE native.dot1x = 0 /\ cache = [native EXCEPT !.dot1x = 1]
    <3>1. CASE field = "dot1x"
      <4>1. x = [native EXCEPT ![field] = v] BY <1>3, <2>3, <3>1 DEF PolicyFields
      <4> QED BY <2>1, <4>1 DEF Accounts!Agrees, Accounts!PolicyAgrees
    <3>2. CASE field # "dot1x"
      <4>1. /\ x = [[native EXCEPT ![field] = v] EXCEPT !.dot1x = 1]
            /\ [native EXCEPT ![field] = v].dot1x = 0
        BY <1>3, <2>3, <3>2 DEF PolicyFields
      <4> QED BY <2>1, <4>1 DEF Accounts!Agrees, Accounts!PolicyAgrees
    <3> QED BY <3>1, <3>2
  <2> QED BY <1>4, <2>2, <2>3
<1>. HIDE DEF s, x, w
<1>8. /\ Firm' /\ UNCHANGED feature
      /\ call'.quiet => call.quiet /\ call' = c /\ native' \in {w} /\ cache' = x
  BY <1>1, <1>2, <1>6, AccountsKnows, SendFirmly, SendIs DEF AccountsFirm
<1>9. call'.quiet => Accounts!Agrees(cache, native)'
  BY <1>6, <1>7, <1>8 DEF Accounts!Agrees, Accounts!PolicyAgrees
<1> QED BY <1>2, <1>8, <1>9 DEF AccountsFirm

LEMMA PolicyFirmly ==
    ASSUME AccountsInv, AccountsQuiet, AccountsFirm, call # NoCall, Accounts!Policy
    PROVE  AccountsFirm'
<1>1. feature = "aaapolicy" BY DEF Accounts!Policy
<1>2. native \in [PolicyFields -> 0..2] /\ call.job \in [PolicyFields -> 0..2]
  BY <1>1, AccountsKnows DEF Held, Commissioned
<1>3. CASE Accounts!PolicyBegin
  <2> DEFINE label == IF Accounts!Agrees(call.cached, Accounts!seen) THEN "next" ELSE "refused"
             c == [call EXCEPT !.pc = label, !.todo = Accounts!PolicyOrder]
  <2>1. call.pc = "start" /\ Continue(c) BY <1>3, AccountsSame, AccountsAt DEF Accounts!PolicyBegin
  <2>2. c.pc = label /\ c.quiet = call.quiet /\ c.failed = call.failed /\ c.others = call.others
    BY AccountsKnows DEF Fields
  <2>3. label \in {"next", "refused"} OBVIOUS
  <2>. HIDE DEF c
  <2>4. Firm' /\ call' = c /\ UNCHANGED <<feature, native, cache>>
    BY <2>1, <2>2, <2>3, ContinueFirmly DEF AccountsFirm
  <2>5. call.quiet /\ label = "next" => Accounts!Agrees(cache, native)
    <3>1. call.quiet => call.seen = native BY <2>1, AccountsSeen
    <3> QED BY <2>1, <3>1, AccountsKnows DEF AccountsFirm
  <2>. HIDE DEF label
  <2>6. Accounts!Agrees(cache, native)' <=> Accounts!Agrees(cache, native)
    BY <2>4 DEF Accounts!Agrees, Accounts!PolicyAgrees
  <2> QED BY <2>2, <2>3, <2>4, <2>5, <2>6 DEF AccountsFirm
<1>4. CASE Accounts!PolicyWrite
  <2> DEFINE field == Head(call.todo)
  <2>1. /\ call.pc = "next" /\ call.todo # <<>>
        /\ \/ Continue([call EXCEPT !.todo = Tail(@)])
           \/ /\ field = "dot1x" /\ Accounts!Implicit
              /\ Send({native}, [cache EXCEPT !.dot1x = 0], [call EXCEPT !.pc = "create"])
           \/ /\ Accounts!seen[field] # Accounts!want[field] /\ Accounts!Wrote(field)
              /\ ~(field = "dot1x" /\ Accounts!Implicit)
    BY <1>4, AccountsSame, AccountsAt DEF Accounts!PolicyWrite
  <2>2. call.quiet => call.seen = native /\ Accounts!Agrees(cache, native)
    BY <2>1, AccountsSeen DEF AccountsFirm
  <2>3. field \in PolicyFields BY <2>1, ListsAre DEF AccountsInv
  <2>4. CASE Continue([call EXCEPT !.todo = Tail(@)])
    <3> DEFINE c == [call EXCEPT !.todo = Tail(@)]
    <3>1. /\ c.pc = "next" /\ c.quiet = call.quiet /\ c.failed = call.failed /\ c.others = call.others
      BY <2>1, AccountsKnows DEF Fields
    <3>2. Continue(c) BY <2>4
    <3>. HIDE DEF c
    <3>3. Firm' /\ call' = c /\ UNCHANGED <<feature, native, cache>>
      BY <2>1, <3>1, <3>2, ContinueFirmly DEF AccountsFirm
    <3>4. Accounts!Agrees(cache, native)' <=> Accounts!Agrees(cache, native)
      BY <3>3 DEF Accounts!Agrees, Accounts!PolicyAgrees
    <3> QED BY <2>2, <3>1, <3>3, <3>4 DEF AccountsFirm
  <2>5. CASE /\ field = "dot1x" /\ Accounts!Implicit
             /\ Send({native}, [cache EXCEPT !.dot1x = 0], [call EXCEPT !.pc = "create"])
    <3> DEFINE c == [call EXCEPT !.pc = "create"]
               x == [cache EXCEPT !.dot1x = 0]
    <3>1. /\ DOMAIN c = Fields /\ c.pc = "create" /\ c.quiet = call.quiet /\ c.failed = call.failed
          /\ c.others = call.others /\ c.seen = call.seen /\ c.job = call.job
      BY AccountsKnows DEF Fields
    <3>2. Send({native}, x, c) BY <2>5
    <3>. HIDE DEF c
    <3>3. call.quiet => x = native /\ native.dot1x = 0 /\ call.job.dot1x = 1
      <4>1. call.quiet => native.dot1x = 0 /\ call.job.dot1x = 1
        BY <2>2, <2>5, AccountsKnows DEF Accounts!Implicit
      <4>2. call.quiet => cache = native \/ cache = [native EXCEPT !.dot1x = 1]
        BY <1>1, <2>2 DEF Accounts!Agrees, Accounts!PolicyAgrees
      <4> QED BY <1>2, <4>1, <4>2 DEF PolicyFields
    <3>. HIDE DEF x
    <3>4. /\ Firm'
          /\ call'.quiet => call.quiet /\ call' = c /\ native' \in {native} /\ cache' = x
      BY <2>1, <3>1, <3>2, AccountsKnows, SendFirmly DEF AccountsFirm
    <3>5. call'.quiet => /\ call'.pc = "create" /\ call'.seen = native' /\ cache' = native'
                         /\ native'.dot1x = 0 /\ call'.job.dot1x = 1
      BY <2>2, <3>1, <3>3, <3>4
    <3> QED BY <3>4, <3>5 DEF AccountsFirm
  <2>6. CASE /\ Accounts!seen[field] # Accounts!want[field] /\ Accounts!Wrote(field)
             /\ ~(field = "dot1x" /\ Accounts!Implicit)
    BY <1>1, <2>1, <2>2, <2>3, <2>6, AccountsKnows, WroteFirmly DEF Accounts!Implicit
  <2> QED BY <2>1, <2>4, <2>5, <2>6
<1>5. CASE Accounts!PolicyCreate
  <2>1. /\ call.pc = "create"
        /\ IF call.failed THEN Goto("failed") ELSE Accounts!Wrote("dot1x")
    BY <1>5, AccountsSame, AccountsAt DEF Accounts!PolicyCreate
  <2>2. CASE call.failed /\ Goto("failed")
    BY <2>1, <2>2, AccountsKnows, GotoIs DEF AccountsFirm, Firm, Fields
  <2>3. CASE Accounts!Wrote("dot1x")
    <3>1. call.quiet => call.seen = native /\ cache = native /\ native.dot1x = 0 /\ call.job.dot1x = 1
      BY <2>1 DEF AccountsFirm
    <3>2. call.quiet => Accounts!Agrees(cache, native)
      BY <1>1, <3>1 DEF Accounts!Agrees, Accounts!PolicyAgrees
    <3> QED BY <1>1, <2>1, <2>3, <3>1, <3>2, WroteFirmly DEF PolicyFields
  <2> QED BY <2>1, <2>2, <2>3
<1> QED BY <1>3, <1>4, <1>5 DEF Accounts!Policy

LEMMA AccountFirmly ==
    ASSUME AccountsInv, AccountsQuiet, AccountsFirm, call # NoCall, feature # "aaapolicy",
           NEW refused, Accounts!Account(refused)
    PROVE  AccountsFirm'
<1> DEFINE wanted(s) == [s EXCEPT !.entry = Accounts!want.entry, !.secret = Accounts!want.secret]
           expected == Accounts!Looks(Accounts!want.entry, Accounts!want.secret)
           c == [call EXCEPT !.pc = "readback", !.then = "compare", !.expect = expected]
<1>1. /\ call.pc = "start"
      /\ \/ Goto("refused") \/ Goto("done")
         \/ Send({wanted(native)}, Accounts!want.entry, c)
  BY AccountsSame, AccountsAt DEF Accounts!Account, Accounts!Written
<1>2. CASE Goto("refused") \/ Goto("done")
  BY <1>1, <1>2, AccountsKnows, GotoFirmly DEF AccountsFirm
<1>3. CASE Send({wanted(native)}, Accounts!want.entry, c)
  <2>1. /\ DOMAIN c = Fields /\ c.pc = "readback" /\ c.expect = expected /\ c.quiet = call.quiet
        /\ c.failed = call.failed /\ c.others = call.others
    BY AccountsKnows DEF Fields
  <2>2. call.quiet => wanted(native) \in expected
    <3>1. feature \in {"aaaserver", "aaauser"} BY DEF AccountsInv, Accounts!Features
    <3>2. Held(native) /\ Commissioned(call.job) BY DEF AccountsInv
    <3> QED BY <3>1, <3>2, LooksAre, AccountsKnows
  <2>3. wanted(native).entry = Accounts!want.entry
    BY AccountsKnows DEF Held, AccountFields
  <2>. HIDE DEF c, wanted, expected
  <2>4. /\ Firm' /\ UNCHANGED feature
        /\ call'.quiet => call.quiet /\ call' = c /\ native' \in {wanted(native)} /\ cache' = Accounts!want.entry
    BY <1>1, <1>3, <2>1, <2>2, AccountsKnows, SendFirmly, SendIs DEF AccountsFirm
  <2>5. call'.quiet => Accounts!Agrees(cache, native)'
    BY <2>3, <2>4 DEF Accounts!Agrees
  <2> QED BY <2>1, <2>4, <2>5 DEF AccountsFirm
<1> QED BY <1>1, <1>2, <1>3

LEMMA AccountsFirmHolds ==
    ASSUME AccountsInv, AccountsQuiet, AccountsFirm, Accounts!Next PROVE AccountsFirm'
<1>a. ASSUME NEW label, Accounts!At(label), label # "idle" PROVE call # NoCall
  BY <1>a, AccountsAt
<1>b. ASSUME call' = NoCall PROVE AccountsFirm'
  BY <1>b DEF AccountsFirm, Firm
<1>1. CASE \E job \in Accounts!Wanted(feature) : Accounts!Begin(job)
  <2>1. PICK job \in Accounts!Wanted(feature) : Begin(job) BY <1>1, AccountsSame
  <2> QED BY <2>1, BeginFirmly DEF AccountsFirm
<1>2. CASE Accounts!Start
  <2>1. call # NoCall BY <1>2, <1>a DEF Accounts!Start
  <2>2. CASE Accounts!TimesOut
    BY <2>1, <2>2, AccountsSame, AccountsKnows, TimesOutQuiet DEF AccountsFirm, Firm
  <2>3. CASE Accounts!Continue([Accounts!Observed EXCEPT !.pc = "start"])
    <3>. DEFINE c == [Accounts!Observed EXCEPT !.pc = "start"]
    <3>1. /\ c.pc = "start" /\ c.quiet = call.quiet /\ c.failed = call.failed /\ unowned \in c.others
          /\ c.cached = cache
      BY <2>1, AccountsKnows, AccountsSame, PreservedHas DEF Accounts!Observed, Fields, AccountsInv, LookedInv
    <3>2. call' = c /\ UNCHANGED <<cache, unowned>> BY <2>3, AccountsSame, ContinueIs
    <3>. HIDE DEF c
    <3> QED BY <2>1, <3>1, <3>2 DEF AccountsFirm, Firm
  <2> QED BY <1>2, <2>2, <2>3 DEF Accounts!Start
<1>3. CASE Accounts!Readback
  <2>1. Readback /\ call # NoCall /\ call.pc = "readback"
    BY <1>3, <1>a, AccountsSame, AccountsAt DEF Readback
  <2>2. call.then = "compare" BY <2>1 DEF AccountsInv
  <2>3. /\ Firm'
        /\ call'.quiet => call.quiet /\ call'.pc = "compare" /\ UNCHANGED <<feature, native, cache>>
    BY <2>1, <2>2, AccountsKnows, ReadbackFirmly DEF AccountsFirm
  <2>4. call'.quiet => Accounts!Agrees(cache, native)'
    BY <2>1, <2>3 DEF AccountsFirm, Accounts!Agrees, Accounts!PolicyAgrees
  <2> QED BY <2>3, <2>4 DEF AccountsFirm
<1>4. CASE Accounts!Refuse \/ Accounts!Return
  BY <1>4, <1>b, AccountsSame, EndIs DEF AccountsInv
<1>5. CASE Accounts!Compare
  <2> DEFINE label == IF Accounts!Agrees(cache, Accounts!seen) THEN "next" ELSE "failed"
  <2>1. call # NoCall /\ call.pc = "compare" /\ Goto(label)
    BY <1>5, <1>a, AccountsSame, AccountsAt DEF Accounts!Compare
  <2>2. call.quiet => Accounts!Agrees(cache, native) /\ label = "next"
    BY <2>1, AccountsSeen, AccountsKnows DEF AccountsFirm
  <2>. HIDE DEF label
  <2>3. /\ Firm' /\ UNCHANGED <<feature, native, cache>> /\ call'.pc = label
        /\ \A f \in Fields \ {"pc"} : call'[f] = call[f]
    BY <2>1, <2>2, AccountsKnows, GotoFirmly DEF AccountsFirm
  <2>4. call'.quiet = call.quiet BY <2>3 DEF Fields
  <2>5. Accounts!Agrees(cache, native)' <=> Accounts!Agrees(cache, native)
    BY <2>3 DEF Accounts!Agrees, Accounts!PolicyAgrees
  <2> QED BY <2>2, <2>3, <2>4, <2>5 DEF AccountsFirm
<1>6. CASE Accounts!Complete
  <2>1. call # NoCall /\ call.pc = "next" /\ Goto("done")
    BY <1>6, <1>a, AccountsSame, AccountsAt DEF Accounts!Complete
  <2> QED BY <2>1, AccountsKnows, GotoFirmly DEF AccountsFirm
<1>7. CASE Accounts!Policy
  <2>1. Accounts!PolicyBegin \/ Accounts!PolicyWrite \/ Accounts!PolicyCreate BY <1>7 DEF Accounts!Policy
  <2>2. \E label \in {"start", "next", "create"} : Accounts!At(label)
    BY Zenon, <2>1 DEF Accounts!PolicyBegin, Accounts!PolicyWrite, Accounts!PolicyCreate
  <2>3. call # NoCall BY <2>2, <1>a
  <2> QED BY <1>7, <2>3, PolicyFirmly
<1>8. CASE Accounts!Server \/ Accounts!User
  <2>1. feature # "aaapolicy" /\ \E refused : Accounts!Account(refused)
    <3>1. CASE Accounts!Server
      <4>1. feature = "aaaserver" /\ Accounts!Account(Accounts!ServerRefused)
        BY <3>1, Zenon DEF Accounts!Server
      <4> QED BY <4>1
    <3>2. CASE Accounts!User
      <4>1. feature = "aaauser" /\ Accounts!Account(Accounts!UserRefused) BY <3>2, Zenon DEF Accounts!User
      <4> QED BY <4>1
    <3> QED BY <1>8, <3>1, <3>2
  <2>2. PICK refused : Accounts!Account(refused) BY <2>1
  <2>3. Accounts!At("start") BY <2>2, Zenon DEF Accounts!Account
  <2>4. call # NoCall BY <2>3, <1>a
  <2> QED BY <2>1, <2>2, <2>4, AccountFirmly
<1>9. CASE Accounts!Outside
  <2>1. PICK S : Interference(S) BY <1>9, AccountsSame DEF Accounts!Outside
  <2>2. CASE call = NoCall BY <1>b, <2>1, <2>2 DEF Interference, Idle
  <2>3. CASE call # NoCall BY <2>1, <2>3, AccountsKnows, InterferenceQuiet DEF AccountsFirm, Firm
  <2> QED BY <2>2, <2>3
<1>10. CASE Accounts!CacheSyncs
  <2>1. /\ UNCHANGED <<feature, native, unowned, call>>
        /\ call.pc # "create" \/ call = NoCall
        /\ cache' \in IF feature = "aaapolicy" THEN {native, [native EXCEPT !.dot1x = IF @ = 0 THEN 1 ELSE @]}
                      ELSE {native.entry}
    BY <1>10, AccountsSame, NothingCalled DEF Accounts!CacheSyncs
  <2>2. Accounts!Agrees(cache, native)'
    <3>1. CASE feature = "aaapolicy"
      <4>1. native \in [PolicyFields -> 0..2] BY <3>1 DEF AccountsInv, Held
      <4>2. cache' = native \/ (native.dot1x = 0 /\ cache' = [native EXCEPT !.dot1x = 1])
        BY <2>1, <3>1, <4>1 DEF PolicyFields
      <4> QED BY <2>1, <3>1, <4>2 DEF Accounts!Agrees, Accounts!PolicyAgrees
    <3>2. CASE feature # "aaapolicy"
      BY <2>1, <3>2 DEF Accounts!Agrees
    <3> QED BY <3>1, <3>2
  <2> QED BY <2>1, <2>2 DEF AccountsFirm, Firm
<1>11. CASE Accounts!Finished
  BY <1>11, AccountsSame DEF Finished, vars, switch, AccountsFirm, Firm, Accounts!Agrees,
     Accounts!PolicyAgrees
<1> QED BY <1>1, <1>2, <1>3, <1>4, <1>5, <1>6, <1>7, <1>8, <1>9, <1>10, <1>11
        DEF Accounts!Next, Accounts!Apply

LEMMA AccountsSucceed == ASSUME AccountsFirm PROVE Accounts!QuietCallSucceeds
<1>1. Fails => call # NoCall /\ (call.pc = "failed" \/ call.failed) BY NothingCalled DEF Fails
<1> QED BY <1>1, AccountsSame DEF AccountsFirm, Firm, Accounts!QuietCallSucceeds

-----------------------------------------------------------------------------
(* Authentication: an undisturbed call never lacks a prerequisite.         *)

\* A record, whose mode is one a port may have.
Whole(s) == s = [x \in AccessFields |-> s[x]] /\ s.control \in Access!Modes

\* A step is behind the call, and so is a feature that was to be disabled.
Done(step, s, job) ==
    /\ Achieved(step, s, job)
    /\ step.kind = "disable" => (job[step.field] = 0 => s[step.field] = 0)

GlobalFirm ==
    call.pc \in {"global", "readback"} =>
        \E n \in 1..9 : /\ call.todo = SubSeq(Access!GlobalSteps, n, 8)
                        /\ \A k \in 1..(n - 1) : Done(Access!GlobalSteps[k], native, call.job)

PortFirm ==
    call.pc \notin {"read", "start", "refused", "failed"} =>
        /\ \A x \in Access!Flags : call.job[x] = 1 => native[Access!GlobalOf(x)] = 1
        /\ call.pc = "readback" => call.then \in {"macPort", "actions", "mode", "modeset", "done"}
        /\ call.pc = "modeset" => call.job.control \notin cache
        /\ call.pc = "readback" => (call.then = "modeset" => call.job.control \notin cache)

AccessFirm ==
    /\ Firm /\ Whole(native)
    /\ call # NoCall /\ call.quiet =>
         /\ feature = "authglobal" => GlobalFirm
         /\ feature = "authport" => PortFirm

LEMMA StepsListed ==
    /\ DOMAIN Access!GlobalSteps = 1..8 /\ Len(Access!GlobalSteps) = 8
    /\ Access!GlobalSteps[1].kind = "clear" /\ Access!GlobalSteps[1].field = "action"
    /\ Access!GlobalSteps[2].kind = "disable" /\ Access!GlobalSteps[2].field = "dot1x"
    /\ Access!GlobalSteps[3].kind = "disable" /\ Access!GlobalSteps[3].field = "mac"
    /\ Access!GlobalSteps[4].kind = "set" /\ Access!GlobalSteps[4].field = "vlan"
    /\ Access!GlobalSteps[5].kind = "set" /\ Access!GlobalSteps[5].field = "restricted"
    /\ Access!GlobalSteps[6].kind = "set" /\ Access!GlobalSteps[6].field = "dot1x"
    /\ Access!GlobalSteps[7].kind = "set" /\ Access!GlobalSteps[7].field = "mac"
    /\ Access!GlobalSteps[8].kind = "apply" /\ Access!GlobalSteps[8].field = "action"
BY DEF Access!GlobalSteps, Access!Step

\* A configuration reads like itself, and the actions in force like suspended ones.
LEMMA ReadsAsItself ==
    ASSUME NEW s, s = [x \in AccessFields |-> s[x]]
    PROVE  /\ s \in Access!Indistinguishable(s)
           /\ s.action \in {1, 2} => \A a \in {1, 2} : [s EXCEPT !.action = a] \in Access!Indistinguishable(s)
<1>1. s = [s EXCEPT !.action = s.action] BY DEF AccessFields
<1>2. CASE s.action \in {1, 2}
  <2>1. Access!Indistinguishable(s) = {[s EXCEPT !.action = a] : a \in {1, 2}}
    BY <1>2 DEF Access!Indistinguishable
  <2> QED BY <1>1, <1>2, <2>1
<1>3. CASE s.action \notin {1, 2} BY <1>3 DEF Access!Indistinguishable
<1> QED BY <1>2, <1>3

\* The steps come in an order in which none lacks what a later one provides,
\* and none undoes what an earlier one did.
LEMMA StepsFollow ==
    ASSUME Runs(native), Whole(native), NEW job \in Access!GlobalJobs, NEW k \in 1..8,
           \A j \in 1..(k - 1) : Done(Access!GlobalSteps[j], native, job),
           job.dot1x = 0 => native.dot1xPort = 0, job.mac = 0 => native.macPort = 0,
           NEW step, step = Access!GlobalSteps[k],
           step.kind = "disable" => job[step.field] = 0,
           step.kind = "apply" => job.action = 1,
           NEW value, value = IF step.kind \in {"clear", "disable"} THEN 0 ELSE job[step.field]
    PROVE  /\ Access!Valid(Access!WithGlobal(step.field, value))
           /\ Whole(Access!WithGlobal(step.field, value))
           /\ Access!WithGlobal(step.field, value)
                \in Access!Indistinguishable([native EXCEPT ![step.field] = value])
           /\ \A j \in 1..k : Done(Access!GlobalSteps[j], Access!WithGlobal(step.field, value), job)
<1> DEFINE w == Access!WithGlobal(step.field, value)
<1>1. /\ DOMAIN job = GlobalFields /\ job.action \in 0..1
      /\ \A f \in GlobalFields \ {"action"} : job[f] \in 0..1
      /\ job.dot1x = 1 \/ job.mac = 1 => job.vlan = 1
      /\ job.action = 1 => job.restricted = 1
  BY JobsAre DEF Access!GlobalJobs
<1>2. /\ step.field \in GlobalFields /\ value \in 0..1
      /\ step.field \in {"dot1x", "mac"} /\ value = 0 => job[step.field] = 0
  BY <1>1, StepsListed DEF GlobalFields
<1>3. /\ DOMAIN w = AccessFields /\ w.member = native.member
      /\ w.dot1xPort = native.dot1xPort /\ w.macPort = native.macPort /\ w.control = native.control
      /\ w.action = IF step.field = "action" THEN IF value = 1 THEN 2 ELSE value ELSE native.action
      /\ \A f \in GlobalFields \ {step.field} : w[f] = native[f]
  <2>1. native.dot1xPort = 0 => native.control = "force-authorized" BY DEF Runs, Access!Valid
  <2> QED BY <1>2, <2>1, WithGlobalIs
<1>4. step.field # "action" => w[step.field] = value
  <2>1. /\ DOMAIN native = AccessFields /\ step.field \in AccessFields
    BY <1>2 DEF Runs, GlobalFields, AccessFields
  <2>2. CASE step.field # "action" /\ value = 1
    <3> DEFINE v == IF step.field = "action" /\ value = 1 THEN 2 ELSE value
               s == [native EXCEPT ![step.field] = v]
    <3>1. v = value BY <2>2
    <3>2. s[step.field] = v BY <2>1
    <3>3. w = CASE step.field = "dot1x" /\ value = 0 -> [s EXCEPT !.dot1xPort = 0, !.control = "force-authorized"]
                [] step.field = "mac" /\ value = 0 -> [s EXCEPT !.macPort = 0]
                [] OTHER -> s
      BY DEF Access!WithGlobal
    <3>. HIDE DEF s, v, w
    <3>4. w = s BY <2>2, <3>3
    <3> QED BY <3>1, <3>2, <3>4
  <2>3. CASE step.field # "action" /\ value = 0
    <3> DEFINE s == [native EXCEPT ![step.field] = value]
    <3>1. DOMAIN s = AccessFields /\ s[step.field] = value BY <2>1
    <3>2. w = CASE step.field = "dot1x" -> [s EXCEPT !.dot1xPort = 0, !.control = "force-authorized"]
                [] step.field = "mac" -> [s EXCEPT !.macPort = 0]
                [] OTHER -> s
      BY <2>3 DEF Access!WithGlobal
    <3>. HIDE DEF s, w
    <3> QED BY <2>3, <3>1, <3>2, <1>2 DEF AccessFields, GlobalFields
  <2> QED BY <1>2, <2>2, <2>3
<1>5. w = [x \in AccessFields |-> w[x]]
  <2>1. DOMAIN native = AccessFields BY DEF Runs
  <2> DEFINE s == [native EXCEPT ![step.field] = IF step.field = "action" /\ value = 1 THEN 2 ELSE value]
  <2>2. s = [x \in AccessFields |-> s[x]] BY <2>1
  <2>3. \/ w = [s EXCEPT !.dot1xPort = 0, !.control = "force-authorized"]
        \/ w = [s EXCEPT !.macPort = 0]
        \/ w = s
    BY DEF Access!WithGlobal
  <2>. HIDE DEF s, w
  <2>4. DOMAIN s = AccessFields BY <2>2
  <2> QED BY <2>2, <2>3, <2>4
<1>6. Whole(w) BY <1>3, <1>5 DEF Whole
<1>7. w \in Access!Indistinguishable([native EXCEPT ![step.field] = value])
  <2> DEFINE s == [native EXCEPT ![step.field] = value]
  <2>1. DOMAIN native = AccessFields BY DEF Runs
  <2>2. s = [x \in AccessFields |-> s[x]] /\ \A x \in AccessFields : s[x] = IF x = step.field THEN value ELSE native[x]
    BY <2>1
  <2>. HIDE DEF s, w
  <2>3. CASE step.field = "action" /\ value = 1
    <3>1. s.action = 1 BY <2>2, <2>3 DEF AccessFields
    <3> DEFINE t == [s EXCEPT !.action = 2]
    <3>2. t = [x \in AccessFields |-> IF x = "action" THEN 2 ELSE s[x]] BY <2>2
    <3>. HIDE DEF t
    <3>3. w = t
      <4>1. \A x \in AccessFields : w[x] = IF x = "action" THEN 2 ELSE s[x]
        BY <1>3, <2>2, <2>3 DEF AccessFields, GlobalFields
      <4> QED BY <1>5, <3>2, <4>1
    <3>4. t \in Access!Indistinguishable(s) BY <2>2, <3>1, ReadsAsItself DEF t
    <3> QED BY <3>3, <3>4 DEF s
  <2>4. CASE ~(step.field = "action" /\ value = 1)
    <3>1. \A x \in AccessFields : w[x] = s[x]
      BY <1>2, <1>3, <1>4, <2>2, <2>4 DEF AccessFields, GlobalFields
    <3>2. w = s BY <1>5, <2>2, <3>1
    <3>3. w \in Access!Indistinguishable(s) BY <2>2, <3>2, ReadsAsItself
    <3> QED BY <3>3 DEF s
  <2> QED BY <2>3, <2>4 DEF s
<1>. HIDE DEF w
<1>8. ASSUME NEW j \in 1..k PROVE Done(Access!GlobalSteps[j], w, job)
  <2> DEFINE other == Access!GlobalSteps[j]
  <2>1. other.kind \in {"clear", "disable", "set", "apply"} /\ other.field \in GlobalFields
    BY StepsListed DEF GlobalFields
  <2>2. CASE other.field # step.field
    <3>1. j # k BY <2>2
    <3>2. Done(other, native, job) BY <3>1
    <3>3. w[other.field] = native[other.field] BY <1>3, <2>1, <2>2
    <3>. HIDE DEF other
    <3>4. Done(other, w, job) BY <2>1, <3>2, <3>3 DEF Done, Achieved, Access!Present
    <3> QED BY <3>4 DEF other
  <2>3. CASE other.field = step.field
    <3>1. CASE step.kind \in {"set", "apply"}
      <4>1. /\ Access!Present(w, step.field) = job[step.field]
            /\ other.kind = "disable" => w[step.field] = job[step.field]
        BY <1>1, <1>2, <1>3, <1>4, <2>3, <3>1, StepsListed DEF Access!Present
      <4>. HIDE DEF other
      <4>2. Done(other, w, job) BY <2>1, <2>3, <4>1 DEF Done, Achieved
      <4> QED BY <4>2 DEF other
    <3>2. CASE step.kind \in {"clear", "disable"}
      <4>1. other.kind = step.kind /\ value = 0 BY <2>3, <3>2, StepsListed
      <4>2. w[step.field] = 0 BY <1>3, <1>4, <4>1
      <4>. HIDE DEF other
      <4>3. Done(other, w, job) BY <2>1, <2>3, <3>2, <4>1, <4>2 DEF Done, Achieved, Access!Present
      <4> QED BY <4>3 DEF other
    <3> QED BY <3>1, <3>2, StepsListed
  <2> QED BY <2>2, <2>3
<1>9. Access!Valid(w)
  <2>1. /\ native.dot1x = 1 \/ native.mac = 1 => native.vlan = 1
        /\ native.action # 0 => native.restricted = 1
        /\ native.dot1xPort <= native.dot1x /\ native.macPort <= native.mac
        /\ native.control # "force-authorized" => native.dot1xPort = 1
        /\ native.member = 1 => native.dot1xPort = 0 /\ native.macPort = 0
        /\ \A f \in {"dot1x", "mac", "dot1xPort", "macPort", "member"} : native[f] \in 0..1
    BY DEF Runs, Access!Valid
  <2>2. step.field \in {"dot1x", "mac"} => (value = 1 => native.vlan = 1)
    <3>1. ASSUME step.field \in {"dot1x", "mac"}, value = 1 PROVE native.vlan = 1
      <4>1. k \in {6, 7} /\ job[step.field] = 1 BY <3>1, StepsListed
      <4>2. job.vlan = 1 BY <1>1, <3>1, <4>1
      <4>3. Done(Access!GlobalSteps[4], native, job) BY <4>1
      <4> QED BY <4>2, <4>3, StepsListed DEF Done, Achieved, Access!Present
    <3> QED BY <3>1
  <2>3. step.field \in {"dot1x", "mac"} => (value = 0 => native[IF step.field = "mac" THEN "macPort" ELSE "dot1xPort"] = 0)
    BY <1>2
  <2>4. step.field = "vlan" => (value = 0 => native.dot1x = 0 /\ native.mac = 0)
    <3>1. ASSUME step.field = "vlan", value = 0 PROVE native.dot1x = 0 /\ native.mac = 0
      <4>1. k = 4 /\ job.vlan = 0 BY <3>1, StepsListed
      <4>2. job.dot1x = 0 /\ job.mac = 0 BY <1>1, <4>1 DEF GlobalFields
      <4>3. Done(Access!GlobalSteps[2], native, job) /\ Done(Access!GlobalSteps[3], native, job) BY <4>1
      <4> QED BY <4>2, <4>3, StepsListed DEF Done
    <3> QED BY <3>1
  <2>5. step.field = "restricted" => (value = 0 => native.action = 0)
    <3>1. ASSUME step.field = "restricted", value = 0 PROVE native.action = 0
      <4>1. k = 5 /\ job.restricted = 0 BY <3>1, StepsListed
      <4>2. job.action = 0 BY <1>1, <4>1
      <4>3. Done(Access!GlobalSteps[1], native, job) BY <4>1
      <4> QED BY <4>2, <4>3, StepsListed DEF Done, Achieved, Access!Present
    <3> QED BY <3>1
  <2>6. step.field = "action" => (value = 1 => native.restricted = 1)
    <3>1. ASSUME step.field = "action", value = 1 PROVE native.restricted = 1
      <4>1. k = 8 /\ job.action = 1 BY <3>1, StepsListed
      <4>2. job.restricted = 1 BY <1>1, <4>1
      <4>3. Done(Access!GlobalSteps[5], native, job) BY <4>1
      <4> QED BY <4>2, <4>3, StepsListed DEF Done, Achieved, Access!Present
    <3> QED BY <3>1
  <2> QED BY <1>2, <1>3, <1>4, <2>1, <2>2, <2>3, <2>4, <2>5, <2>6 DEF Access!Valid, GlobalFields
<1> QED BY <1>6, <1>7, <1>8, <1>9 DEF w

LEMMA WholeOutside ==
    ASSUME Runs(native), Whole(native), NEW x \in DOMAIN native, NEW v \in Access!Configurations
    PROVE  Whole([native EXCEPT ![x] = v[x]])
<1> DEFINE u == v[x]
           s == [native EXCEPT ![x] = u]
<1>1. DOMAIN native = AccessFields BY DEF Runs
<1>2. v.control \in Access!Modes BY DEF Access!Configurations
<1>3. u = v[x] OBVIOUS
<1>. HIDE DEF u
<1>4. s = [y \in AccessFields |-> IF y = x THEN u ELSE native[y]] BY <1>1
<1>. HIDE DEF s
<1>5. s = [y \in AccessFields |-> s[y]] BY <1>4
<1>6. s.control \in Access!Modes BY <1>2, <1>3, <1>4 DEF Whole, AccessFields
<1> QED BY <1>5, <1>6 DEF Whole, s, u

LEMMA TailOfTail ==
    ASSUME NEW S, NEW g \in Seq(S), NEW n \in 1..(Len(g) + 1), NEW i \in 1..(Len(g) + 1 - n)
    PROVE  SubSeq(SubSeq(g, n, Len(g)), i + 1, Len(g) + 1 - n) = SubSeq(g, n + i, Len(g))
<1> DEFINE l == Len(g)
           a == SubSeq(g, n, l)
           b == SubSeq(a, i + 1, l + 1 - n)
           d == SubSeq(g, n + i, l)
<1>1. l \in Nat /\ n \in 1..(l + 1) /\ i \in 1..(l + 1 - n) /\ \A j \in 1..l : g[j] \in S
  OBVIOUS
<1>2. a \in Seq(S) /\ Len(a) = l + 1 - n /\ \A j \in 1..(l + 1 - n) : a[j] = g[n + j - 1]
  <2>1. \A j \in n..l : g[j] \in S BY <1>1
  <2>2. /\ a \in Seq(S) /\ Len(a) = IF n <= l THEN l - n + 1 ELSE 0
        /\ \A j \in 1..(l - n + 1) : a[j] = g[n + j - 1]
    BY <1>1, <2>1
  <2>. HIDE DEF a, l
  <2> QED BY <1>1, <2>2
<1>3. d \in Seq(S) /\ Len(d) = l + 1 - n - i /\ \A j \in 1..(l + 1 - n - i) : d[j] = g[n + i + j - 1]
  <2>1. \A j \in (n + i)..l : g[j] \in S BY <1>1
  <2>2. n + i \in Int /\ l \in Int BY <1>1
  <2>3. /\ d \in Seq(S) /\ Len(d) = IF n + i <= l THEN l - (n + i) + 1 ELSE 0
        /\ \A j \in 1..(l - (n + i) + 1) : d[j] = g[n + i + j - 1]
    BY <2>1, <2>2
  <2>. HIDE DEF d, l
  <2> QED BY <1>1, <2>3
<1>. HIDE DEF a
<1>4. b \in Seq(S) /\ Len(b) = l + 1 - n - i /\ \A j \in 1..(l + 1 - n - i) : b[j] = a[i + j]
  <2>1. \A j \in (i + 1)..(l + 1 - n) : a[j] \in S BY <1>1, <1>2
  <2>2. i + 1 \in Int /\ l + 1 - n \in Int BY <1>1
  <2>3. /\ b \in Seq(S) /\ Len(b) = IF i + 1 <= l + 1 - n THEN l + 1 - n - (i + 1) + 1 ELSE 0
        /\ \A j \in 1..(l + 1 - n - (i + 1) + 1) : b[j] = a[i + 1 + j - 1]
    BY <2>1, <2>2
  <2>. HIDE DEF b, l
  <2>4. l + 1 - n - (i + 1) + 1 = l + 1 - n - i BY <1>1
  <2>5. \A j \in 1..(l + 1 - n - i) : i + 1 + j - 1 = i + j BY <1>1
  <2>6. Len(b) = l + 1 - n - i BY <1>1, <2>3
  <2> QED BY <2>3, <2>4, <2>5, <2>6
<1>. HIDE DEF b, d, l
<1>5. \A j \in 1..Len(b) : b[j] = d[j]
  <2> TAKE j \in 1..Len(b)
  <2>1. j \in 1..(l + 1 - n - i) /\ i + j \in 1..(l + 1 - n) /\ n + (i + j) - 1 = n + i + j - 1
    BY <1>1, <1>4
  <2> QED BY <1>2, <1>3, <1>4, <2>1
<1>6. b = d BY <1>3, <1>4, <1>5
<1> QED BY <1>6 DEF b, d, l, a

\* A request that the switch accepts has what it expects.
LEMMA AccessWritesFirmly ==
    ASSUME AccessInv, Firm, call # NoCall, call.pc # "read",
           NEW s, NEW x, NEW c, NEW expected, Access!Write(s, x, c, expected),
           DOMAIN c = Fields, c.quiet = call.quiet, c.failed = call.failed, c.others = call.others,
           call.quiet => Access!Valid(s) /\ s \in expected
    PROVE  /\ Firm' /\ UNCHANGED feature /\ native' \in {s, native}
           /\ call'.quiet => /\ call.quiet /\ native' = s /\ cache' = x /\ call'.pc = "readback"
                             /\ call'.todo = c.todo /\ call'.then = c.then /\ call'.job = c.job
<1> DEFINE r == [c EXCEPT !.pc = "readback", !.expect = expected]
           f == [r EXCEPT !.failed = TRUE]
<1>1. /\ DOMAIN r = Fields /\ r.quiet = call.quiet /\ r.failed = call.failed /\ r.others = call.others
      /\ r.pc = "readback" /\ r.then = c.then /\ r.todo = c.todo /\ r.job = c.job /\ r.expect = expected
  BY DEF Fields
<1>2. DOMAIN f = Fields /\ f.quiet = call.quiet
  BY DEF Fields
<1>3. IF Access!Valid(s) THEN Send({s}, x, r) ELSE Send({native}, cache, f)
  BY AccessSame DEF Access!Write
<1>. HIDE DEF r, f
<1>4. CASE Access!Valid(s)
  <2>1. UNCHANGED feature /\ native' \in {s, native} BY <1>1, <1>3, <1>4, AccessKnows, SendIs
  <2>2. /\ Firm'
        /\ call'.quiet => call.quiet /\ call' = r /\ native' \in {s} /\ cache' = x
    BY <1>1, <1>3, <1>4, AccessKnows, SendFirmly
  <2> QED BY <1>1, <2>1, <2>2
<1>5. CASE ~Access!Valid(s)
  <2>1. UNCHANGED feature /\ native' \in {s, native} BY <1>2, <1>3, <1>5, AccessKnows, SendIs
  <2>2. call'.quiet => call' = f BY <1>2, <1>3, <1>5, SendQuiet
  <2>3. ~call'.quiet BY <1>2, <1>5, <2>2
  <2> QED BY <2>1, <2>3 DEF Firm
<1> QED BY <1>4, <1>5

LEMMA GlobalFirmly ==
    ASSUME AccessInv, AccessQuiet, AccessFirm, call # NoCall, Access!Global
    PROVE  AccessFirm'
<1>1. feature = "authglobal" BY DEF Access!Global
<1>2. CASE Access!GlobalBegin
  <2>1. call.pc = "start" BY <1>2, AccessAt DEF Access!GlobalBegin
  <2>2. CASE Access!Goto("refused")
    <3>1. /\ Firm' /\ UNCHANGED <<feature, native>> /\ call'.pc = "refused"
      BY <2>1, <2>2, AccessSame, AccessKnows, GotoFirmly DEF AccessFirm
    <3> QED BY <1>1, <3>1 DEF AccessFirm, Whole, GlobalFirm, Access!Modes
  <2>3. CASE Access!Continue([call EXCEPT !.pc = "global", !.todo = Access!GlobalSteps])
    <3> DEFINE c == [call EXCEPT !.pc = "global", !.todo = Access!GlobalSteps]
    <3>1. /\ c.pc = "global" /\ c.todo = Access!GlobalSteps /\ c.quiet = call.quiet
          /\ c.failed = call.failed /\ c.others = call.others
      BY AccessKnows DEF Fields
    <3>2. Continue(c) BY <2>3, AccessSame
    <3>. HIDE DEF c
    <3>3. Firm' /\ call' = c /\ UNCHANGED <<feature, native>>
      BY <2>1, <3>1, <3>2, ContinueFirmly DEF AccessFirm
    <3>4. Access!GlobalSteps = SubSeq(Access!GlobalSteps, 1, 8)
      BY StepsAre, StepsListed
    <3>5. GlobalFirm'
      <4>1. \E n \in 1..9 : /\ call'.todo = SubSeq(Access!GlobalSteps, n, 8)
                            /\ \A k \in 1..(n - 1) : Done(Access!GlobalSteps[k], native, call.job)'
        <5> WITNESS 1 \in 1..9
        <5> QED BY <3>1, <3>3, <3>4
      <4> QED BY <4>1 DEF GlobalFirm, Access!GlobalSteps, Access!Step
    <3> QED BY <1>1, <3>3, <3>5 DEF AccessFirm, Whole, Access!Modes
  <2> QED BY <1>2, <2>2, <2>3 DEF Access!GlobalBegin
<1>3. CASE Access!GlobalWrite
  <2>1. call.pc = "global"
    <3>1. Access!At("global") BY <1>3, Zenon DEF Access!GlobalWrite
    <3> QED BY <3>1, AccessAt
  <2>2. CASE Access!Goto("done")
    <3>1. /\ Firm' /\ UNCHANGED <<feature, native>> /\ call'.pc = "done"
      BY <2>1, <2>2, AccessSame, AccessKnows, GotoFirmly DEF AccessFirm
    <3> QED BY <1>1, <3>1 DEF AccessFirm, Whole, GlobalFirm, Access!Modes
  <2>3. ASSUME NEW i \in DOMAIN call.todo, Access!Needed(call.todo[i]),
               \A j \in 1..(i - 1) : ~Access!Needed(call.todo[j]),
               NEW value, value = (IF call.todo[i].kind \in {"clear", "disable"} THEN 0
                                   ELSE Access!want[call.todo[i].field]),
               Access!Write(Access!WithGlobal(call.todo[i].field, value), cache,
                            [call EXCEPT !.then = "global", !.todo = SubSeq(@, i + 1, Len(@))],
                            Access!Indistinguishable([Access!seen EXCEPT ![call.todo[i].field] = value]))
        PROVE  AccessFirm'
    <3> DEFINE step == call.todo[i]
               rest == SubSeq(call.todo, i + 1, Len(call.todo))
               c == [call EXCEPT !.then = "global", !.todo = rest]
               w == Access!WithGlobal(step.field, value)
               e == Access!Indistinguishable([Access!seen EXCEPT ![step.field] = value])
    <3>1. /\ DOMAIN c = Fields /\ c.todo = rest /\ c.then = "global" /\ c.job = call.job
          /\ c.quiet = call.quiet /\ c.failed = call.failed /\ c.others = call.others
      BY AccessKnows DEF Fields
    <3>2. Access!Write(w, cache, c, e) BY <2>3, AccessKnows DEF Fields
    <3>w. Whole(w)
      <4> DEFINE s == [native EXCEPT ![step.field] = IF step.field = "action" /\ value = 1 THEN 2 ELSE value]
      <4>1. DOMAIN native = AccessFields BY DEF AccessInv, Runs
      <4>2. s = [x \in AccessFields |-> s[x]] BY <4>1
      <4>3. step.field \in GlobalFields BY StepsAre DEF AccessInv
      <4>4. w.control \in {"force-authorized", native.control}
        BY <4>3, WithGlobalIs DEF AccessInv
      <4>5. \/ w = [s EXCEPT !.dot1xPort = 0, !.control = "force-authorized"]
            \/ w = [s EXCEPT !.macPort = 0]
            \/ w = s
        BY DEF Access!WithGlobal
      <4>. HIDE DEF s, w
      <4>6. w = [x \in AccessFields |-> w[x]]
        <5>1. DOMAIN s = AccessFields BY <4>2
        <5> QED BY <4>2, <4>5, <5>1
      <4> QED BY <4>4, <4>6 DEF Whole, AccessFirm, Access!Modes
    <3>3. ASSUME call.quiet
          PROVE  /\ Access!Valid(w) /\ w \in e
                 /\ \E n \in 1..9 : /\ rest = SubSeq(Access!GlobalSteps, n, 8)
                                    /\ \A k \in 1..(n - 1) : Done(Access!GlobalSteps[k], w, call.job)
      <4>1. PICK n \in 1..9 : /\ call.todo = SubSeq(Access!GlobalSteps, n, 8)
                              /\ \A k \in 1..(n - 1) : Done(Access!GlobalSteps[k], native, call.job)
        BY <1>1, <2>1, <3>3 DEF AccessFirm, GlobalFirm
      <4> DEFINE k == n + i - 1
      <4>2. /\ Len(call.todo) = 9 - n /\ DOMAIN call.todo = 1..(9 - n)
            /\ \A j \in 1..(9 - n) : call.todo[j] = Access!GlobalSteps[n + j - 1]
        <5>1. \A j \in n..8 : Access!GlobalSteps[j] \in StepSet BY StepsListed DEF StepSet
        <5>2. /\ Len(call.todo) = IF n <= 8 THEN 8 - n + 1 ELSE 0
              /\ call.todo \in Seq(StepSet)
              /\ \A j \in 1..(8 - n + 1) : call.todo[j] = Access!GlobalSteps[n + j - 1]
          BY <4>1, <5>1
        <5> QED BY <5>2
      <4>3. k \in 1..8 /\ step = Access!GlobalSteps[k] BY <4>2
      <4>4. rest = SubSeq(Access!GlobalSteps, k + 1, 8)
        <5>1. rest = SubSeq(SubSeq(Access!GlobalSteps, n, 8), i + 1, 9 - n) BY <4>1, <4>2
        <5> DEFINE g == Access!GlobalSteps
        <5>2. g \in Seq(StepSet) /\ Len(g) = 8 BY StepsAre, StepsListed
        <5>3. n \in 1..(8 + 1) /\ i \in 1..(8 + 1 - n) /\ 8 + 1 - n = 9 - n /\ n + i = k + 1
          BY <4>2
        <5>. HIDE DEF g, k
        <5>4. SubSeq(SubSeq(g, n, 8), i + 1, 9 - n) = SubSeq(g, k + 1, 8)
          BY <5>2, <5>3, TailOfTail
        <5> QED BY <5>1, <5>4 DEF g
      <4>5. /\ call.seen = native /\ call.job \in Access!GlobalJobs
            /\ Access!seen = call.seen /\ Access!want = call.job
        BY <1>1, <2>1, <3>3, AccessKnows, QuietSees DEF Unlooked
      <4>6. \A j \in 1..(k - 1) : Done(Access!GlobalSteps[j], native, call.job)
        <5> TAKE j \in 1..(k - 1)
        <5>1. CASE j < n BY <4>1, <5>1
        <5>2. CASE j >= n
          <6> DEFINE m == j - n + 1
          <6>0. i \in 1..(9 - n) /\ j \in Int /\ j <= n + i - 2 BY <4>2
          <6>1. m \in 1..(i - 1) /\ m \in 1..(9 - n) /\ n + m - 1 = j BY <5>2, <6>0
          <6>2. ~Access!Needed(call.todo[m]) /\ call.todo[m] = Access!GlobalSteps[j]
            BY <2>3, <4>2, <6>1
          <6>3. j \in 1..8 /\ Access!GlobalSteps[j] \in StepSet BY <4>3, StepsListed DEF StepSet
          <6>4. Achieved(Access!GlobalSteps[j], native, call.job) BY <4>5, <6>2, <6>3, NotNeeded
          <6>5. Access!GlobalSteps[j].kind = "disable" =>
                  native[Access!GlobalSteps[j].field] # 1 \/ call.job[Access!GlobalSteps[j].field] # 0
            BY <4>5, <6>2, <6>3, StepsAre DEF Access!Needed, Access!Present
          <6>6. native.dot1x \in 0..1 /\ native.mac \in 0..1 BY DEF AccessInv, Runs
          <6> QED BY <6>3, <6>4, <6>5, <6>6, StepsAre DEF Done
        <5> QED BY <4>3, <5>1, <5>2
      <4>7. /\ call.job.dot1x = 0 => native.dot1xPort = 0
            /\ call.job.mac = 0 => native.macPort = 0
        BY <1>1, <2>1, <3>3 DEF AccessQuiet, GlobalQuiet
      <4>8. /\ step.kind = "disable" => call.job[step.field] = 0
            /\ step.kind = "apply" => call.job.action = 1
        <5>1. Access!Needed(step) /\ step \in StepSet BY <2>3 DEF AccessInv
        <5>2. call.job.action \in 0..1 BY <4>5, JobsAre
        <5>3. step.kind = "disable" => call.job[step.field] = 0
          BY <4>5, <5>1 DEF Access!Needed
        <5>4. step.kind = "apply" => step.field = "action" /\ call.job[step.field] # 0
          BY <4>5, <5>1, StepsAre DEF Access!Needed
        <5> QED BY <5>2, <5>3, <5>4
      <4>9. value = IF step.kind \in {"clear", "disable"} THEN 0 ELSE call.job[step.field]
        BY <2>3, <4>5
      <4>10. Runs(native) /\ Whole(native) BY DEF AccessInv, AccessFirm
      <4>. HIDE DEF k, step, rest, c
      <4>11. /\ Access!Valid(w)
             /\ w \in Access!Indistinguishable([native EXCEPT ![step.field] = value])
             /\ \A j \in 1..k : Done(Access!GlobalSteps[j], w, call.job)
        BY <4>3, <4>5, <4>6, <4>7, <4>8, <4>9, <4>10, StepsFollow
      <4>12. k + 1 \in 1..9 /\ (k + 1) - 1 = k BY <4>3
      <4>13. w \in e BY <4>5, <4>11
      <4> QED BY <4>4, <4>11, <4>12, <4>13
    <3>. HIDE DEF c, w, e, rest, step
    <3>4. /\ Firm' /\ UNCHANGED feature /\ native' \in {w, native}
          /\ call'.quiet => /\ call.quiet /\ native' = w /\ cache' = cache /\ call'.pc = "readback"
                            /\ call'.todo = rest /\ call'.then = "global" /\ call'.job = call.job
      BY <2>1, <3>1, <3>2, <3>3, AccessWritesFirmly DEF AccessFirm
    <3>5. Whole(native') BY <3>4, <3>w DEF AccessFirm
    <3>6. call'.quiet => GlobalFirm'
      <4>1. call'.quiet => \E n \in 1..9 : /\ call'.todo = SubSeq(Access!GlobalSteps, n, 8)
                                          /\ \A k \in 1..(n - 1) : Done(Access!GlobalSteps[k], native', call'.job)
        BY <3>3, <3>4
      <4> QED BY <4>1, Zenon DEF GlobalFirm, Done, Achieved, Access!Present, Access!GlobalSteps, Access!Step
    <3> QED BY <1>1, <3>4, <3>5, <3>6 DEF AccessFirm, Whole, Access!Modes
  <2> QED BY <1>3, <2>2, <2>3, Zenon DEF Access!GlobalWrite
<1> QED BY <1>2, <1>3 DEF Access!Global

PortLabels == {"dot1xPort", "macPort", "actions", "mode", "modeset"}

\* What an undisturbed call on a port knows between its requests.
LEMMA PortFirmlyKnows ==
    ASSUME AccessInv, AccessQuiet, AccessFirm, call # NoCall, call.quiet, feature = "authport",
           call.pc \in PortLabels
    PROVE  /\ call.seen = native /\ Access!seen = native /\ Access!want = call.job
           /\ call.job \in Access!PortJobs
           /\ \A x \in Access!Flags : call.job[x] = 1 => native[Access!GlobalOf(x)] = 1
           /\ call.job.dot1xPort = 1 \/ call.job.macPort = 1 => native.member = 0
           /\ call.pc = "modeset" => call.job.control \notin cache
           /\ call.pc = "modeset" => native.dot1xPort = call.job.dot1xPort
<1>1. call.pc \notin Unlooked BY DEF PortLabels, Unlooked
<1>2. PortQuiet /\ PortFirm BY DEF AccessQuiet, AccessFirm
<1>3. Reached(call, call.pc, call.seen) BY DEF AccessInv
<1> QED BY <1>1, <1>2, <1>3, AccessKnows, QuietSees DEF PortQuiet, PortFirm, PortLabels, Reached

\* A request that changes nothing of the global settings and goes on to `to`.
LEMMA PortWritesFirmly ==
    ASSUME AccessInv, AccessQuiet, AccessFirm, call # NoCall, feature = "authport",
           call.pc \in PortLabels,
           NEW s, NEW x, NEW to \in {"macPort", "actions", "mode", "done"}, NEW expected,
           Access!Write(s, x, Access!Then(to), expected), Whole(s),
           call.quiet => Access!Valid(s) /\ s \in expected /\ s.dot1x = native.dot1x /\ s.mac = native.mac
    PROVE  AccessFirm'
<1> DEFINE c == Access!Then(to)
<1>1. /\ DOMAIN c = Fields /\ c.then = to /\ c.job = call.job
      /\ c.quiet = call.quiet /\ c.failed = call.failed /\ c.others = call.others
  BY AccessKnows DEF Fields, Access!Then
<1>2. Access!Write(s, x, c, expected) OBVIOUS
<1>. HIDE DEF c
<1>3. call.pc # "read" BY DEF PortLabels
<1>4. /\ Firm' /\ UNCHANGED feature /\ native' \in {s, native}
      /\ call'.quiet => /\ call.quiet /\ native' = s /\ call'.pc = "readback"
                        /\ call'.then = to /\ call'.job = call.job
  BY <1>1, <1>2, <1>3, AccessWritesFirmly DEF AccessFirm
<1>5. Whole(native') BY <1>4 DEF AccessFirm
<1>6. call'.quiet => PortFirm'
  <2>1. call'.quiet => \A f \in Access!Flags : call'.job[f] = 1 => native'[Access!GlobalOf(f)] = 1
    BY <1>4, PortFirmlyKnows DEF Access!Flags, Access!GlobalOf
  <2> QED BY <1>4, <2>1 DEF PortFirm, Access!Flags, Access!GlobalOf
<1> QED BY <1>4, <1>5, <1>6 DEF AccessFirm, Whole, Access!Modes

LEMMA PortGoesFirmly ==
    ASSUME AccessInv, AccessQuiet, AccessFirm, call # NoCall, feature = "authport",
           call.pc \in {"start"} \union PortLabels, NEW label, Access!Goto(label),
           label \in {"refused", "dot1xPort", "macPort", "actions", "mode", "done"},
           call.quiet /\ label # "refused" =>
               \A x \in Access!Flags : call.job[x] = 1 => native[Access!GlobalOf(x)] = 1
    PROVE  AccessFirm'
<1>1. call.pc # "read" BY DEF PortLabels
<1>2. /\ Firm' /\ UNCHANGED <<feature, native, cache>> /\ call'.pc = label
      /\ \A f \in Fields \ {"pc"} : call'[f] = call[f]
  BY <1>1, AccessSame, AccessKnows, GotoFirmly DEF AccessFirm
<1>3. call'.quiet = call.quiet /\ call'.job = call.job BY <1>2 DEF Fields
<1>4. call'.quiet => PortFirm'
  BY <1>2, <1>3 DEF PortFirm, Access!Flags, Access!GlobalOf
<1> QED BY <1>2, <1>4 DEF AccessFirm, Whole, Access!Modes

\* Nothing the port needs is missing once the call was not refused.
LEMMA FlagsAreValid ==
    ASSUME Runs(native), Whole(native), NEW x \in Access!Flags, NEW v \in 0..1,
           v = 1 => native[Access!GlobalOf(x)] = 1 /\ native.member = 0
    PROVE  LET w == Access!WithPort(x, v)
               s == [native EXCEPT ![x] = v,
                        !.control = IF x = "dot1xPort" /\ v = 0 THEN "force-authorized" ELSE native.control]
           IN  /\ Access!Valid(w) /\ Whole(w) /\ w \in Access!Indistinguishable(s)
               /\ w.dot1x = native.dot1x /\ w.mac = native.mac
<1> DEFINE a == IF native.action = 2 THEN 1 ELSE native.action
           m == IF v = 1 THEN 0 ELSE native.member
           o == IF x = "dot1xPort" /\ v = 0 THEN "force-authorized" ELSE native.control
           w == [native EXCEPT ![x] = v, !.action = a, !.member = m, !.control = o]
           s == [native EXCEPT ![x] = v, !.control = o]
<1>1. Access!WithPort(x, v) = w BY DEF Access!WithPort
<1>2. DOMAIN native = AccessFields /\ x \in {"dot1xPort", "macPort"} BY DEF Runs, Access!Flags
<1>3. m = native.member /\ o \in Access!Modes BY DEF Runs, Whole, Access!Modes
<1>. HIDE DEF a, m, o
<1>4. /\ w = [f \in AccessFields |-> IF f = x THEN v ELSE IF f = "action" THEN a
                                    ELSE IF f = "member" THEN m ELSE IF f = "control" THEN o ELSE native[f]]
      /\ s = [f \in AccessFields |-> IF f = x THEN v ELSE IF f = "control" THEN o ELSE native[f]]
  BY <1>2 DEF AccessFields
<1>. HIDE DEF w, s
<1>5. /\ w[x] = v /\ w.action = a /\ w.member = native.member /\ w.control = o
      /\ \A f \in {"vlan", "restricted", "dot1x", "mac"} : w[f] = native[f]
      /\ \A f \in {"dot1xPort", "macPort"} : f # x => w[f] = native[f]
  BY <1>2, <1>3, <1>4 DEF AccessFields
<1>6. w = [f \in AccessFields |-> w[f]] /\ s = [f \in AccessFields |-> s[f]] BY <1>4
<1>7. Whole(w) BY <1>3, <1>5, <1>6 DEF Whole
<1>8. w \in Access!Indistinguishable(s)
  <2>1. w = [s EXCEPT !.action = a] BY <1>2, <1>3, <1>4 DEF AccessFields
  <2>2. s.action = native.action BY <1>2, <1>4 DEF AccessFields
  <2>3. CASE native.action \in {1, 2} BY <1>6, <2>1, <2>2, <2>3, ReadsAsItself DEF a
  <2>4. CASE native.action \notin {1, 2}
    <3>1. a = s.action BY <2>2, <2>4 DEF a
    <3>2. w = s BY <1>6, <2>1, <3>1
    <3> QED BY <1>6, <3>2, ReadsAsItself
  <2> QED BY <2>3, <2>4
<1>9. Access!Valid(w)
  <2>1. /\ native.dot1x = 1 \/ native.mac = 1 => native.vlan = 1
        /\ native.action # 0 => native.restricted = 1
        /\ native.dot1xPort <= native.dot1x /\ native.macPort <= native.mac
        /\ native.control # "force-authorized" => native.dot1xPort = 1
        /\ native.member = 1 => native.dot1xPort = 0 /\ native.macPort = 0
        /\ \A f \in {"dot1x", "mac", "dot1xPort", "macPort", "member"} : native[f] \in 0..1
    BY DEF Runs, Access!Valid
  <2>2. a # 0 => native.action # 0 BY DEF a
  <2>3. x = "dot1xPort" => (v = 0 => o = "force-authorized") BY DEF o
  <2>4. ~(x = "dot1xPort" /\ v = 0) => o = native.control BY DEF o
  <2>5. x = "dot1xPort" => (v = 1 => native.dot1x = 1) BY DEF Access!GlobalOf
  <2>6. x = "macPort" => (v = 1 => native.mac = 1) BY DEF Access!GlobalOf
  <2> QED BY <1>2, <1>5, <2>1, <2>2, <2>3, <2>4, <2>5, <2>6 DEF Access!Valid
<1> QED BY <1>1, <1>5, <1>7, <1>8, <1>9 DEF s, o

LEMMA PortBeginFirmly ==
    ASSUME AccessInv, AccessQuiet, AccessFirm, call # NoCall, feature = "authport", Access!PortBegin
    PROVE  AccessFirm'
<1> DEFINE label == IF Access!PortRefused THEN "refused" ELSE "dot1xPort"
<1>1. call.pc = "start" /\ Access!Goto(label)
  <2>1. Access!At("start") /\ Access!Goto(label) BY Zenon DEF Access!PortBegin
  <2> QED BY <2>1, AccessAt
<1>2. label \in {"refused", "dot1xPort"} OBVIOUS
<1>3. call.quiet /\ label # "refused" =>
        \A x \in Access!Flags : call.job[x] = 1 => native[Access!GlobalOf(x)] = 1
  <2>1. call.quiet => call.seen = native BY <1>1, QuietSees DEF Unlooked
  <2>2. label # "refused" => \A x \in Access!Flags : ~(call.job[x] = 1 /\ call.seen[Access!GlobalOf(x)] = 0)
    BY AccessKnows DEF Access!PortRefused
  <2>3. \A x \in Access!Flags : native[Access!GlobalOf(x)] \in 0..1
    BY DEF AccessInv, Runs, Access!Flags, Access!GlobalOf
  <2>. HIDE DEF label
  <2> QED BY <2>1, <2>2, <2>3
<1>. HIDE DEF label
<1> QED BY <1>1, <1>2, <1>3, PortGoesFirmly

LEMMA PortFlagFirmly ==
    ASSUME AccessInv, AccessQuiet, AccessFirm, call # NoCall, feature = "authport", Access!PortFlag
    PROVE  AccessFirm'
<1> DEFINE label(x) == IF x = "dot1xPort" THEN "macPort" ELSE "actions"
           mode(x) == IF x = "dot1xPort" /\ Access!want[x] = 0 THEN "force-authorized" ELSE Access!seen.control
           expected(x) == [Access!seen EXCEPT ![x] = Access!want[x], !.control = mode(x)]
<1>1. PICK x \in {"dot1xPort", "macPort"} :
        /\ Access!At(x)
        /\ IF Access!seen[x] = Access!want[x] THEN Access!Goto(label(x))
           ELSE Access!Write(Access!WithPort(x, Access!want[x]), cache, Access!Then(label(x)),
                             Access!Indistinguishable(expected(x)))
  BY Zenon DEF Access!PortFlag, Access!Flags
<1>2. call.pc = x /\ x \in Access!Flags
  <2>1. Access!At(x) BY <1>1
  <2> QED BY <2>1, AccessAt DEF Access!Flags
<1>3. Access!want[x] \in 0..1 BY AccessKnows, JobsAre
<1>4. label(x) \in {"macPort", "actions"} OBVIOUS
<1>5. CASE Access!Goto(label(x))
  <2> DEFINE to == label(x)
  <2>1. to \in {"macPort", "actions"} /\ Access!Goto(to) BY <1>4, <1>5
  <2>. HIDE DEF to
  <2> QED BY <1>2, <2>1, PortFirmlyKnows, PortGoesFirmly DEF PortLabels
<1>6. CASE Access!Write(Access!WithPort(x, Access!want[x]), cache, Access!Then(label(x)),
                        Access!Indistinguishable(expected(x)))
  <2> DEFINE v == Access!want[x]
             w == Access!WithPort(x, v)
             e == Access!Indistinguishable(expected(x))
             to == label(x)
  <2>1. call.quiet => /\ v = 1 => native[Access!GlobalOf(x)] = 1 /\ native.member = 0
                      /\ Access!seen = native
    BY <1>2, PortFirmlyKnows DEF PortLabels
  <2>2. Runs(native) /\ Whole(native) /\ v \in 0..1 BY <1>3 DEF AccessInv, AccessFirm
  <2>3. call.quiet => Access!Valid(w) /\ w \in e /\ w.dot1x = native.dot1x /\ w.mac = native.mac
    <3> SUFFICES ASSUME call.quiet
                 PROVE  Access!Valid(w) /\ w \in e /\ w.dot1x = native.dot1x /\ w.mac = native.mac
      OBVIOUS
    <3> DEFINE s == [native EXCEPT ![x] = v,
                        !.control = IF x = "dot1xPort" /\ v = 0 THEN "force-authorized" ELSE native.control]
    <3>1. expected(x) = s BY <2>1
    <3>2. v = 1 => native[Access!GlobalOf(x)] = 1 /\ native.member = 0 BY <2>1
    <3>. HIDE DEF v, expected
    <3>3. Access!Valid(w) /\ w \in Access!Indistinguishable(s) /\ w.dot1x = native.dot1x /\ w.mac = native.mac
      BY <1>2, <2>2, <3>2, FlagsAreValid
    <3> QED BY <3>1, <3>3
  <2>4. Whole(w)
    <3> DEFINE a == IF native.action = 2 THEN 1 ELSE native.action
               m == IF v = 1 THEN 0 ELSE native.member
               o == IF x = "dot1xPort" /\ v = 0 THEN "force-authorized" ELSE native.control
               u == [native EXCEPT ![x] = v, !.action = a, !.member = m, !.control = o]
    <3>1. w = u BY DEF Access!WithPort
    <3>2. o \in Access!Modes BY <2>2 DEF Whole, Access!Modes
    <3>3. DOMAIN native = AccessFields BY <2>2 DEF Runs
    <3>. HIDE DEF a, m, o, v, w
    <3>4. u = [f \in AccessFields |-> IF f = "control" THEN o ELSE u[f]] BY <3>3 DEF AccessFields
    <3>. HIDE DEF u
    <3>5. u.control = o /\ u = [f \in AccessFields |-> u[f]]
      BY <3>4 DEF AccessFields
    <3> QED BY <3>1, <3>2, <3>5 DEF Whole
  <2>5. Access!Write(w, cache, Access!Then(to), e) BY <1>6
  <2>6. to \in {"macPort", "actions", "mode", "done"} /\ call.pc \in PortLabels BY <1>2, <1>4 DEF PortLabels
  <2>. HIDE DEF w, e, to, v
  <2> QED BY <2>3, <2>4, <2>5, <2>6, PortWritesFirmly
<1> QED BY <1>1, <1>5, <1>6

LEMMA PortActionsFirmly ==
    ASSUME AccessInv, AccessQuiet, AccessFirm, call # NoCall, feature = "authport", Access!PortActions
    PROVE  AccessFirm'
<1>1. call.pc = "actions"
  <2>1. Access!At("actions") BY Zenon DEF Access!PortActions
  <2> QED BY <2>1, AccessAt
<1>2. CASE Access!Goto("mode")
  BY <1>1, <1>2, PortFirmlyKnows, PortGoesFirmly DEF PortLabels
<1>3. CASE Access!Reapplied /\ Access!Write(Access!WithGlobal("action", 1), cache, Access!Then("mode"),
                                            Access!Indistinguishable(Access!seen))
  <2> DEFINE w == Access!WithGlobal("action", 1)
             e == Access!Indistinguishable(Access!seen)
  <2>1. w = [native EXCEPT !.action = 2] BY DEF Access!WithGlobal
  <2>2. DOMAIN native = AccessFields BY DEF AccessInv, Runs
  <2>3. w = [f \in AccessFields |-> IF f = "action" THEN 2 ELSE native[f]] BY <2>1, <2>2
  <2>4. call.quiet => Access!seen = native /\ native.action \in {1, 2}
    BY <1>1, <1>3, PortFirmlyKnows DEF PortLabels, Access!Reapplied
  <2>5. call.quiet => w \in e
    <3>1. native = [f \in AccessFields |-> native[f]] BY DEF AccessFirm, Whole
    <3> QED BY <2>1, <2>4, <3>1, ReadsAsItself
  <2>. HIDE DEF w, e
  <2>6. /\ w = [f \in AccessFields |-> w[f]] /\ w.action = 2
        /\ \A f \in AccessFields \ {"action"} : w[f] = native[f]
    BY <2>3 DEF AccessFields
  <2>7. Whole(w) BY <2>6 DEF Whole, AccessFirm, AccessFields
  <2>8. call.quiet => Access!Valid(w)
    <3>1. Access!Valid(native) BY DEF AccessInv, Runs
    <3> QED BY <2>4, <2>6, <3>1 DEF Access!Valid, AccessFields
  <2>9. w.dot1x = native.dot1x /\ w.mac = native.mac BY <2>6 DEF AccessFields
  <2>10. Access!Write(w, cache, Access!Then("mode"), e) BY <1>3 DEF w, e
  <2> QED BY <1>1, <2>5, <2>7, <2>8, <2>9, <2>10, PortWritesFirmly DEF PortLabels
<1> QED BY <1>2, <1>3, Zenon DEF Access!PortActions

LEMMA WholeControl ==
    ASSUME Runs(native), Whole(native), NEW mode \in Access!Modes
    PROVE  LET w == Access!WithControl(mode)
           IN  /\ Whole(w) /\ w.control = mode
               /\ \A f \in AccessFields \ {"control"} : w[f] = native[f]
<1> DEFINE w == Access!WithControl(mode)
<1>1. DOMAIN native = AccessFields BY DEF Runs
<1>2. w = [f \in AccessFields |-> IF f = "control" THEN mode ELSE native[f]] BY <1>1 DEF Access!WithControl
<1>. HIDE DEF w
<1> QED BY <1>2 DEF Whole, AccessFields, w

LEMMA PortModeFirmly ==
    ASSUME AccessInv, AccessQuiet, AccessFirm, call # NoCall, feature = "authport", Access!PortMode
    PROVE  AccessFirm'
<1> DEFINE e == UNION {Access!Indistinguishable([Access!seen EXCEPT !.control = m]) : m \in Access!Modes}
           S == IF Access!want.control \in cache THEN {native, Access!WithControl("force-authorized")} ELSE {native}
           x == cache \ {Access!want.control}
           c == [call EXCEPT !.pc = "readback", !.then = "modeset", !.expect = e]
<1>1. call.pc = "mode" BY AccessAt DEF Access!PortMode
<1>2. \/ Access!Goto("done")
      \/ Send(S, x, c)
  <2>1. Access!Goto("done") \/ Access!Request(S, x, "modeset", e) BY Zenon DEF Access!PortMode
  <2>2. Access!Request(S, x, "modeset", e) => Request(S, x, "modeset", e) BY AccessSame
  <2>. HIDE DEF S, x, e
  <2> QED BY <2>1, <2>2 DEF Request
<1>3. CASE Access!Goto("done")
  BY <1>1, <1>3, PortFirmlyKnows, PortGoesFirmly DEF PortLabels
<1>4. CASE Send(S, x, c)
  <2>1. /\ DOMAIN c = Fields /\ c.pc = "readback" /\ c.then = "modeset" /\ c.expect = e /\ c.job = call.job
        /\ c.quiet = call.quiet /\ c.failed = call.failed /\ c.others = call.others
    BY AccessKnows DEF Fields
  <2>2. Whole(native) /\ Runs(native) BY DEF AccessFirm, AccessInv
  <2>3. \A s \in S : Whole(s) /\ s.dot1x = native.dot1x /\ s.mac = native.mac
    BY <2>2, WholeControl DEF Access!Modes, AccessFields
  <2>4. call.quiet => S \subseteq e
    <3> SUFFICES ASSUME call.quiet, NEW s \in S PROVE s \in e OBVIOUS
    <3>1. Access!seen = native BY <1>1, PortFirmlyKnows DEF PortLabels
    <3>2. s.control \in Access!Modes /\ s = [f \in AccessFields |-> s[f]] BY <2>3 DEF Whole
    <3>3. s = [native EXCEPT !.control = s.control]
      <4>1. \A f \in AccessFields \ {"control"} : s[f] = native[f]
        BY <2>2, WholeControl DEF Access!Modes
      <4>2. DOMAIN native = AccessFields BY <2>2 DEF Runs
      <4> QED BY <3>2, <4>1, <4>2
    <3>4. s \in Access!Indistinguishable(s) BY <3>2, ReadsAsItself
    <3>. HIDE DEF S
    <3> QED BY <3>1, <3>2, <3>3, <3>4
  <2>5. Access!want.control \notin x /\ Access!want = call.job BY AccessKnows
  <2>. HIDE DEF S, x, e, c
  <2>6. /\ Firm'
        /\ call'.quiet => call.quiet /\ call' = c /\ native' \in S /\ cache' = x
    BY <1>1, <1>4, <2>1, <2>4, AccessKnows, SendFirmly DEF AccessFirm
  <2>7. UNCHANGED feature /\ native' \in S \union {native}
    BY <1>4, <2>1, AccessKnows, SendIs
  <2>8. Whole(native') BY <2>2, <2>3, <2>7
  <2>9. call'.quiet => PortFirm'
    <3>1. call'.quiet => \A f \in Access!Flags : call'.job[f] = 1 => native'[Access!GlobalOf(f)] = 1
      BY <1>1, <2>1, <2>3, <2>6, PortFirmlyKnows DEF Access!Flags, Access!GlobalOf, PortLabels
    <3> QED BY <2>1, <2>5, <2>6, <3>1 DEF PortFirm, Access!Flags, Access!GlobalOf
  <2> QED BY <2>6, <2>7, <2>8, <2>9 DEF AccessFirm, Whole, Access!Modes
<1> QED BY <1>2, <1>3, <1>4

LEMMA PortModeSetFirmly ==
    ASSUME AccessInv, AccessQuiet, AccessFirm, call # NoCall, feature = "authport", Access!PortModeSet
    PROVE  AccessFirm'
<1> DEFINE w == Access!WithControl(Access!want.control)
           S == {s \in {native, w} : Access!Valid(s)}
           e == Access!Indistinguishable([Access!seen EXCEPT !.control = Access!want.control])
           x == cache \union {Access!want.control}
<1>1. call.pc = "modeset"
  <2>1. Access!At("modeset") BY Zenon DEF Access!PortModeSet
  <2> QED BY <2>1, AccessAt
<1>2. \/ Access!want.control \in cache /\ Access!Request(S, cache, "done", e)
      \/ Access!Write(w, x, Access!Then("done"), e)
  BY Zenon DEF Access!PortModeSet
<1>3. Runs(native) /\ Whole(native) /\ Access!want.control \in Access!Modes
  BY AccessKnows, JobsAre DEF AccessInv, AccessFirm
<1>4. /\ Whole(w) /\ w.control = Access!want.control
      /\ \A f \in AccessFields \ {"control"} : w[f] = native[f]
  BY <1>3, WholeControl
<1>5. CASE Access!want.control \in cache /\ Access!Request(S, cache, "done", e)
  <2>1. Access!Request(S, cache, "done", e) /\ ~call.quiet
    BY <1>1, <1>5, PortFirmlyKnows DEF PortLabels
  <2>2. Whole(native) /\ \A s \in S : Whole(s) BY <1>3, <1>4
  <2> DEFINE c == [call EXCEPT !.pc = "readback", !.then = "done", !.expect = e]
  <2>3. DOMAIN c = Fields /\ c.quiet = call.quiet BY AccessKnows DEF Fields
  <2>. HIDE DEF S, e
  <2>4. Send(S, cache, c)
    <3>1. Request(S, cache, "done", e) BY <2>1, AccessSame
    <3> QED BY <3>1 DEF Request
  <2>. HIDE DEF c
  <2>5. UNCHANGED feature /\ native' \in S \union {native} BY <2>3, <2>4, AccessKnows, SendIs
  <2>6. ~call'.quiet
    <3>1. call'.quiet => call' = c BY <2>3, <2>4, SendQuiet
    <3> QED BY <2>1, <2>3, <3>1
  <2>7. Whole(native') BY <2>2, <2>5
  <2> QED BY <2>5, <2>6, <2>7 DEF AccessFirm, Firm, Whole, Access!Modes
<1>6. CASE Access!Write(w, x, Access!Then("done"), e)
  <2>1. call.quiet => Access!Valid(w)
    <3>1. ASSUME call.quiet PROVE Access!Valid(w)
      <4>1. /\ native.dot1xPort = call.job.dot1xPort /\ Access!want = call.job /\ call.job \in Access!PortJobs
        BY <1>1, <3>1, PortFirmlyKnows DEF PortLabels
      <4>2. w.control # "force-authorized" => native.dot1xPort = 1 BY <1>4, <4>1, JobsAre
      <4>3. Access!Valid(native) BY <1>3 DEF Runs
      <4>. HIDE DEF w
      <4> QED BY <1>4, <4>2, <4>3 DEF Access!Valid, AccessFields
    <3> QED BY <3>1
  <2>2. call.quiet => w \in e
    <3>1. call.quiet => e = Access!Indistinguishable([native EXCEPT !.control = Access!want.control])
      BY <1>1, PortFirmlyKnows DEF PortLabels
    <3>2. w \in Access!Indistinguishable(w) BY <1>4, ReadsAsItself DEF Whole
    <3> QED BY <3>1, <3>2 DEF Access!WithControl
  <2>3. w.dot1x = native.dot1x /\ w.mac = native.mac BY <1>4 DEF AccessFields
  <2>. HIDE DEF w, e, x
  <2> QED BY <1>1, <1>4, <1>6, <2>1, <2>2, <2>3, PortWritesFirmly DEF PortLabels
<1> QED BY <1>2, <1>5, <1>6

LEMMA AccessReadbackFirmly ==
    ASSUME AccessInv, AccessQuiet, AccessFirm, call # NoCall, Access!Readback PROVE AccessFirm'
<1>1. Readback /\ call.pc = "readback" /\ DOMAIN call = Fields
  BY AccessSame, AccessKnows, NothingCalled DEF Readback, At
<1>2. call.quiet => call.then \in {"global", "macPort", "actions", "mode", "modeset", "done"}
  BY <1>1 DEF AccessInv, Access!Features, AccessQuiet, GlobalQuiet, AccessFirm, PortFirm
<1>3. /\ Firm'
      /\ call'.quiet => /\ call.quiet /\ call'.pc = call.then
                        /\ \A f \in Fields \ {"pc", "fresh", "seen"} : call'[f] = call[f]
                        /\ UNCHANGED <<feature, native, cache>>
  BY <1>1, <1>2, ReadbackFirmly DEF AccessFirm
<1>4. UNCHANGED <<feature, native>> BY <1>1 DEF Readback, switch, Sound, Faulty
<1>5. call'.quiet => call'.job = call.job /\ call'.todo = call.todo BY <1>3 DEF Fields
<1>6. call'.quiet /\ feature = "authglobal" => GlobalFirm'
  BY <1>1, <1>3, <1>4, <1>5
     DEF AccessFirm, GlobalFirm, Done, Achieved, Access!Present, Access!GlobalSteps, Access!Step
<1>7. call'.quiet /\ feature = "authport" => PortFirm'
  BY <1>1, <1>2, <1>3, <1>4, <1>5 DEF AccessFirm, PortFirm, Access!Flags, Access!GlobalOf
<1> QED BY <1>3, <1>4, <1>6, <1>7 DEF AccessFirm, Whole, Access!Modes

LEMMA AccessFirmInit == ASSUME Access!Init PROVE AccessFirm
<1>1. call = NoCall /\ native \in Access!Configurations BY AccessSame DEF Access!Init
<1>2. Whole(native) BY <1>1 DEF Whole, Access!Configurations, AccessFields
<1> QED BY <1>1, <1>2 DEF AccessFirm, Firm

LEMMA AccessFirmHolds ==
    ASSUME AccessInv, AccessQuiet, AccessFirm, Access!Next PROVE AccessFirm'
<1>a. ASSUME UNCHANGED native PROVE Whole(native)'
  BY <1>a DEF AccessFirm, Whole, Access!Modes
<1>b. ASSUME call' = NoCall, UNCHANGED native PROVE AccessFirm'
  BY <1>a, <1>b DEF AccessFirm, Firm
<1>c. ASSUME ~call'.quiet, UNCHANGED native PROVE AccessFirm'
  BY <1>a, <1>c DEF AccessFirm, Firm
<1>1. CASE \E job \in Access!Wanted(feature) : Access!Begin(job)
  <2>1. PICK job \in Access!Wanted(feature) : Begin(job) BY <1>1, AccessSame
  <2>2. UNCHANGED native BY <2>1, BeginIs DEF AccessInv
  <2> QED BY <1>a, <2>1, <2>2, BeginFirmly DEF AccessFirm, GlobalFirm, PortFirm
<1>2. CASE Access!Start
  <2>1. call # NoCall BY <1>2, AccessAt DEF Access!Start
  <2>2. CASE Access!TimesOut
    <3>1. UNCHANGED native /\ ~call'.quiet
      BY <2>1, <2>2, AccessSame, AccessKnows, TimesOutQuiet DEF TimesOut, switch
    <3> QED BY <1>c, <3>1
  <2>3. CASE Access!Continue([Access!Observed EXCEPT !.pc = "start"])
    <3>. DEFINE c == [Access!Observed EXCEPT !.pc = "start"]
    <3>1. c.pc = "start" /\ c.quiet = call.quiet /\ c.failed = call.failed /\ unowned \in c.others
      BY <2>1, AccessKnows, AccessSame, PreservedHas DEF Access!Observed, Fields, AccessInv, LookedInv
    <3>2. call' = c /\ UNCHANGED <<native, unowned>> BY <2>3, AccessSame, ContinueIs
    <3>. HIDE DEF c
    <3> QED BY <1>a, <2>1, <3>1, <3>2 DEF AccessFirm, Firm, GlobalFirm, PortFirm
  <2> QED BY <1>2, <2>2, <2>3 DEF Access!Start
<1>3. CASE Access!Readback
  <2>1. call # NoCall BY <1>3, AccessSame, NothingCalled DEF Readback, At
  <2> QED BY <1>3, <2>1, AccessReadbackFirmly
<1>4. CASE Access!Refuse \/ Access!Return
  BY <1>4, <1>b, AccessSame, EndIs DEF AccessInv
<1>5. CASE Access!Global
  <2>1. Access!GlobalBegin \/ Access!GlobalWrite BY <1>5 DEF Access!Global
  <2>2. Access!At("start") \/ Access!At("global")
    BY Zenon, <2>1 DEF Access!GlobalBegin, Access!GlobalWrite
  <2>3. call # NoCall BY <2>2, AccessAt
  <2> QED BY <1>5, <2>3, GlobalFirmly
<1>6. CASE Access!Port
  <2>1. /\ feature = "authport"
        /\ Access!PortBegin \/ Access!PortFlag \/ Access!PortActions \/ Access!PortMode \/ Access!PortModeSet
    BY <1>6 DEF Access!Port
  <2>2. \E label \in {"start", "dot1xPort", "macPort", "actions", "mode", "modeset"} : Access!At(label)
    BY Zenon, <2>1 DEF Access!PortBegin, Access!PortFlag, Access!Flags, Access!PortActions, Access!PortMode,
              Access!PortModeSet
  <2>3. call # NoCall BY <2>2, AccessAt
  <2> QED BY <2>1, <2>3, PortBeginFirmly, PortFlagFirmly, PortActionsFirmly, PortModeFirmly, PortModeSetFirmly
<1>7. CASE Access!Outside
  <2> DEFINE S == {s \in {[native EXCEPT ![x] = v[x]] : x \in DOMAIN native, v \in Access!Configurations} :
                     Access!Valid(s)}
  <2>1. Access!Interference(S) BY <1>7 DEF Access!Outside
  <2>2. \A s \in S : Whole(s) BY WholeOutside DEF AccessInv, AccessFirm
  <2>. HIDE DEF S
  <2>3. Interference(S) BY <2>1, AccessSame
  <2>4. native' = native \/ native' \in S BY <2>3 DEF Interference
  <2>5. Whole(native)'
    <3>1. Whole(native') BY <2>2, <2>4 DEF AccessFirm
    <3> QED BY <3>1 DEF Whole, Access!Modes
  <2>6. CASE call = NoCall
    <3>1. call' = NoCall BY <2>3, <2>6 DEF Interference, Idle
    <3> QED BY <2>5, <3>1 DEF AccessFirm, Firm
  <2>7. CASE call # NoCall
    <3>1. ~call'.quiet BY <2>3, <2>7, AccessKnows, InterferenceQuiet
    <3> QED BY <2>5, <3>1 DEF AccessFirm, Firm
  <2> QED BY <2>6, <2>7
<1>8. CASE Access!Finished
  <2>1. call = NoCall /\ call' = NoCall /\ UNCHANGED native
    BY <1>8, AccessSame DEF Finished, Idle, vars, switch
  <2> QED BY <1>b, <2>1
<1> QED BY <1>1, <1>2, <1>3, <1>4, <1>5, <1>6, <1>7, <1>8 DEF Access!Next, Access!Apply

LEMMA AccessSucceed == ASSUME AccessFirm PROVE Access!QuietCallSucceeds
<1>1. Fails => call # NoCall /\ (call.pc = "failed" \/ call.failed) BY NothingCalled DEF Fails
<1> QED BY <1>1, AccessSame DEF AccessFirm, Firm, Access!QuietCallSucceeds

-----------------------------------------------------------------------------
(* Entries: an undisturbed call has what it waits for and looks after.     *)

Simple == {"dns", "area", "binding", "route", "address"}

\* What a call may rely on: that it looks at the listing, or that it began with a true one.
Sure == ~Listed!Trusting \/ Listed!TrueListing

\* RESTCONF's copy is the one the call began with, or was rebuilt since.
Tracked ==
    \/ cache = call.cached
    \/ /\ feature # "med" /\ Listed!Agree(native.entry, cache.listed)
       /\ native.entry = None => cache.shape = call.cached.shape

\* A routed interface is what the call polls for.
Reaches(s) == IF call.job.remove THEN s.entry = None ELSE s.entry = call.job.value
VeFirm ==
    call.pc \in {"poll", "readback"} =>
        call.expect = {} /\ call.then = "poll" /\ (Sure => Reaches(native))

\* A spanning tree is there a second time only as what RSTP left.
StpVlanFirm ==
    call.pc \in {"wait", "act"} =>
        \/ call.todo = <<>> \/ native.entry = None
        \/ native.entry = Listed!DefaultSTP /\ call.todo = <<"rstp">>

\* Every attachment that is listed is still to be removed, and with the first the policy is gone.
Heading(label) == call.pc = label \/ (call.pc = "readback" /\ call.then = label)
MedFirm ==
    /\ Heading("attached") => cache.listed # {}
    /\ call.pc = "detach" \/ Heading("detached") =>
         /\ call.todo \in Seq(Listed!MedValues) /\ cache.listed \subseteq Range(call.todo)
         /\ native.entry # None => cache.listed # {}
    /\ call.pc = "detach" => cache.listed = call.cached.listed
    /\ Heading("detached") =>
         native.entry = None /\ call.todo # <<>> /\ Head(call.todo) \notin cache.listed
    /\ Heading("check") => cache.listed = {call.job.value}

MedEntries == [entry : Listed!MedValues \union {None}, parent : BOOLEAN, child : BOOLEAN]
MedTyped ==
    /\ native \in MedEntries /\ cache.listed \subseteq Listed!MedValues
    /\ call # NoCall => call.job.value \in Listed!MedValues /\ call.seen \in MedEntries

\* What these are ever configured with, and asked for.
Single == {"dns", "area", "binding"}
Plain(value) ==
    /\ feature \in {"dns", "area"} => value \in {1, None}
    /\ feature = "binding" => value \in {1, 2, None}
Asked == feature \in Single /\ ~call.job.remove => call.job.value = 1

Onward ==
    /\ call.pc = "read" => ~call.failed
    /\ call.pc \in {"read", "start"} => call.todo = <<>>
    /\ call.pc = "start" => Tracked /\ (feature \in Simple \union {"ve"} => call.before = native)
    /\ call.pc = "readback" => call.then \in {"done", "poll", "attached", "detached", "check"}
    /\ feature = "ve" => VeFirm
    /\ feature = "stpvlan" => StpVlanFirm
    /\ feature = "med" => MedFirm

ListedFirm ==
    /\ feature = "address" => cache.listed = {} /\ cache.shape = "container"
    /\ feature = "med" => MedTyped
    /\ Plain(native.entry) /\ (call # NoCall => Asked)
    /\ call # NoCall /\ Sure => Firm
    /\ call # NoCall /\ call.quiet => Onward

LEMMA ListedLooks ==
    ASSUME ListedInv, ListedQuiet, ListedFirm, call # NoCall, call.quiet, Sure, call.pc \notin Unlooked
    PROVE  call.seen = native /\ Listed!seen = native.entry /\ ~call.failed /\ unowned \in call.others
BY DEF ListedInv, LookedInv, Looking, ListedQuiet, ListedFirm, Firm, Listed!seen, Unlooked

\* A call stays as sure as it was.
LEMMA SureStays ==
    ASSUME UNCHANGED feature, call'.job = call.job, call'.before = call.before, call'.cached = call.cached
    PROVE  Sure' <=> Sure
BY DEF Sure, Listed!Trusting, Listed!TrueListing, Listed!listed, Listed!remove

\* A request that goes wrong or that follows a false listing leaves nothing to be shown.
LEMMA ListedRequestFirmly ==
    ASSUME ListedInv, ListedFirm, call # NoCall, call.pc # "read",
           NEW S, NEW x, NEW label, NEW e, Request(S, x, label, e),
           call.quiet => label \in {"done", "poll", "attached", "detached", "check"},
           call.quiet /\ Sure => e = {} \/ S \subseteq e,
           feature = "address" => x.listed = {} /\ x.shape = "container",
           \A s \in S : Plain(s.entry),
           feature = "ve" => e = {} /\ label = "poll",
           feature = "ve" /\ call.quiet /\ Sure => \A s \in S : Reaches(s)
    PROVE  /\ feature # "med" => ListedFirm'
           /\ Sure => Firm'
           /\ UNCHANGED feature /\ native' \in S \union {native} /\ cache' \in {cache, x}
           /\ call' # NoCall /\ call'.job = call.job /\ call'.seen = call.seen
           /\ Sure' <=> Sure
           /\ call'.quiet => /\ call.quiet /\ call'.pc = "readback" /\ call'.then = label
                             /\ call'.todo = call.todo
                             /\ Sure => native' \in S /\ cache' = x
<1> DEFINE c == [call EXCEPT !.pc = "readback", !.then = label, !.expect = e]
<1>0. DOMAIN call = Fields BY DEF ListedInv, LookedInv, Shaped
<1>1. /\ DOMAIN c = Fields /\ c.pc = "readback" /\ c.then = label /\ c.expect = e
      /\ \A f \in Fields \ {"pc", "then", "expect"} : c[f] = call[f]
  BY <1>0 DEF Fields
<1>2. Send(S, x, c) BY DEF Request
<1>. HIDE DEF c
<1>3. /\ UNCHANGED feature /\ native' \in S \union {native} /\ cache' \in {cache, x}
      /\ DOMAIN call' = Fields /\ \A f \in Fields \ {"failed", "quiet"} : call'[f] = c[f]
  BY <1>0, <1>1, <1>2, SendIs
<1>4. /\ call'.job = call.job /\ call'.seen = call.seen /\ call'.before = call.before
      /\ call'.cached = call.cached /\ call'.todo = call.todo /\ call'.pc = "readback"
      /\ call'.then = label /\ call'.expect = e
  BY <1>1, <1>3 DEF Fields
<1>5. Sure' <=> Sure BY <1>3, <1>4, SureStays
<1>6. c.quiet = call.quiet /\ c.failed = call.failed /\ c.others = call.others BY <1>1 DEF Fields
<1>7. call'.quiet => call.quiet BY <1>1, <1>2, <1>6, SendQuiet
<1>8. Sure => /\ Firm'
              /\ call'.quiet => native' \in S /\ cache' = x
  BY <1>0, <1>1, <1>2, <1>6, SendFirmly DEF ListedFirm
<1>9. call' # NoCall BY <1>3, NothingCalled
<1>14. feature = "ve" /\ call'.quiet /\ Sure => Reaches(native)'
  <2>1. feature = "ve" /\ call'.quiet /\ Sure => Reaches(native') BY <1>7, <1>8
  <2> QED BY <1>4, <2>1 DEF Reaches
<1>10. feature # "med" /\ call'.quiet => Onward'
  BY <1>3, <1>4, <1>5, <1>7, <1>14 DEF Onward, VeFirm, StpVlanFirm
<1>11. feature = "address" => cache'.listed = {} /\ cache'.shape = "container"
  BY <1>3 DEF ListedFirm
<1>13. Plain(native.entry)' /\ Asked'
  <2>1. Plain(native'.entry) BY <1>3 DEF ListedFirm
  <2>2. Plain(native.entry)' BY <1>3, <2>1 DEF Plain
  <2> QED BY <1>3, <1>4, <2>2 DEF ListedFirm, Asked
<1>12. feature # "med" => ListedFirm' BY <1>3, <1>5, <1>8, <1>10, <1>11, <1>13 DEF ListedFirm
<1> QED BY <1>3, <1>4, <1>5, <1>7, <1>8, <1>9, <1>12

\* A request that is ignored is one of a call that was disturbed or began with a false listing.
LEMMA IgnoredFirmly ==
    ASSUME ListedInv, ListedFirm, call # NoCall, call.pc # "read",
           NEW label, NEW e, Listed!Ignored(label, e), ~(call.quiet /\ Sure),
           call.quiet => label \in {"done", "poll", "attached", "detached", "check"},
           feature = "ve" => e = {} /\ label = "poll",
           feature = "med" => ~call.quiet
    PROVE  ListedFirm'
<1> DEFINE c == [call EXCEPT !.pc = "readback", !.then = label, !.expect = e]
           d == [call EXCEPT !.pc = "readback", !.then = label, !.expect = e, !.failed = TRUE]
<1>0. DOMAIN call = Fields BY DEF ListedInv, LookedInv, Shaped
<1>1. /\ DOMAIN c = Fields /\ c.pc = "readback" /\ c.then = label /\ c.expect = e
      /\ \A f \in Fields \ {"pc", "then", "expect", "failed"} : c[f] = call[f]
      /\ DOMAIN d = Fields /\ d.pc = "readback" /\ d.then = label /\ d.expect = e
      /\ \A f \in Fields \ {"pc", "then", "expect", "failed"} : d[f] = call[f]
  BY <1>0 DEF Fields
<1>2. Send({native}, cache, c) \/ Send({native}, cache, d)
  BY ListedSame DEF Listed!Ignored, Request
<1>. HIDE DEF c, d
<1>3. /\ UNCHANGED feature /\ native' = native /\ cache' = cache
      /\ DOMAIN call' = Fields
      /\ \A f \in Fields \ {"pc", "then", "expect", "failed", "quiet"} : call'[f] = call[f]
      /\ call'.pc = "readback" /\ call'.then = label /\ call'.expect = e
  <2>1. ASSUME NEW b \in {c, d}, Send({native}, cache, b)
        PROVE  /\ UNCHANGED feature /\ native' = native /\ cache' = cache
               /\ DOMAIN call' = Fields /\ \A f \in Fields \ {"failed", "quiet"} : call'[f] = b[f]
    BY <1>0, <1>1, <2>1, SendIs
  <2> QED BY <1>1, <1>2, <2>1 DEF Fields
<1>4. call'.quiet => call.quiet
  <2>1. ASSUME NEW b \in {c, d}, Send({native}, cache, b) PROVE call'.quiet => call' = b
    BY <1>1, <2>1, SendQuiet
  <2> QED BY <1>1, <1>2, <2>1 DEF Fields
<1>5. /\ call'.job = call.job /\ call'.seen = call.seen /\ call'.before = call.before
      /\ call'.cached = call.cached /\ call'.todo = call.todo
  BY <1>3 DEF Fields
<1>6. Sure' <=> Sure BY <1>3, <1>5, SureStays
<1>7. Sure => Firm' BY <1>4 DEF Firm
<1>8. call'.quiet => Onward' BY <1>3, <1>4, <1>5, <1>6 DEF Onward, VeFirm, StpVlanFirm
<1>9. feature = "med" => MedTyped' BY <1>3, <1>5 DEF ListedFirm, MedTyped, MedEntries, Listed!MedValues
<1>10. Plain(native.entry)' /\ Asked' BY <1>3, <1>5 DEF ListedFirm, Plain, Asked
<1> QED BY <1>3, <1>6, <1>7, <1>8, <1>9, <1>10 DEF ListedFirm

LEMMA ListedGoesFirmly ==
    ASSUME ListedInv, ListedFirm, call # NoCall, call.pc # "read", NEW label, Listed!Goto(label),
           label \notin {"read", "start", "readback", "act", "poll", "attached", "detach", "detached", "check"},
           label = "failed" => ~(call.quiet /\ Sure),
           call.quiet /\ label = "wait" => call.todo = <<>>
    PROVE  ListedFirm'
<1>0. DOMAIN call = Fields BY DEF ListedInv, LookedInv, Shaped
<1>1. /\ call' = [call EXCEPT !.pc = label] /\ UNCHANGED <<feature, native, cache, unowned>>
  BY <1>0, ListedSame, GotoIs
<1>2. /\ call'.pc = label /\ DOMAIN call' = Fields /\ \A f \in Fields \ {"pc"} : call'[f] = call[f]
  BY <1>0, <1>1 DEF Fields
<1>3. /\ call'.job = call.job /\ call'.seen = call.seen /\ call'.before = call.before
      /\ call'.cached = call.cached /\ call'.todo = call.todo /\ call'.quiet = call.quiet
      /\ call'.failed = call.failed /\ call'.others = call.others
  BY <1>2 DEF Fields
<1>4. Sure' <=> Sure BY <1>1, <1>3, SureStays
<1>5. Sure => Firm' BY <1>1, <1>2, <1>3 DEF Firm, ListedFirm
<1>6. call'.quiet => Onward'
  BY <1>1, <1>2, <1>3 DEF Onward, VeFirm, StpVlanFirm, MedFirm, Heading
<1>7. feature = "med" => MedTyped' BY <1>1, <1>3 DEF ListedFirm, MedTyped, MedEntries, Listed!MedValues
<1>8. Plain(native.entry)' /\ Asked' BY <1>1, <1>3 DEF ListedFirm, Plain, Asked
<1> QED BY <1>1, <1>4, <1>5, <1>6, <1>7, <1>8 DEF ListedFirm

LEMMA ListedTimesOutFirmly ==
    ASSUME ListedInv, ListedFirm, call # NoCall, Listed!TimesOut PROVE ListedFirm'
<1>0. DOMAIN call = Fields BY DEF ListedInv, LookedInv, Shaped
<1>1. /\ call' = [[call EXCEPT !.pc = "failed"] EXCEPT !.quiet = FALSE]
      /\ UNCHANGED <<feature, native, cache>>
  BY ListedSame DEF TimesOut, Fail, Faulty, switch
<1>2. ~call'.quiet /\ call'.job = call.job /\ call'.seen = call.seen
  BY <1>0, <1>1 DEF Fields
<1>3. Plain(native.entry)' /\ Asked' BY <1>1, <1>2 DEF ListedFirm, Plain, Asked
<1> QED BY <1>1, <1>2, <1>3 DEF ListedFirm, Firm, MedTyped, MedEntries, Listed!MedValues

\* A value is put where it is not yet listed, or where either outcome will do.
LEMMA ListedPutFirmly ==
    ASSUME ListedInv, ListedFirm, call # NoCall, call.pc # "read", feature # "med",
           NEW value, NEW label, NEW e, Listed!Put(value, label, e),
           call.quiet => label \in {"done", "poll", "attached", "detached", "check"},
           call.quiet /\ Sure => e = {} \/ (Listed!With(value) \in e /\ (value \in cache.listed => native \in e)),
           Plain(value),
           feature = "ve" => e = {} /\ label = "poll",
           feature = "ve" /\ call.quiet /\ Sure =>
               value \notin cache.listed /\ value = Listed!want /\ ~Listed!remove
    PROVE  ListedFirm'
<1> DEFINE S == {Listed!With(value)} \union (IF value \in cache.listed THEN {native} ELSE {})
           x == Listed!Listing({value})
<1>1. Request(S, x, label, e) BY ListedSame DEF Listed!Put
<1>2. call.quiet /\ Sure => e = {} \/ S \subseteq e OBVIOUS
<1>3. feature = "address" => x.listed = {} /\ x.shape = "container"
  BY DEF ListedInv, ListShaped, Listed!Listing
<1>4. Listed!With(value).entry = value BY EntriesShaped
<1>5. \A s \in S : Plain(s.entry) BY <1>4 DEF ListedFirm
<1>6. feature = "ve" /\ call.quiet /\ Sure => \A s \in S : Reaches(s)
  BY <1>4 DEF Reaches, Listed!want, Listed!remove
<1>. HIDE DEF S, x
<1> QED BY <1>1, <1>2, <1>3, <1>5, <1>6, ListedRequestFirmly

LEMMA ListedPostFirmly ==
    ASSUME ListedInv, ListedFirm, call # NoCall, call.pc # "read", feature # "med",
           NEW value, NEW label, NEW e, Listed!Post(value, label, e),
           call.quiet => label \in {"done", "poll", "attached", "detached", "check"},
           call.quiet /\ Sure => cache.listed = {} /\ (e = {} \/ Listed!With(value) \in e),
           Plain(value),
           feature = "ve" => e = {} /\ label = "poll",
           feature = "ve" /\ call.quiet /\ Sure => value = Listed!want /\ ~Listed!remove
    PROVE  ListedFirm'
<1>1. CASE cache.listed = {}
  <2>1. Listed!Put(value, label, e) BY <1>1 DEF Listed!Post
  <2> QED BY <1>1, <2>1, ListedPutFirmly
<1>2. CASE cache.listed # {}
  <2>1. Listed!Ignored(label, e) BY <1>2 DEF Listed!Post
  <2> QED BY <1>2, <2>1, IgnoredFirmly
<1> QED BY <1>1, <1>2

LEMMA CreateFirmly ==
    ASSUME ListedInv, ListedQuiet, ListedFirm, call # NoCall, call.pc = "start", feature \in Simple,
           ~Listed!Refused, Listed!Differs, ~Listed!remove, Listed!Create
    PROVE  ListedFirm'
<1>1. Plain(Listed!want)
  BY DEF ListedFirm, Asked, Single, Plain, Listed!want, Listed!remove
<1>2. CASE call.quiet /\ Sure
  <2>1. Listed!seen = native.entry /\ call.pc \notin Unlooked
    BY <1>2, ListedLooks DEF Unlooked
  <2>2. native.entry = None
    <3>1. Plain(native.entry) /\ Asked BY DEF ListedFirm
    <3>2. CASE feature \in {"route", "address"}
      BY <2>1, <3>2 DEF Listed!Refused, Listed!RouteRefused, Listed!AddressRefused, Listed!Differs
    <3>3. CASE feature \in Single
      BY <2>1, <3>1, <3>3 DEF Listed!Refused, Listed!BindingRefused, Listed!Differs, Listed!Mine,
                              Plain, Asked, Single, Listed!want, Listed!remove
    <3> QED BY <3>2, <3>3 DEF Simple, Single
  <2>3. call.before = native /\ Tracked BY <1>2 DEF ListedFirm, Onward
  <2>4. cache.listed = {} /\ cache.shape = call.cached.shape
    <3>1. CASE feature = "address" BY <2>2, <2>3, <3>1 DEF ListedFirm, Tracked
    <3>2. CASE feature # "address"
      <4>1. call.cached.listed = {}
        BY <1>2, <2>2, <2>3, <3>2 DEF Sure, Listed!Trusting, Listed!TrueListing, Listed!listed, Simple
      <4> QED BY <2>2, <2>3, <4>1 DEF Tracked, Listed!Agree
    <3> QED BY <3>1, <3>2
  <2>5. /\ (Listed!Form(call.cached.shape) = "protocol") <=> (cache.shape = "none")
        /\ Listed!Form(call.cached.shape) = "post" => cache.shape # "prefix"
    <3>1. call.cached.shape = cache.shape BY <2>4
    <3>2. cache.shape = "none" => Listed!Form(cache.shape) = "protocol" BY DEF Listed!Form
    <3>3. cache.shape # "none" /\ (feature = "area" \/ cache.shape = "prefix") => Listed!Form(cache.shape) = "patch"
      BY DEF Listed!Form
    <3>4. cache.shape # "none" /\ ~(feature = "area" \/ cache.shape = "prefix") => Listed!Form(cache.shape) = "post"
      BY DEF Listed!Form
    <3> QED BY <3>1, <3>2, <3>3, <3>4
  <2>6. \/ Listed!Put(Listed!want, "done", {Listed!With(Listed!want)})
        \/ Listed!Post(Listed!want, "done", {Listed!With(Listed!want)})
    BY <2>5 DEF Listed!Create
  <2> QED BY <1>1, <2>4, <2>6, ListedPutFirmly, ListedPostFirmly DEF Simple
<1>3. CASE ~(call.quiet /\ Sure)
  <2>1. \/ Listed!Ignored("done", {Listed!With(Listed!want)})
        \/ Listed!Put(Listed!want, "done", {Listed!With(Listed!want)})
        \/ Listed!Post(Listed!want, "done", {Listed!With(Listed!want)})
    BY DEF Listed!Create
  <2> QED BY <1>1, <1>3, <2>1, IgnoredFirmly, ListedPutFirmly, ListedPostFirmly DEF Simple
<1> QED BY <1>2, <1>3

LEMMA OneRequestFirmly ==
    ASSUME ListedInv, ListedQuiet, ListedFirm, feature \in Simple, Listed!OneRequest
    PROVE  ListedFirm'
<1>1. call.pc = "start" /\ call # NoCall /\ ~Listed!Refused
  BY ListedAt DEF Listed!OneRequest
<1>2. CASE Listed!Goto("done") BY <1>1, <1>2, ListedGoesFirmly
<1>3. CASE Listed!Differs /\ ~Listed!remove /\ Listed!Create BY <1>1, <1>3, CreateFirmly
<1>4. CASE Listed!Differs /\ Listed!remove /\ Listed!Delete({Listed!Erased}, "done", {Listed!Erased})
  <2>1. CASE feature = "address" \/ cache.listed # {}
    <3> DEFINE x == Listed!Listing({})
    <3>1. Request({Listed!Erased}, x, "done", {Listed!Erased}) BY <1>4, <2>1, ListedSame DEF Listed!Delete
    <3>2. feature = "address" => x.listed = {} /\ x.shape = "container"
      BY DEF ListedFirm, ListedInv, ListShaped, Listed!Listing
    <3>3. Plain(None) BY DEF Plain
    <3>4. \A s \in {Listed!Erased} : Plain(s.entry) BY <3>3, EntriesShaped
    <3>. HIDE DEF x
    <3> QED BY <1>1, <3>1, <3>2, <3>4, ListedRequestFirmly DEF Simple
  <2>2. CASE ~(feature = "address" \/ cache.listed # {})
    <3>1. ASSUME call.quiet, Sure PROVE FALSE
      <4>1. Listed!seen = native.entry BY <1>1, <3>1, ListedLooks DEF Unlooked
      <4>2. native.entry # None BY <1>4, <4>1, NotMine DEF Listed!Differs
      <4>3. call.before = native /\ Tracked BY <1>1, <3>1 DEF ListedFirm, Onward
      <4>4. call.cached.listed # {}
        BY <2>2, <3>1, <4>2, <4>3 DEF Sure, Listed!Trusting, Listed!TrueListing, Listed!listed, Simple
      <4> QED BY <2>2, <4>2, <4>3, <4>4 DEF Tracked, Listed!Agree
    <3>2. Listed!Ignored("done", {Listed!Erased}) BY <1>4, <2>2 DEF Listed!Delete
    <3> QED BY <1>1, <3>1, <3>2, IgnoredFirmly DEF Simple
  <2> QED BY <2>1, <2>2
<1> QED BY <1>2, <1>3, <1>4 DEF Listed!OneRequest

\* A step that sends nothing.
LEMMA ListedContinuesFirmly ==
    ASSUME ListedInv, ListedFirm, call # NoCall, NEW c, Listed!Continue(c), c.job = call.job,
           c.seen = call.seen \/ c.seen = native,
           call'.quiet /\ call' # NoCall /\ Sure' =>
               ~c.failed /\ c.pc # "failed" /\ (c.pc # "read" => unowned \in c.others)
                 /\ (c.pc = "readback" => c.expect = {}),
           call'.quiet => Onward'
    PROVE  ListedFirm'
<1>1. call' = c /\ UNCHANGED <<feature, native, cache, unowned>> BY ListedSame, ContinueIs
<1>2. call' # NoCall /\ Sure' => Firm' BY <1>1 DEF Firm
<1>3. Plain(native.entry)' /\ Asked' BY <1>1 DEF ListedFirm, Plain, Asked
<1>4. feature = "med" => MedTyped' BY <1>1 DEF ListedFirm, MedTyped, MedEntries, Listed!MedValues
<1> QED BY <1>1, <1>2, <1>3, <1>4 DEF ListedFirm

LEMMA CarefulIsSure ==
    feature \in {"stpvlan", "med", "address"} \/ (feature = "ve" /\ ~Listed!remove) => Sure
BY DEF Sure, Listed!Trusting

LEMMA VeFirmly ==
    ASSUME ListedInv, ListedQuiet, ListedFirm, call # NoCall, Listed!RoutedInterface
    PROVE  ListedFirm'
<1>0. feature = "ve" /\ DOMAIN call = Fields
  BY DEF Listed!RoutedInterface, ListedInv, LookedInv, Shaped
<1>p. \A v : Plain(v) BY <1>0 DEF Plain
<1>1. CASE Listed!VeWrite
  <2>1. call.pc = "start" /\ ~Listed!remove BY <1>1, ListedAt DEF Listed!VeWrite
  <2>a. Sure BY <1>0, <2>1, CarefulIsSure
  <2>2. call.quiet => Listed!seen = native.entry /\ ~call.failed /\ unowned \in call.others
    BY <2>1, <2>a, ListedLooks DEF Unlooked
  <2>b. call.quiet => Tracked BY <2>1 DEF ListedFirm, Onward
  <2>3. CASE Listed!Goto("done") BY <2>1, <2>3, ListedGoesFirmly
  <2>4. CASE Listed!VeReady /\ Listed!seen = None /\ Listed!Post(Listed!want, "poll", {})
    <3>1. call.cached.listed = {} BY <2>4 DEF Listed!VeReady, Listed!Agree, Listed!listed
    <3>2. call.quiet => cache.listed = {} BY <2>2, <2>4, <2>b, <3>1 DEF Tracked, Listed!Agree
    <3> QED BY <1>0, <1>p, <2>1, <2>4, <3>2, ListedPostFirmly
  <2>5. CASE Listed!want = 0 /\ Listed!Request({Listed!With(0)}, Listed!Listing({0}), "poll", {})
    <3>1. \A s \in {Listed!With(0)} : Plain(s.entry) BY <1>p
    <3>2. \A s \in {Listed!With(0)} : Reaches(s)
      BY <2>1, <2>5, EntriesShaped DEF Reaches, Listed!want, Listed!remove
    <3> QED BY <1>0, <2>1, <2>5, <3>1, <3>2, ListedSame, ListedRequestFirmly
  <2>6. CASE /\ Listed!Differs /\ Listed!VeReady /\ Listed!seen # None /\ Listed!want # 0
             /\ Listed!Put(Listed!want, "poll", {})
    <3>1. call.cached.listed = {Listed!seen} /\ Listed!want # Listed!seen
      BY <2>1, <2>6 DEF Listed!VeReady, Listed!Agree, Listed!listed, Listed!Differs
    <3>2. call.quiet => Listed!want \notin cache.listed
      BY <2>2, <2>6, <2>b, <3>1 DEF Tracked, Listed!Agree
    <3> QED BY <1>0, <1>p, <2>1, <2>6, <3>2, ListedPutFirmly
  <2>7. CASE unowned \in call.others /\ Listed!Continue(Listed!Again)
    <3> DEFINE c == Listed!Again
    <3>1. /\ DOMAIN c = Fields /\ c.seen = native /\ c.cached = cache /\ c.pc = "start"
          /\ \A f \in {"job", "before", "others", "failed", "expect", "then", "todo", "quiet"} : c[f] = call[f]
      BY <1>0, <2>1 DEF Listed!Again, Fields
    <3>. HIDE DEF c
    <3>2. call' = c /\ UNCHANGED <<feature, native, cache, unowned>> BY <2>7, ListedSame, ContinueIs DEF c
    <3>3. call'.quiet => Onward'
      BY <1>0, <2>1, <3>1, <3>2 DEF ListedFirm, Onward, Tracked, VeFirm, Simple
    <3> QED BY <2>2, <2>7, <3>1, <3>2, <3>3, ListedContinuesFirmly DEF c
  <2>8. CASE unowned \notin call.others /\ Listed!Continue(Listed!Fail)
    <3>1. Listed!Goto("failed") BY <2>8, ListedSame DEF Goto, Fail
    <3> QED BY <2>1, <2>2, <2>8, <3>1, ListedGoesFirmly
  <2>9. CASE Listed!TimesOut BY <2>9, ListedTimesOutFirmly
  <2> QED BY <1>1, <2>3, <2>4, <2>5, <2>6, <2>7, <2>8, <2>9, Zenon DEF Listed!VeWrite
<1>2. CASE Listed!VeRemove
  <2>1. call.pc = "start" /\ Listed!remove BY <1>2, ListedAt DEF Listed!VeRemove
  <2>2. call.quiet /\ Sure => Listed!seen = native.entry /\ ~call.failed /\ unowned \in call.others
    BY <2>1, ListedLooks DEF Unlooked
  <2>3. CASE /\ Listed!seen = None
             /\ Listed!Continue([call EXCEPT !.pc = "readback", !.then = "poll", !.expect = {}])
    <3> DEFINE c == [call EXCEPT !.pc = "readback", !.then = "poll", !.expect = {}]
    <3>1. /\ DOMAIN c = Fields /\ c.pc = "readback" /\ c.then = "poll" /\ c.expect = {}
          /\ \A f \in Fields \ {"pc", "then", "expect"} : c[f] = call[f]
      BY <1>0 DEF Fields
    <3>a. /\ c.job = call.job /\ c.seen = call.seen /\ c.others = call.others /\ c.failed = call.failed
          /\ c.quiet = call.quiet /\ c.before = call.before /\ c.cached = call.cached
      BY <3>1 DEF Fields
    <3>. HIDE DEF c
    <3>2. call' = c /\ UNCHANGED <<feature, native, cache, unowned>> BY <2>3, ListedSame, ContinueIs DEF c
    <3>3. Sure' <=> Sure BY <3>2, <3>a, SureStays
    <3>4. call'.quiet /\ Sure => Reaches(native)'
      BY <2>1, <2>2, <2>3, <3>2, <3>a DEF Reaches, Listed!remove
    <3>5. call'.quiet => Onward'
      BY <1>0, <3>1, <3>2, <3>3, <3>4 DEF Onward, VeFirm
    <3> QED BY <2>2, <2>3, <3>1, <3>a, <3>2, <3>3, <3>5, ListedContinuesFirmly DEF c
  <2>4. CASE Listed!seen # None /\ Listed!Delete({Listed!Erased}, "poll", {})
    <3>1. CASE cache.listed # {}
      <4>1. Request({Listed!Erased}, Listed!Listing({}), "poll", {})
        BY <2>4, <3>1, ListedSame DEF Listed!Delete
      <4>2. \A s \in {Listed!Erased} : Plain(s.entry) BY <1>p
      <4>3. \A s \in {Listed!Erased} : Reaches(s)
        BY <2>1, EntriesShaped DEF Reaches, Listed!remove
      <4> QED BY <1>0, <2>1, <4>1, <4>2, <4>3, ListedRequestFirmly
    <3>2. CASE cache.listed = {}
      <4>1. Listed!Ignored("poll", {}) BY <1>0, <2>4, <3>2 DEF Listed!Delete
      <4>2. ASSUME call.quiet, Sure PROVE FALSE
        <5>1. call.before = native /\ Tracked BY <1>0, <2>1, <4>2 DEF ListedFirm, Onward
        <5>2. native.entry # None BY <2>2, <2>4, <4>2
        <5>3. call.cached.listed # {}
          BY <1>0, <2>1, <4>2, <5>1, <5>2 DEF Sure, Listed!Trusting, Listed!TrueListing, Listed!listed
        <5> QED BY <3>2, <5>1, <5>2, <5>3 DEF Tracked, Listed!Agree
      <4> QED BY <1>0, <2>1, <4>1, <4>2, IgnoredFirmly
    <3> QED BY <3>1, <3>2
  <2> QED BY <1>2, <2>3, <2>4 DEF Listed!VeRemove
<1>3. CASE Listed!VePoll
  <2>1. call.pc = "poll" BY <1>3, ListedAt DEF Listed!VePoll
  <2>2. CASE Listed!Goto("done") BY <2>1, <2>2, ListedGoesFirmly
  <2>3. CASE Listed!Goto("readback")
    <3> DEFINE c == [call EXCEPT !.pc = "readback"]
    <3>1. DOMAIN c = Fields /\ c.pc = "readback" /\ \A f \in Fields \ {"pc"} : c[f] = call[f]
      BY <1>0 DEF Fields
    <3>2. /\ c.job = call.job /\ c.seen = call.seen /\ c.others = call.others /\ c.failed = call.failed
          /\ c.quiet = call.quiet /\ c.then = call.then /\ c.expect = call.expect /\ c.todo = call.todo
      BY <3>1 DEF Fields
    <3>3. Listed!Continue(c) BY <2>3, ListedSame DEF Goto
    <3>. HIDE DEF c
    <3>4. call' = c /\ UNCHANGED <<feature, native, cache, unowned>> BY <3>3, ListedSame, ContinueIs
    <3>a. c.before = call.before /\ c.cached = call.cached BY <3>1 DEF Fields
    <3>b. Sure' <=> Sure BY <3>2, <3>4, <3>a, SureStays
    <3>5. call.quiet => call.expect = {} /\ call.then = "poll" /\ (Sure => Reaches(native))
      BY <1>0, <2>1 DEF ListedFirm, Onward, VeFirm
    <3>c. call'.quiet /\ Sure => Reaches(native)' BY <3>2, <3>4, <3>5 DEF Reaches
    <3>6. call'.quiet => Onward'
      BY <1>0, <3>1, <3>2, <3>4, <3>5, <3>b, <3>c DEF Onward, VeFirm
    <3>7. call.quiet /\ Sure => ~call.failed /\ unowned \in call.others
      BY <1>0, <2>1 DEF ListedFirm, Firm
    <3> QED BY <3>1, <3>2, <3>3, <3>4, <3>5, <3>6, <3>7, <3>b, ListedContinuesFirmly
  <2>4. CASE Listed!TimesOut BY <2>4, ListedTimesOutFirmly
  <2> QED BY <1>3, <2>2, <2>3, <2>4 DEF Listed!VePoll
<1> QED BY <1>1, <1>2, <1>3 DEF Listed!RoutedInterface

\* A step of a call that nobody shows anything of.
LEMMA NobodyAsks ==
    ASSUME ListedFirm, UNCHANGED feature, call' # NoCall, call'.job = call.job, call # NoCall,
           ~call'.quiet, feature # "med", Plain(native'.entry),
           cache' = cache \/ feature # "address"
    PROVE  ListedFirm'
<1>1. Plain(native.entry)' /\ Asked' BY DEF ListedFirm, Plain, Asked
<1> QED BY <1>1 DEF ListedFirm, Firm

LEMMA StpWaitFirmly ==
    ASSUME ListedInv, ListedQuiet, ListedFirm, call # NoCall, feature = "stpvlan", Listed!StpWait
    PROVE  ListedFirm'
<1>0. Sure /\ DOMAIN call = Fields
  BY CarefulIsSure DEF ListedInv, LookedInv, Shaped
<1>1. call.pc = "wait" BY ListedAt DEF Listed!StpWait
<1>2. call.quiet => /\ ~call.failed /\ unowned \in call.others
                    /\ \/ call.todo = <<>> \/ native.entry = None
                       \/ native.entry = Listed!DefaultSTP /\ call.todo = <<"rstp">>
  BY <1>0, <1>1 DEF ListedFirm, Firm, Onward, StpVlanFirm
<1>a. ASSUME NEW c, Listed!Continue(c), c.pc = "act", c.seen = native, c.job = call.job,
             c.quiet = call.quiet, c.failed = call.failed, c.todo = call.todo,
             call.quiet => unowned \in c.others
      PROVE  ListedFirm'
  <2>1. call' = c /\ UNCHANGED <<feature, native, cache, unowned>> BY <1>a, ListedSame, ContinueIs
  <2>2. call'.quiet => Onward' BY <1>2, <1>a, <2>1 DEF Onward, StpVlanFirm
  <2> QED BY <1>2, <1>a, <2>1, <2>2, ListedContinuesFirmly
<1>3. CASE Listed!Continue([Listed!Observed EXCEPT !.pc = "act"])
  <2> DEFINE c == [Listed!Observed EXCEPT !.pc = "act"]
  <2>1. /\ c.pc = "act" /\ c.seen = native /\ c.job = call.job /\ c.quiet = call.quiet
        /\ c.failed = call.failed /\ c.todo = call.todo /\ unowned \in c.others
    BY <1>0, ListedSame, PreservedHas DEF Listed!Observed, Fields, ListedInv, LookedInv
  <2>. HIDE DEF c
  <2> QED BY <1>a, <1>3, <2>1 DEF c
<1>4. CASE Listed!Continue([Listed!Again EXCEPT !.pc = "act"])
  <2> DEFINE c == [Listed!Again EXCEPT !.pc = "act"]
  <2>1. /\ c.pc = "act" /\ c.seen = native /\ c.job = call.job /\ c.quiet = call.quiet
        /\ c.failed = call.failed /\ c.todo = call.todo /\ c.others = call.others
    BY <1>0 DEF Listed!Again, Fields
  <2>. HIDE DEF c
  <2> QED BY <1>a, <1>2, <1>4, <2>1 DEF c
<1>5. CASE /\ ~(unowned \in call.others /\ ~call.failed)
           /\ Listed!Continue([Listed!Fail EXCEPT !.seen = native, !.fresh = TRUE])
  <2> DEFINE c == [Listed!Fail EXCEPT !.seen = native, !.fresh = TRUE]
  <2>1. c.quiet = call.quiet /\ c.job = call.job BY <1>0, ListedSame DEF Fail, Fields
  <2>2. DOMAIN c = Fields BY <1>0, ListedSame DEF Fail, Fields
  <2>. HIDE DEF c
  <2>3. call' = c /\ UNCHANGED <<feature, native, cache, unowned>> BY <1>5, ListedSame, ContinueIs DEF c
  <2> QED BY <1>2, <1>5, <2>1, <2>2, <2>3, NothingCalled, NobodyAsks DEF ListedFirm
<1>6. CASE Listed!TimesOut BY <1>6, ListedTimesOutFirmly
<1> QED BY <1>3, <1>4, <1>5, <1>6 DEF Listed!StpWait

LEMMA StpRemoveFirmly ==
    ASSUME ListedInv, ListedQuiet, ListedFirm, call # NoCall, feature = "stpvlan", Listed!StpRemove
    PROVE  ListedFirm'
<1>0. Sure /\ DOMAIN call = Fields
  BY CarefulIsSure DEF ListedInv, LookedInv, Shaped
<1>p. \A v : Plain(v) BY DEF Plain
<1>1. call.pc = "act" BY ListedAt DEF Listed!StpRemove
<1>2. call.quiet => /\ Listed!seen = native.entry /\ ~call.failed /\ unowned \in call.others
                    /\ Listed!Agree(native.entry, cache.listed)
                    /\ \/ call.todo = <<>> \/ native.entry = None
                       \/ native.entry = Listed!DefaultSTP /\ call.todo = <<"rstp">>
  <2>1. call.quiet => Looking BY <1>0, <1>1 DEF Looking, ListedQuiet, ListedFirm, Firm, Unlooked
  <2> QED BY <1>0, <1>1, <2>1, ListedLooks DEF ListedInv, ListedFirm, Onward, StpVlanFirm, Unlooked
<1>3. CASE Listed!Goto("done") BY <1>1, <1>3, ListedGoesFirmly
<1>4. CASE /\ Listed!seen # None
           /\ (Listed!Mode(Listed!seen) \in Range(call.todo) \/ (call.todo # <<>> /\ Listed!Mode(Listed!seen) # "stp"))
           /\ Listed!Goto("failed")
  <2>1. ~call.quiet
    <3>1. SUFFICES ASSUME call.quiet PROVE FALSE OBVIOUS
    <3>2. CASE call.todo = <<>>
      <4>1. Range(<<>>) = {} BY DEF Range
      <4> QED BY <1>4, <3>2, <4>1
    <3>3. CASE native.entry = Listed!DefaultSTP /\ call.todo = <<"rstp">>
      <4>1. Listed!Mode(Listed!seen) = "stp" BY <1>2, <3>1, <3>3 DEF Listed!Mode, Listed!DefaultSTP
      <4>2. Range(<<"rstp">>) = {"rstp"} BY DEF Range
      <4> QED BY <1>4, <3>3, <4>1, <4>2
    <3> QED BY <1>2, <1>4, <3>1, <3>2, <3>3
  <2> QED BY <1>1, <1>4, <2>1, ListedGoesFirmly
<1>5. CASE LET c == [call EXCEPT !.pc = "wait", !.todo = Append(@, Listed!Mode(Listed!seen))]
           IN  /\ Listed!seen # None
               /\ (call.todo = <<>> \/ Listed!Mode(Listed!seen) = "stp")
               /\ IF \E v \in cache.listed : Listed!Mode(v) = Listed!Mode(Listed!seen)
                  THEN Listed!Send(IF native.entry = None THEN {native} ELSE Listed!StpLeft,
                                   Listed!Listing({}), c)
                  ELSE Listed!Send({native}, cache, [c EXCEPT !.failed = TRUE])
  <2> DEFINE c == [call EXCEPT !.pc = "wait", !.todo = Append(@, Listed!Mode(Listed!seen))]
             d == [c EXCEPT !.failed = TRUE]
             S == IF native.entry = None THEN {native} ELSE Listed!StpLeft
             x == Listed!Listing({})
  <2>1. /\ DOMAIN c = Fields /\ c.pc = "wait" /\ c.todo = Append(call.todo, Listed!Mode(Listed!seen))
        /\ c.quiet = call.quiet /\ c.failed = call.failed /\ c.others = call.others /\ c.job = call.job
        /\ DOMAIN d = Fields /\ d.quiet = call.quiet /\ d.job = call.job
    BY <1>0 DEF Fields
  <2>2. \/ Send(S, x, c)
        \/ /\ ~\E v \in cache.listed : Listed!Mode(v) = Listed!Mode(Listed!seen)
           /\ Send({native}, cache, d)
    BY <1>5, ListedSame
  <2>3. native.entry # None => \A s \in S :
          \/ s.entry = None
          \/ Listed!Mode(native.entry) = "rstp" /\ s.entry = Listed!DefaultSTP
    BY EntriesShaped DEF Listed!StpLeft
  <2>4. Listed!seen # None /\ (call.todo = <<>> \/ Listed!Mode(Listed!seen) = "stp") BY <1>5
  <2>. HIDE DEF c, d, S, x
  <2>5. CASE Send(S, x, c)
    <3>1. Firm BY <1>0 DEF ListedFirm
    <3>2. /\ UNCHANGED feature /\ DOMAIN call' = Fields
          /\ \A f \in Fields \ {"failed", "quiet"} : call'[f] = c[f]
      BY <1>0, <2>1, <2>5, SendIs
    <3>3. call'.job = call.job BY <2>1, <3>2 DEF Fields
    <3>4. /\ Firm'
          /\ call'.quiet => call.quiet /\ call' = c /\ native' \in S
      BY <1>0, <1>1, <2>1, <2>5, <3>1, SendFirmly
    <3>5. call'.quiet => Onward'
      <4>1. SUFFICES ASSUME call'.quiet PROVE Onward' OBVIOUS
      <4>2. native.entry # None BY <1>2, <2>4, <3>4, <4>1
      <4>3. native'.entry = None \/ (Listed!Mode(native.entry) = "rstp" /\ native'.entry = Listed!DefaultSTP)
        BY <2>3, <3>4, <4>1, <4>2
      <4>4. Listed!Mode(native.entry) = "rstp" => c.todo = <<"rstp">>
        <5>1. Append(<<>>, "rstp") = <<"rstp">> OBVIOUS
        <5> QED BY <1>2, <2>1, <2>4, <3>4, <4>1, <5>1
      <4>5. native'.entry = None \/ (native'.entry = Listed!DefaultSTP' /\ call'.todo = <<"rstp">>)
        BY <3>4, <4>1, <4>3, <4>4 DEF Listed!DefaultSTP
      <4> QED BY <2>1, <3>2, <3>4, <4>1, <4>5 DEF Onward, StpVlanFirm
    <3>6. Plain(native.entry)' /\ Asked' BY <1>p, <3>2 DEF Plain, Asked, Single
    <3> QED BY <3>2, <3>4, <3>5, <3>6 DEF ListedFirm
  <2>6. CASE /\ ~\E v \in cache.listed : Listed!Mode(v) = Listed!Mode(Listed!seen)
             /\ Send({native}, cache, d)
    <3>1. ~call.quiet BY <1>2, <2>4, <2>6 DEF Listed!Agree
    <3>2. /\ UNCHANGED feature /\ DOMAIN call' = Fields
          /\ \A f \in Fields \ {"failed", "quiet"} : call'[f] = d[f]
      BY <1>0, <2>1, <2>6, SendIs
    <3>3. call'.job = call.job BY <2>1, <3>2 DEF Fields
    <3>4. ~call'.quiet BY <2>1, <2>6, <3>1, SendQuiet
    <3> QED BY <1>p, <3>2, <3>3, <3>4, NothingCalled, NobodyAsks
  <2> QED BY <2>2, <2>5, <2>6
<1>6. Listed!Range(call.todo) = Range(call.todo) BY DEF Range, Listed!Range
<1> QED BY <1>3, <1>4, <1>5, <1>6, Zenon DEF Listed!StpRemove

LEMMA StpVlanFirmly ==
    ASSUME ListedInv, ListedQuiet, ListedFirm, call # NoCall, Listed!VlanSpanningTree
    PROVE  ListedFirm'
<1>0. feature = "stpvlan" /\ Sure
  BY CarefulIsSure DEF Listed!VlanSpanningTree
<1>p. \A v : Plain(v) BY <1>0 DEF Plain
<1>1. CASE Listed!StpBegin
  <2>1. call.pc = "start" BY <1>1, ListedAt DEF Listed!StpBegin
  <2>2. call.quiet => call.todo = <<>> BY <2>1 DEF ListedFirm, Onward
  <2> QED BY <1>1, <2>1, <2>2, ListedGoesFirmly DEF Listed!StpBegin
<1>2. CASE Listed!StpWait BY <1>0, <1>2, StpWaitFirmly
<1>3. CASE Listed!StpWrite
  <2>1. call.pc = "act" BY <1>3, ListedAt DEF Listed!StpWrite
  <2>2. call.quiet => Listed!seen = native.entry /\ Listed!Agree(native.entry, cache.listed)
    <3>1. call.quiet => Looking BY <1>0, <2>1 DEF Looking, ListedQuiet, ListedFirm, Firm, Unlooked
    <3> QED BY <1>0, <2>1, <3>1, ListedLooks DEF ListedInv, Unlooked
  <2>3. CASE Listed!Goto("done") \/ Listed!Goto("refused") BY <2>1, <2>3, ListedGoesFirmly
  <2>4. CASE Listed!seen = None /\ Listed!Post(Listed!want, "done", {Listed!With(Listed!want)})
    BY <1>0, <1>p, <2>1, <2>2, <2>4, ListedPostFirmly DEF Listed!Agree
  <2>5. CASE /\ Listed!Differs /\ ~Listed!remove /\ Listed!seen # None
             /\ Listed!Put(Listed!want, "done", {Listed!With(Listed!want)})
    <3>1. call.quiet => Listed!want \notin cache.listed
      BY <2>2, <2>5 DEF Listed!Agree, Listed!Differs
    <3> QED BY <1>0, <1>p, <2>1, <2>5, <3>1, ListedPutFirmly
  <2> QED BY <1>3, <2>3, <2>4, <2>5 DEF Listed!StpWrite
<1>4. CASE Listed!StpRemove BY <1>0, <1>4, StpRemoveFirmly
<1> QED BY <1>1, <1>2, <1>3, <1>4 DEF Listed!VlanSpanningTree

LEMMA MedSure == ASSUME ListedInv, feature = "med" PROVE Sure /\ (call # NoCall => DOMAIN call = Fields)
BY CarefulIsSure DEF ListedInv, LookedInv, Shaped

LEMMA MedLabels ==
    ASSUME ListedInv, feature = "med", ListedFirm, call # NoCall, call.quiet
    PROVE  /\ MedTyped /\ Firm /\ Onward /\ MedFirm
           /\ call.pc # "read" => ~call.failed /\ unowned \in call.others
BY MedSure DEF ListedFirm, Onward, Firm

LEMMA MedRequestFirmly ==
    ASSUME ListedInv, ListedFirm, call # NoCall, call.pc # "read", feature = "med",
           NEW S, NEW x, NEW label, NEW e, Request(S, x, label, e),
           label \in {"attached", "detached", "check"},
           S \subseteq MedEntries, x.listed \subseteq Listed!MedValues,
           call.quiet => e = {} \/ S \subseteq e,
           call.quiet /\ label = "attached" => x.listed # {},
           call.quiet /\ label = "check" => x.listed = {call.job.value},
           call.quiet /\ label = "detached" =>
               /\ call.todo \in Seq(Listed!MedValues) /\ call.todo # <<>>
               /\ x.listed \subseteq Range(call.todo) /\ Head(call.todo) \notin x.listed
               /\ \A s \in S : s.entry = None
    PROVE  ListedFirm'
<1>0. Sure BY MedSure
<1>1. \A s \in S : Plain(s.entry) BY DEF Plain
<1>2. /\ Firm'
      /\ UNCHANGED feature /\ native' \in S \union {native} /\ cache' \in {cache, x}
      /\ call' # NoCall /\ call'.job = call.job /\ call'.seen = call.seen
      /\ call'.quiet => /\ call.quiet /\ call'.pc = "readback" /\ call'.then = label
                        /\ call'.todo = call.todo
                        /\ native' \in S /\ cache' = x
  BY <1>0, <1>1, ListedRequestFirmly
<1>3. MedTyped'
  <2>1. native' \in MedEntries /\ cache'.listed \subseteq Listed!MedValues
    BY <1>2 DEF ListedFirm, MedTyped
  <2> QED BY <1>2, <2>1 DEF ListedFirm, MedTyped, MedEntries, Listed!MedValues
<1>4. call'.quiet => MedFirm'
  <2>1. SUFFICES ASSUME call'.quiet PROVE MedFirm' OBVIOUS
  <2>2. /\ call'.pc = "readback" /\ call'.then = label /\ call'.todo = call.todo
        /\ native' \in S /\ cache' = x /\ call'.job = call.job /\ call.quiet
    BY <1>2, <2>1
  <2> QED BY <2>2 DEF MedFirm, Heading, Listed!MedValues
<1>5. call'.quiet => Onward' BY <1>2, <1>4 DEF Onward, VeFirm, StpVlanFirm
<1>6. Plain(native.entry)' /\ Asked' BY <1>2 DEF Plain, Asked, Single
<1> QED BY <1>2, <1>3, <1>5, <1>6 DEF ListedFirm

LEMMA MedContinuesFirmly ==
    ASSUME ListedInv, ListedFirm, call # NoCall, call.pc # "read", feature = "med", NEW c, Listed!Continue(c),
           c.pc = "detach", c.job = call.job, c.seen = call.seen, c.quiet = call.quiet,
           c.failed = call.failed, c.others = call.others,
           call.quiet =>
               /\ c.todo \in Seq(Listed!MedValues) /\ cache.listed \subseteq Range(c.todo)
               /\ native.entry # None => cache.listed # {}
               /\ cache.listed = c.cached.listed
    PROVE  ListedFirm'
<1>1. call' = c /\ UNCHANGED <<feature, native, cache, unowned>> BY ListedSame, ContinueIs
<1>2. call.quiet => ~call.failed /\ unowned \in call.others BY MedLabels
<1>3. call'.quiet => MedFirm'
  <2>1. SUFFICES ASSUME call'.quiet PROVE MedFirm' OBVIOUS
  <2> QED BY <1>1, <2>1 DEF MedFirm, Heading, Listed!MedValues
<1>4. call'.quiet => Onward' BY <1>1, <1>3 DEF Onward, VeFirm, StpVlanFirm
<1> QED BY <1>1, <1>2, <1>4, ListedContinuesFirmly

\* What is ranged over in any order is a sequence of all of it.
LEMMA OrdersAreSequences ==
    ASSUME NEW S, S \subseteq Listed!MedValues, NEW order \in Listed!Orders(S)
    PROVE  order \in Seq(Listed!MedValues) /\ Range(order) = S
<1>1. Cardinality(S) \in Nat
  <2>1. S \in SUBSET {1, 2} BY DEF Listed!MedValues
  <2> QED BY <2>1, OfTwoAtMost
<1>c. Listed!Cardinality(S) = Cardinality(S) BY DEF Listed!Cardinality, Cardinality
<1>2. PICK n \in Nat : n = Cardinality(S) BY <1>1
<1>3. order \in [1..n -> S] /\ \A t \in S : \E s \in 1..n : order[s] = t
  BY <1>2, <1>c DEF Listed!Orders, Listed!Surjection
<1>4. order \in Seq(S) BY <1>3
<1> QED BY <1>3, <1>4 DEF Range

LEMMA MedRecords ==
    ASSUME ListedInv, ListedFirm, feature = "med"
    PROVE  /\ MedTyped /\ Listed!Erased \in MedEntries /\ Listed!With(native.entry) = native
           /\ \A v \in Listed!MedValues : Listed!With(v) \in MedEntries
           /\ \A l : Listed!Listing(l).listed = l
<1>1. MedTyped BY DEF ListedFirm
<1>2. native \in MedEntries BY <1>1 DEF MedTyped
<1>3. Listed!With(native.entry) = native BY <1>2 DEF MedEntries, Listed!With
<1>4. Listed!Erased \in MedEntries BY <1>2 DEF MedEntries, Listed!Erased
<1>5. \A v \in Listed!MedValues : Listed!With(v) \in MedEntries BY <1>2 DEF MedEntries, Listed!With
<1>6. \A l : Listed!Listing(l).listed = l BY ListingShaped
<1> QED BY <1>1, <1>3, <1>4, <1>5, <1>6

\* A step from anywhere to the removal of what is listed.
LEMMA MedTurnsFirmly ==
    ASSUME ListedInv, ListedFirm, call # NoCall, call.pc # "read", feature = "med", NEW cached, NEW todo,
           \/ Listed!Continue([call EXCEPT !.pc = "detach", !.cached = cached, !.todo = todo])
           \/ /\ cached = call.cached
              /\ Listed!Continue([call EXCEPT !.pc = "detach", !.todo = todo])
           \/ /\ cached = call.cached /\ call.pc = "detach"
              /\ Listed!Continue([call EXCEPT !.todo = todo]),
           call.quiet =>
               /\ todo \in Seq(Listed!MedValues) /\ cache.listed \subseteq Range(todo)
               /\ native.entry # None => cache.listed # {}
               /\ cache.listed = cached.listed
    PROVE  ListedFirm'
<1>0. DOMAIN call = Fields BY MedSure
<1> DEFINE c == [call EXCEPT !.pc = "detach", !.cached = cached, !.todo = todo]
           d == [call EXCEPT !.pc = "detach", !.todo = todo]
           b == [call EXCEPT !.todo = todo]
<1>1. /\ c.pc = "detach" /\ c.job = call.job /\ c.seen = call.seen /\ c.quiet = call.quiet
      /\ c.failed = call.failed /\ c.others = call.others /\ c.todo = todo /\ c.cached = cached
  BY <1>0 DEF Fields
<1>2. /\ d.pc = "detach" /\ d.job = call.job /\ d.seen = call.seen /\ d.quiet = call.quiet
      /\ d.failed = call.failed /\ d.others = call.others /\ d.todo = todo /\ d.cached = call.cached
  BY <1>0 DEF Fields
<1>3. /\ b.pc = call.pc /\ b.job = call.job /\ b.seen = call.seen /\ b.quiet = call.quiet
      /\ b.failed = call.failed /\ b.others = call.others /\ b.todo = todo /\ b.cached = call.cached
  BY <1>0 DEF Fields
<1>. HIDE DEF c, d, b
<1>4. CASE Listed!Continue(c) BY <1>1, <1>4, MedContinuesFirmly
<1>5. CASE cached = call.cached /\ Listed!Continue(d) BY <1>2, <1>5, MedContinuesFirmly
<1>6. CASE cached = call.cached /\ call.pc = "detach" /\ Listed!Continue(b)
  BY <1>3, <1>6, MedContinuesFirmly
<1> QED BY <1>4, <1>5, <1>6 DEF c, d, b

LEMMA MedBeginFirmly ==
    ASSUME ListedInv, ListedQuiet, ListedFirm, call # NoCall, feature = "med", Listed!MedBegin
    PROVE  ListedFirm'
<1>1. call.pc = "start"
  <2>1. Listed!At("start") BY Zenon DEF Listed!MedBegin
  <2> QED BY <2>1, ListedAt
<1>2. call.quiet => call.seen = native /\ Listed!seen = native.entry /\ cache = call.cached
  BY <1>1, MedSure, ListedLooks DEF Unlooked, ListedFirm, Onward, Tracked
<1>3. MedTyped BY DEF ListedFirm
<1>4. CASE Listed!Goto("done") BY <1>1, <1>4, ListedGoesFirmly
<1>5. CASE /\ Listed!seen # None
           /\ Listed!Put(Listed!seen, "attached", {call.seen})
  <2> DEFINE S == {Listed!With(Listed!seen)} \union (IF Listed!seen \in cache.listed THEN {native} ELSE {})
             x == Listed!Listing(cache.listed \union {Listed!seen})
  <2>1. Request(S, x, "attached", {call.seen}) BY <1>5, ListedSame DEF Listed!Put
  <2>2. Listed!seen \in Listed!MedValues BY <1>3, <1>5 DEF MedTyped, MedEntries, Listed!seen
  <2>3. S \subseteq MedEntries BY <1>3, <2>2, MedRecords DEF MedTyped
  <2>4. x.listed # {} /\ x.listed \subseteq Listed!MedValues
    BY <1>3, <2>2, MedRecords DEF MedTyped
  <2>5. call.quiet => S \subseteq {call.seen} BY <1>2, MedRecords
  <2>. HIDE DEF S, x
  <2> QED BY <1>1, <2>1, <2>3, <2>4, <2>5, MedRequestFirmly
<1>6. CASE /\ ~(Listed!listed = {} /\ Listed!seen # None)
           /\ \E order \in Listed!Orders(Listed!listed) :
                  Listed!Continue([call EXCEPT !.pc = "detach", !.todo = order])
  <2>1. PICK order \in Listed!Orders(Listed!listed) :
                 Listed!Continue([call EXCEPT !.pc = "detach", !.todo = order])
    BY <1>6, Zenon
  <2>2. call.quiet => Listed!listed = cache.listed BY <1>2 DEF Listed!listed
  <2>3. call.quiet => order \in Seq(Listed!MedValues) /\ Range(order) = cache.listed
    BY <1>3, <2>1, <2>2, OrdersAreSequences DEF MedTyped
  <2>4. call.quiet => (native.entry # None => cache.listed # {}) BY <1>2, <1>6, <2>2
  <2> QED BY <1>1, <1>2, <2>1, <2>3, <2>4, MedTurnsFirmly, Zenon
<1> QED BY <1>4, <1>5, <1>6, Zenon DEF Listed!MedBegin

LEMMA MedAttachedFirmly ==
    ASSUME ListedInv, ListedQuiet, ListedFirm, call # NoCall, feature = "med", Listed!MedAttached
    PROVE  ListedFirm'
<1>1. call.pc = "attached"
  <2>1. Listed!At("attached") BY Zenon DEF Listed!MedAttached
  <2> QED BY <2>1, ListedAt
<1>2. call.quiet => cache.listed # {} BY <1>1, MedLabels DEF MedFirm, Heading
<1>3. CASE cache.listed = {} /\ Listed!Continue(Listed!Fail)
  <2>1. Listed!Goto("failed") BY <1>3, ListedSame DEF Goto, Fail
  <2> QED BY <1>1, <1>2, <1>3, <2>1, ListedGoesFirmly
<1>4. CASE \E order \in Listed!Orders(cache.listed) :
              Listed!Continue([call EXCEPT !.pc = "detach", !.cached = cache, !.todo = order])
  <2>1. PICK order \in Listed!Orders(cache.listed) :
              Listed!Continue([call EXCEPT !.pc = "detach", !.cached = cache, !.todo = order])
    BY <1>4, Zenon
  <2>2. order \in Seq(Listed!MedValues) /\ Range(order) = cache.listed
    BY <2>1, OrdersAreSequences DEF ListedFirm, MedTyped
  <2> QED BY <1>1, <1>2, <2>1, <2>2, MedTurnsFirmly, Zenon
<1> QED BY <1>3, <1>4, Zenon DEF Listed!MedAttached

\* The rest of a sequence has all but its head.
LEMMA RestHasTheOthers ==
    ASSUME NEW T, NEW q \in Seq(T), q # <<>>
    PROVE  Tail(q) \in Seq(T) /\ \A t \in Range(q) : t = Head(q) \/ t \in Range(Tail(q))
<1>1. Tail(q) \in Seq(T) OBVIOUS
<1>2. Head(q) = q[1] /\ Len(Tail(q)) = Len(q) - 1 /\ \A i \in 1..Len(q)-1 : Tail(q)[i] = q[i + 1]
  OBVIOUS
<1>3. ASSUME NEW t \in Range(q) PROVE t = Head(q) \/ t \in Range(Tail(q))
  <2>1. PICK i \in 1..Len(q) : t = q[i] BY DEF Range
  <2>2. CASE i = 1 BY <1>2, <2>1, <2>2
  <2>3. CASE i # 1
    <3>1. i - 1 \in 1..Len(q)-1 /\ Tail(q)[i - 1] = t BY <1>2, <2>1, <2>3
    <3>2. i - 1 \in DOMAIN Tail(q) BY <1>1, <1>2, <3>1
    <3> QED BY <3>1, <3>2 DEF Range
  <2> QED BY <2>2, <2>3
<1> QED BY <1>1, <1>3

LEMMA MedDetachFirmly ==
    ASSUME ListedInv, ListedQuiet, ListedFirm, call # NoCall, feature = "med", Listed!MedDetach
    PROVE  ListedFirm'
<1>1. call.pc = "detach" BY ListedAt DEF Listed!MedDetach
<1>2. call.quiet => /\ call.todo \in Seq(Listed!MedValues) /\ cache.listed \subseteq Range(call.todo)
                    /\ native.entry # None => cache.listed # {}
                    /\ cache.listed = Listed!listed /\ Listed!seen = native.entry
  BY <1>1, MedSure, MedLabels, ListedLooks DEF MedFirm, Unlooked, Listed!listed
<1>3. MedTyped BY DEF ListedFirm
<1>4. CASE call.todo # <<>> /\ Head(call.todo) \notin Listed!listed /\ Listed!Continue([call EXCEPT !.todo = Tail(@)])
  <2>1. call.quiet => Tail(call.todo) \in Seq(Listed!MedValues) /\ cache.listed \subseteq Range(Tail(call.todo))
    BY <1>2, <1>4, RestHasTheOthers
  <2>2. Listed!Continue([call EXCEPT !.todo = Tail(call.todo)]) BY <1>4
  <2>3. call.quiet => cache.listed = call.cached.listed BY <1>2 DEF Listed!listed
  <2> QED BY <1>1, <1>2, <2>1, <2>2, <2>3, MedTurnsFirmly, Zenon
<1>5. CASE /\ call.todo # <<>>
           /\ Listed!Request({Listed!Erased}, Listed!Listing(cache.listed \ {Head(call.todo)}), "detached", {})
  <2> DEFINE x == Listed!Listing(cache.listed \ {Head(call.todo)})
  <2>1. x.listed = cache.listed \ {Head(call.todo)} BY MedRecords
  <2>2. x.listed \subseteq Listed!MedValues BY <1>3, <2>1 DEF MedTyped
  <2>3. {Listed!Erased} \subseteq MedEntries /\ \A s \in {Listed!Erased} : s.entry = None
    BY MedRecords, EntriesShaped
  <2>4. Request({Listed!Erased}, x, "detached", {}) BY <1>5, ListedSame
  <2>. HIDE DEF x
  <2> QED BY <1>1, <1>2, <1>5, <2>1, <2>2, <2>3, <2>4, MedRequestFirmly
<1>6. CASE Head(call.todo) \in Listed!listed /\ Head(call.todo) \notin cache.listed /\ Listed!Ignored("detached", {})
  BY <1>1, <1>2, <1>6, IgnoredFirmly
<1>7. CASE call.todo = <<>> /\ (Listed!seen # None \/ cache.listed # {}) /\ Listed!Goto("failed")
  <2>1. Range(<<>>) = {} BY DEF Range
  <2> QED BY <1>1, <1>2, <1>7, <2>1, ListedGoesFirmly
<1>8. CASE Listed!Goto("done") BY <1>1, <1>8, ListedGoesFirmly
<1>9. CASE /\ call.todo = <<>> /\ cache.listed = {}
           /\ Listed!Put(Listed!want, "check", {Listed!With(Listed!want)})
  <2> DEFINE S == {Listed!With(Listed!want)} \union (IF Listed!want \in cache.listed THEN {native} ELSE {})
             x == Listed!Listing(cache.listed \union {Listed!want})
  <2>1. Request(S, x, "check", {Listed!With(Listed!want)}) BY <1>9, ListedSame DEF Listed!Put
  <2>2. Listed!want \in Listed!MedValues BY <1>3 DEF MedTyped, Listed!want
  <2>3. S \subseteq MedEntries BY <1>3, <2>2, MedRecords DEF MedTyped
  <2>4. x.listed = {Listed!want} /\ x.listed \subseteq Listed!MedValues /\ S = {Listed!With(Listed!want)}
    BY <1>9, <2>2, MedRecords
  <2>5. Listed!want = call.job.value BY DEF Listed!want
  <2>. HIDE DEF S, x
  <2> QED BY <1>1, <2>1, <2>3, <2>4, <2>5, MedRequestFirmly
<1> QED BY <1>4, <1>5, <1>6, <1>7, <1>8, <1>9 DEF Listed!MedDetach

LEMMA MedFirmly ==
    ASSUME ListedInv, ListedQuiet, ListedFirm, call # NoCall, Listed!MedPolicy
    PROVE  ListedFirm'
<1>0. feature = "med" BY DEF Listed!MedPolicy
<1>1. CASE Listed!MedBegin BY <1>0, <1>1, MedBeginFirmly
<1>2. CASE Listed!MedAttached BY <1>0, <1>2, MedAttachedFirmly
<1>3. CASE Listed!MedDetach BY <1>0, <1>3, MedDetachFirmly
<1>4. CASE Listed!MedDetached
  <2>1. call.pc = "detached" BY <1>4, ListedAt DEF Listed!MedDetached
  <2>2. call.quiet => /\ call.todo \in Seq(Listed!MedValues) /\ cache.listed \subseteq Range(call.todo)
                      /\ native.entry = None /\ call.todo # <<>> /\ Head(call.todo) \notin cache.listed
    BY <1>0, <2>1, MedLabels DEF MedFirm, Heading
  <2>3. CASE Head(call.todo) \in cache.listed /\ Listed!Continue(Listed!Fail)
    <3>1. Listed!Goto("failed") BY <2>3, ListedSame DEF Goto, Fail
    <3> QED BY <2>1, <2>2, <2>3, <3>1, ListedGoesFirmly
  <2>4. CASE Listed!Continue([call EXCEPT !.pc = "detach", !.cached = cache, !.todo = Tail(call.todo)])
    <3>1. call.quiet => Tail(call.todo) \in Seq(Listed!MedValues) /\ cache.listed \subseteq Range(Tail(call.todo))
      BY <2>2, RestHasTheOthers
    <3> QED BY <1>0, <2>1, <2>2, <2>4, <3>1, MedTurnsFirmly, Zenon
  <2> QED BY <1>4, <2>3, <2>4 DEF Listed!MedDetached
<1>5. CASE Listed!MedCheck
  <2>1. call.pc = "check" BY <1>5, ListedAt DEF Listed!MedCheck
  <2>2. call.quiet => cache.listed = {Listed!want}
    BY <1>0, <2>1, MedLabels DEF MedFirm, Heading, Listed!want
  <2> QED BY <1>5, <2>1, <2>2, ListedGoesFirmly DEF Listed!MedCheck, Listed!Accept
<1> QED BY <1>1, <1>2, <1>3, <1>4, <1>5 DEF Listed!MedPolicy

LEMMA SettingsOfEntries ==
    ASSUME NEW s \in Listed!Settings(feature)
    PROVE  Plain(s.entry) /\ (feature = "med" => s \in MedEntries)
<1> DEFINE All == {Listed!Entry(v, p, c) : v \in Listed!ValuesOf[feature] \union {None},
                                          p \in BOOLEAN, c \in BOOLEAN}
<1>1. s \in All BY DEF Listed!Settings
<1>2. PICK v \in Listed!ValuesOf[feature] \union {None}, p \in BOOLEAN, c \in BOOLEAN :
          s = [entry |-> v, parent |-> p, child |-> c]
  BY <1>1 DEF Listed!Entry
<1>3. feature \in {"dns", "area"} => Listed!ValuesOf[feature] = {1}
  BY DEF Listed!ValuesOf, Listed!DnsValues, Listed!AreaValues
<1>4. feature = "binding" => Listed!ValuesOf[feature] = 1..2
  BY DEF Listed!ValuesOf, Listed!BindingValues
<1>5. feature = "med" => Listed!ValuesOf[feature] = Listed!MedValues BY DEF Listed!ValuesOf
<1> QED BY <1>2, <1>3, <1>4, <1>5 DEF Plain, MedEntries

LEMMA WantedOfEntries ==
    ASSUME NEW job \in Listed!Wanted(feature)
    PROVE  /\ feature \in Single /\ ~job.remove => job.value = 1
           /\ feature = "med" => job.value \in Listed!MedValues
<1>1. \/ ~job.remove /\ job.value \in IF feature = "binding" THEN {1} ELSE Listed!ValuesOf[feature]
      \/ /\ job.remove
         /\ job.value \in IF feature \in {"route", "address"} THEN Listed!ValuesOf[feature] ELSE {1}
  BY DEF Listed!Wanted, Listed!Job
<1>2. feature \in {"dns", "area"} => Listed!ValuesOf[feature] = {1}
  BY DEF Listed!ValuesOf, Listed!DnsValues, Listed!AreaValues
<1>3. feature = "med" => Listed!ValuesOf[feature] = Listed!MedValues BY DEF Listed!ValuesOf
<1> QED BY <1>1, <1>2, <1>3 DEF Single, Listed!MedValues

LEMMA ListedFirmInit == ASSUME Listed!Init PROVE ListedFirm
<1>1. /\ call = NoCall /\ native \in Listed!Settings(feature) /\ cache \in Listed!Copies(feature)
      /\ feature \in Listed!Features
  BY ListedSame DEF Listed!Init
<1>2. Plain(native.entry) /\ (feature = "med" => native \in MedEntries) BY <1>1, SettingsOfEntries
<1>3. cache.listed \in Listed!ListingsOf[feature] /\ cache.shape \in Listed!Shapes(feature, cache.listed)
  BY <1>1 DEF Listed!Copies
<1>4. feature = "address" => cache.listed = {} /\ cache.shape = "container"
  BY <1>3 DEF Listed!ListingsOf, Listed!AddressListings, Listed!Shapes
<1>5. feature = "med" => cache.listed \subseteq Listed!MedValues
  BY <1>3 DEF Listed!ListingsOf, Listed!MedListings
<1> QED BY <1>1, <1>2, <1>4, <1>5 DEF ListedFirm, MedTyped

LEMMA ListedReadbackFirmly ==
    ASSUME ListedInv, ListedFirm, Readback PROVE ListedFirm'
<1>0. call # NoCall /\ call.pc = "readback" /\ DOMAIN call = Fields
  BY NothingCalled DEF Readback, ListedInv, LookedInv, Shaped
<1>1. call.quiet => call.then \in {"done", "poll", "attached", "detached", "check"}
  BY <1>0 DEF ListedFirm, Onward
<1>2. /\ UNCHANGED <<feature, native, cache, unowned>>
      /\ DOMAIN call' = Fields /\ call'.job = call.job /\ (call'.seen = call.seen \/ call'.seen = native)
      /\ \A f \in {"before", "cached"} : call'[f] = call[f]
  BY <1>0 DEF Readback, Faulty, Sound, switch, Fail, Fields
<1>3. Sure' <=> Sure BY <1>2, SureStays
<1>4. Sure => Firm' BY <1>0, <1>1, ReadbackFirmly DEF ListedFirm
<1>5. call'.quiet => Onward'
  <2>1. SUFFICES ASSUME call'.quiet PROVE Onward' OBVIOUS
  <2>2. /\ call.quiet /\ call'.pc \in {call.then, "failed"}
        /\ \A f \in Fields \ {"pc", "fresh", "seen"} : call'[f] = call[f]
    BY <1>0, <2>1, ReadbackQuiet
  <2>3. call'.then = call.then /\ call'.expect = call.expect /\ call'.todo = call.todo
    BY <2>2 DEF Fields
  <2>4. Onward BY <1>0, <2>2 DEF ListedFirm, Onward
  <2>5. call'.pc \in {"done", "poll", "attached", "detached", "check", "failed"} BY <1>1, <2>2
  <2>6. feature = "ve" => VeFirm'
    <3>1. Reaches(native)' <=> Reaches(native) BY <1>2 DEF Reaches
    <3> QED BY <1>0, <1>2, <1>3, <2>2, <2>3, <2>4, <2>5, <3>1 DEF Onward, VeFirm
  <2>7. feature = "stpvlan" => StpVlanFirm' BY <2>5 DEF StpVlanFirm
  <2>8. feature = "med" => MedFirm'
    BY <1>0, <1>1, <1>2, <2>2, <2>3, <2>4, <2>5 DEF Onward, MedFirm, Heading, Listed!MedValues
  <2> QED BY <1>2, <2>5, <2>6, <2>7, <2>8 DEF Onward
<1>6. Plain(native.entry)' /\ Asked' BY <1>0, <1>2 DEF ListedFirm, Plain, Asked
<1>7. feature = "med" => MedTyped'
  BY <1>0, <1>2 DEF ListedFirm, MedTyped, MedEntries, Listed!MedValues
<1> QED BY <1>0, <1>2, <1>3, <1>4, <1>5, <1>6, <1>7 DEF ListedFirm

LEMMA ListedStartFirmly ==
    ASSUME ListedInv, ListedFirm, Listed!Start PROVE ListedFirm'
<1>0. call # NoCall /\ call.pc = "read" /\ DOMAIN call = Fields
  BY ListedAt DEF Listed!Start, ListedInv, LookedInv, Shaped
<1>1. CASE Listed!TimesOut BY <1>0, <1>1, ListedTimesOutFirmly
<1>2. CASE Listed!Continue([Listed!Observed EXCEPT !.pc = "start"])
  <2> DEFINE c == [Listed!Observed EXCEPT !.pc = "start"]
  <2>1. /\ c.pc = "start" /\ c.seen = native /\ c.before = native /\ c.cached = cache
        /\ unowned \in c.others /\ c.job = call.job /\ c.failed = call.failed /\ c.quiet = call.quiet
        /\ c.todo = call.todo
    BY <1>0, ListedSame, PreservedHas DEF Listed!Observed, Fields, ListedInv, LookedInv
  <2>. HIDE DEF c
  <2>2. call' = c /\ UNCHANGED <<feature, native, cache, unowned>> BY <1>2, ListedSame, ContinueIs DEF c
  <2>3. call.quiet => ~call.failed /\ call.todo = <<>> BY <1>0 DEF ListedFirm, Onward
  <2>4. call'.quiet => Onward'
    BY <2>1, <2>2, <2>3 DEF Onward, Tracked, VeFirm, StpVlanFirm, MedFirm, Heading
  <2> QED BY <1>0, <1>2, <2>1, <2>2, <2>3, <2>4, ListedContinuesFirmly DEF c
<1> QED BY <1>1, <1>2 DEF Listed!Start

LEMMA ListedBeginFirmly ==
    ASSUME ListedInv, ListedFirm, NEW job \in Listed!Wanted(feature), Begin(job) PROVE ListedFirm'
<1>1. /\ call' # NoCall /\ UNCHANGED <<feature, native, cache, unowned>>
      /\ call'.pc = "read" /\ call'.job = job
  BY BeginIs DEF ListedInv
<1>2. call'.todo = <<>> /\ ~call'.failed /\ call'.seen = native /\ Firm' BY BeginFirmly DEF Begin
<1>3. Onward' BY <1>1, <1>2 DEF Onward, VeFirm, StpVlanFirm, MedFirm, Heading
<1>4. Plain(native.entry)' BY <1>1 DEF ListedFirm, Plain
<1>5. Asked' BY <1>1, WantedOfEntries DEF Asked
<1>6. feature = "med" => MedTyped'
  BY <1>1, <1>2, WantedOfEntries DEF ListedFirm, MedTyped, MedEntries, Listed!MedValues
<1> QED BY <1>1, <1>2, <1>3, <1>4, <1>5, <1>6 DEF ListedFirm

LEMMA ListedSyncFirmly ==
    ASSUME ListedInv, ListedFirm, Listed!CacheSyncs PROVE ListedFirm'
<1> DEFINE values == IF native.entry = None THEN {} ELSE {native.entry}
<1>1. /\ feature # "address" /\ UNCHANGED <<feature, native, unowned>>
      /\ cache' = Listed!Listing(values)
      /\ call' = IF feature = "med" /\ call # NoCall THEN [call EXCEPT !.quiet = FALSE] ELSE call
  BY ListedSame DEF Listed!CacheSyncs, Idle
<1>2. cache'.listed = values /\ (values = {} => cache'.shape = cache.shape)
  BY <1>1 DEF ListedInv, ListShaped, Listed!Listing
<1>3. Plain(native.entry)' BY <1>1 DEF ListedFirm, Plain
<1>4. CASE feature = "med"
  <2>1. call # NoCall => DOMAIN call = Fields BY DEF ListedInv, LookedInv, Shaped
  <2>2. call' # NoCall => /\ ~call'.quiet /\ call # NoCall
                          /\ call'.job = call.job /\ call'.seen = call.seen
    BY <1>1, <1>4, <2>1 DEF Fields
  <2>3. MedTyped'
    BY <1>1, <1>2, <1>4, <2>2 DEF ListedFirm, MedTyped, MedEntries, Listed!MedValues
  <2> QED BY <1>1, <1>3, <1>4, <2>2, <2>3 DEF ListedFirm, Firm, Asked, Single
<1>5. CASE feature # "med"
  <2>1. call' = call BY <1>1, <1>5
  <2>2. call # NoCall => (Sure' <=> Sure) BY <1>1, <2>1, SureStays
  <2>3. Firm => Firm' BY <1>1, <2>1 DEF Firm
  <2>4. Tracked => Tracked'
    <3>1. Listed!Agree(native.entry, cache.listed)' BY <1>1, <1>2 DEF Listed!Agree
    <3>2. Tracked /\ native.entry = None => cache'.shape = call.cached.shape
      BY <1>2 DEF Tracked
    <3> QED BY <1>1, <1>5, <2>1, <3>1, <3>2 DEF Tracked
  <2>5. Onward => Onward'
    <3>1. Reaches(native)' <=> Reaches(native) BY <1>1, <2>1 DEF Reaches
    <3>2. Sure' <=> Sure BY <1>1, <2>1, SureStays
    <3>3. VeFirm => VeFirm' BY <2>1, <3>1, <3>2 DEF VeFirm
    <3> QED BY <1>1, <1>5, <2>1, <2>4, <3>3 DEF Onward, StpVlanFirm, Listed!DefaultSTP, Simple
  <2>6. call # NoCall => Asked' BY <1>1, <2>1 DEF ListedFirm, Asked, Single
  <2> QED BY <1>1, <1>3, <1>5, <2>1, <2>2, <2>3, <2>5, <2>6 DEF ListedFirm
<1> QED BY <1>4, <1>5

LEMMA ListedOutsideFirmly ==
    ASSUME ListedInv, ListedFirm, Listed!Outside PROVE ListedFirm'
<1>1. Interference(Listed!Settings(feature)) BY ListedSame DEF Listed!Outside
<1>2. /\ UNCHANGED <<feature, cache>> /\ (native' = native \/ native' \in Listed!Settings(feature))
      /\ \/ call = NoCall /\ call' = NoCall
         \/ /\ call # NoCall /\ call' # NoCall
            /\ \A f \in Fields \ {"quiet", "fresh"} : call'[f] = call[f]
  BY <1>1, InterferenceIs DEF ListedInv, Interference
<1>3. Plain(native'.entry) /\ (feature = "med" => native' \in MedEntries)
  BY <1>2, SettingsOfEntries DEF ListedFirm, MedTyped
<1>4. Plain(native.entry)' BY <1>2, <1>3 DEF Plain
<1>5. CASE call = NoCall
  BY <1>2, <1>3, <1>4, <1>5 DEF ListedFirm, MedTyped, MedEntries, Listed!MedValues
<1>6. CASE call # NoCall
  <2>1. DOMAIN call = Fields BY <1>6 DEF ListedInv, LookedInv, Shaped
  <2>2. ~call'.quiet BY <1>1, <2>1, InterferenceQuiet
  <2>3. call' # NoCall /\ call'.job = call.job /\ call'.seen = call.seen BY <1>2, <1>6 DEF Fields
  <2>4. feature = "med" => MedTyped'
    BY <1>2, <1>3, <1>6, <2>3 DEF ListedFirm, MedTyped, MedEntries, Listed!MedValues
  <2>5. Asked' BY <1>2, <1>6, <2>3 DEF ListedFirm, Asked, Single
  <2> QED BY <1>2, <1>4, <2>2, <2>4, <2>5 DEF ListedFirm, Firm
<1> QED BY <1>5, <1>6

LEMMA ListedFirmHolds ==
    ASSUME ListedInv, ListedQuiet, ListedFirm, Listed!Next PROVE ListedFirm'
<1>a. ASSUME NEW label, Listed!At(label), label # "idle" PROVE call # NoCall
  BY <1>a, ListedAt
<1>b. ASSUME call' = NoCall, UNCHANGED <<feature, native, cache>> PROVE ListedFirm'
  BY <1>b DEF ListedFirm, Plain, MedTyped, MedEntries, Listed!MedValues
<1>1. CASE \E job \in Listed!Wanted(feature) : Listed!Begin(job)
  BY <1>1, ListedSame, ListedBeginFirmly
<1>2. CASE Listed!Start BY <1>2, ListedStartFirmly
<1>3. CASE Listed!Readback BY <1>3, ListedSame, ListedReadbackFirmly
<1>4. CASE Listed!Refuse \/ Listed!Return
  BY <1>4, <1>b, ListedSame, EndIs DEF ListedInv
<1>5. CASE Listed!Reject
  <2>1. Listed!At("start") /\ Listed!Goto("refused") BY <1>5 DEF Listed!Reject
  <2> QED BY <2>1, ListedAt, ListedGoesFirmly
<1>6. CASE Listed!DnsServer \/ Listed!OspfArea \/ Listed!OspfBinding \/ Listed!StaticRoute
           \/ Listed!InterfaceAddress
  <2>1. Listed!OneRequest /\ feature \in Simple
    BY <1>6 DEF Listed!DnsServer, Listed!OspfArea, Listed!OspfBinding, Listed!StaticRoute,
                Listed!InterfaceAddress, Simple
  <2> QED BY <2>1, OneRequestFirmly
<1>7. CASE Listed!RoutedInterface
  <2>1. call # NoCall
    BY <1>7, <1>a DEF Listed!RoutedInterface, Listed!VeWrite, Listed!VeRemove, Listed!VePoll
  <2> QED BY <1>7, <2>1, VeFirmly
<1>8. CASE Listed!VlanSpanningTree
  <2>1. call # NoCall
    BY <1>8, <1>a, Zenon DEF Listed!VlanSpanningTree, Listed!StpBegin, Listed!StpWait, Listed!StpWrite,
                      Listed!StpRemove
  <2> QED BY <1>8, <2>1, StpVlanFirmly
<1>9. CASE Listed!MedPolicy
  <2>1. call # NoCall
    BY <1>9, <1>a, Zenon DEF Listed!MedPolicy, Listed!MedBegin, Listed!MedAttached, Listed!MedDetach,
                      Listed!MedDetached, Listed!MedCheck
  <2> QED BY <1>9, <2>1, MedFirmly
<1>10. CASE Listed!CacheSyncs BY <1>10, ListedSyncFirmly
<1>11. CASE Listed!Outside BY <1>11, ListedOutsideFirmly
<1>12. CASE Listed!Finished
  <2>1. call = NoCall /\ call' = NoCall /\ UNCHANGED <<feature, native, cache>>
    BY <1>12, ListedSame DEF Finished, Idle, vars, switch
  <2> QED BY <1>b, <2>1
<1> QED BY <1>1, <1>2, <1>3, <1>4, <1>5, <1>6, <1>7, <1>8, <1>9, <1>10, <1>11, <1>12
        DEF Listed!Next, Listed!Apply

LEMMA ListedSucceed == ASSUME ListedFirm PROVE Listed!QuietCallSucceeds
<1>1. Fails => call # NoCall /\ (call.pc = "failed" \/ call.failed) BY NothingCalled DEF Fails
<1>2. Listed!Stuck => call # NoCall /\ feature = "ve" /\ call.pc = "poll" /\ ~Reaches(native)
  BY ListedAt DEF Listed!Stuck, Reaches, Listed!want, Listed!remove
<1>3. call.quiet /\ (Fails \/ Listed!Stuck) => ~Sure
  BY <1>1, <1>2 DEF ListedFirm, Firm, Onward, VeFirm
<1> QED BY <1>3, ListedSame DEF Sure, Listed!QuietCallSucceeds

-----------------------------------------------------------------------------
(* Settings: an undisturbed call knows how copy and switch stand.          *)

\* The values each field may take.
Bound ==
    [dscptrust |-> [value |-> 1],
     protectedport |-> [value |-> 1],
     jumbo |-> [value |-> 1],
     poe |-> [value |-> 2],
     voicevlan |-> [value |-> 2],
     lldp |-> [value |-> 2],
     lldpglobal |-> [value |-> 1],
     ethernet |-> [name |-> 2, enabled |-> 1],
     lag |-> [name |-> 1, enabled |-> 1, members |-> 2],
     stp |-> [edge |-> 1, guard |-> 1],
     igmpglobal |-> [mode |-> 2, version |-> 1],
     igmpvlan |-> [mode |-> 3, version |-> 1],
     storm |-> [broadcast |-> 3, multicast |-> 1]]

\* Of which of them RESTCONF has an entry.
Shown ==
    [dscptrust |-> [value |-> {0, 1}],
     protectedport |-> [value |-> {1}],
     jumbo |-> [value |-> {0, 1}],
     poe |-> [value |-> {0, 1, 2}],
     voicevlan |-> [value |-> {1, 2}],
     lldp |-> [value |-> {0, 1}],
     lldpglobal |-> [value |-> {0, 1}],
     ethernet |-> [name |-> {0, 1, 2}, enabled |-> {0, 1}],
     lag |-> [name |-> {0, 1}, enabled |-> {0, 1}, members |-> {0}],
     stp |-> [edge |-> {0, 1}, guard |-> {0, 1}],
     igmpglobal |-> [mode |-> {1, 2}, version |-> {1}],
     igmpvlan |-> [mode |-> {1, 2}, version |-> {1}],
     storm |-> [broadcast |-> {1, 2, 3}, multicast |-> {1}]]

Span(x) == 0..Bound[feature][x]

Box ==
    {s \in Raw :
        /\ \A x \in FieldsOf[feature] : s[x] \in Span(x)
        /\ feature = "lag" => s.members \in {s.enabled, 2}}

\* Only of an aggregate has RESTCONF always an entry.
Copied(c) ==
    /\ DOMAIN c = FieldsOf[feature]
    /\ \A x \in FieldsOf[feature] : c[x] \in Span(x) \/ (feature # "lag" /\ c[x] = None)

Placed ==
    /\ native \in Box \union {Gone} /\ Copied(cache) /\ unowned \in Rest
    /\ Working => native \in Box /\ call.seen \in Box /\ call.before \in Box /\ Copied(call.cached)

\* A call may fail because what it is about is gone.
Hopeless == call.pc \in {"done", "failed"} /\ call.before = Gone

Matches == Values!Agrees(native, call.job.value)
Own(x) == cache[x] \in {native[x], None}

CopyTrue == cache.value = 1 <=> native.value = 1

\* The copy when the call began, or rebuilt since.
Followed(x) ==
    \/ cache[x] = call.cached[x]
    \/ IF feature \in {"lldp", "lldpglobal"} THEN CopyTrue ELSE Own(x)

StartKnows ==
    Toward("start") =>
        /\ native = call.before
        /\ Matches => feature = "stp" /\ call.job.remove
        /\ feature = "lag" => native.members # 2
        /\ feature # "lag" => \A x \in FieldsOf[feature] : Followed(x)

\* No copy hides a change.
Unmasked == \A x \in FieldsOf[feature] : native[x] # call.job.value[x] => cache[x] # call.job.value[x]

DscpTrustKnows ==
    feature = "dscptrust" => (Toward("aligned") => native = call.before /\ cache.value = native.value)

StpKnows ==
    feature = "stp" =>
        /\ Toward("wait") => \A x \in FieldsOf[feature] : cache[x] = native[x]
        /\ Toward("entry") \/ Toward("forgotten") => native = call.job.value
        /\ Toward("forgotten") => call.job.remove /\ \A x \in FieldsOf[feature] : cache[x] = None

LldpKnows ==
    feature \in {"lldp", "lldpglobal"} =>
        /\ Toward("primed") \/ Toward("aligned") => CopyTrue /\ ~Matches
        /\ Toward("follow") => CopyTrue /\ Matches

WriteKnows == feature \in {"ethernet", "storm"} => (Toward("write") => Unmasked)

LagKnows ==
    feature = "lag" =>
        /\ Toward("rename") =>
             /\ native = call.before /\ native.members # 2
             /\ cache.name = native.name /\ native.name # call.job.value.name
        /\ Toward("admin") \/ Toward("disable") =>
             /\ native.name = call.job.value.name /\ native.members # 2
             /\ native.enabled # call.job.value.enabled
        /\ Toward("disable") => native.enabled = 0 /\ cache.enabled = 0
        /\ Toward("poll") \/ Toward("check") => native = call.job.value

Leaving == {"voicevlan", "protectedport", "igmpglobal", "igmpvlan"}

LeafKnows ==
    feature \in Leaving =>
        /\ Toward("clear") \/ Toward("set") \/ Toward("unset") =>
             /\ call.todo \in Seq(FieldsOf[feature])
             /\ \A x \in FieldsOf[feature] \ Range(call.todo) : native[x] = call.job.value[x]
        /\ Toward("set") \/ Toward("unset") => call.todo # <<>>
        /\ Toward("set") => Own(Head(call.todo))
        /\ Toward("unset") =>
             LET x == Head(call.todo)
             IN  \/ native[x] = call.job.value[x]
                 \/ /\ call.job.value[x] = 0 /\ cache[x] = native[x]
                    /\ native[x] \in Values!Expressible(feature, x)

\* What is to be taken away or changed has its entry.
Entered == \A x \in FieldsOf[feature] : native[x] \notin {0, call.job.value[x]} => cache[x] = native[x]

LimitsKnow ==
    feature = "storm" =>
        /\ Toward("reset") =>
             /\ native = call.before /\ Entered
             /\ Values!UnitOf(native) # Values!UnitOf(call.job.value) =>
                  \A x \in FieldsOf[feature] : native[x] # 0 => cache[x] = native[x]
        /\ Toward("drop") => Entered
        /\ Toward("invalidate") =>
             /\ Entered /\ call.todo \in Seq(FieldsOf[feature])
             /\ \A x \in Range(call.todo) : native[x] = 0
             /\ \A x \in FieldsOf[feature] :
                  /\ call.job.value[x] = 0 => native[x] = 0
                  /\ native[x] = 0 /\ call.job.value[x] # 0 => x \in Range(call.todo) \/ cache[x] = None

ValuesKnow ==
    /\ call.pc \notin {"readback", "rename", "admin", "disable", "poll"} => call.seen = native
    /\ call.pc = "readback" => call.then \notin {"failed", "read", "readback", "done"}
    /\ StartKnows /\ DscpTrustKnows /\ StpKnows /\ LldpKnows /\ WriteKnows /\ LagKnows /\ LeafKnows
    /\ LimitsKnow
    /\ Toward("check") => Matches

ValuesFirm ==
    /\ Placed
    /\ Firm \/ Hopeless
    /\ Working /\ call.quiet => ValuesKnow

LEMMA FeaturesAre ==
    Values!Features = {"dscptrust", "protectedport", "jumbo", "poe", "voicevlan", "lldp", "lldpglobal",
                       "ethernet", "lag", "stp", "igmpglobal", "igmpvlan", "storm"}
BY DEF Values!Features, Values!SettingsOf

LEMMA SettingsFit ==
    ASSUME feature \in Values!Features
    PROVE  Values!SettingsOf[feature] \subseteq Box
<1>1. CASE feature = "dscptrust"
  <2>1. /\ Values!SettingsOf[feature] = Values!DscpTrustSettings /\ FieldsOf[feature] = {"value"}
        /\ Bound[feature] = [value |-> 1]
    BY <1>1 DEF Values!SettingsOf, FieldsOf, Bound
  <2>2. \A s \in Values!DscpTrustSettings : s \in [{"value"} -> 0..3] /\ s.value \in 0..1
    BY DEF Values!DscpTrustSettings
  <2> QED BY <1>1, <2>1, <2>2 DEF Box, Raw, Span
<1>2. CASE feature = "protectedport"
  <2>1. /\ Values!SettingsOf[feature] = Values!ProtectedPortSettings /\ FieldsOf[feature] = {"value"}
        /\ Bound[feature] = [value |-> 1]
    BY <1>2 DEF Values!SettingsOf, FieldsOf, Bound
  <2>2. \A s \in Values!ProtectedPortSettings : s \in [{"value"} -> 0..3] /\ s.value \in 0..1
    BY DEF Values!ProtectedPortSettings
  <2> QED BY <1>2, <2>1, <2>2 DEF Box, Raw, Span
<1>3. CASE feature = "jumbo"
  <2>1. /\ Values!SettingsOf[feature] = Values!JumboSettings /\ FieldsOf[feature] = {"value"}
        /\ Bound[feature] = [value |-> 1]
    BY <1>3 DEF Values!SettingsOf, FieldsOf, Bound
  <2>2. \A s \in Values!JumboSettings : s \in [{"value"} -> 0..3] /\ s.value \in 0..1
    BY DEF Values!JumboSettings
  <2> QED BY <1>3, <2>1, <2>2 DEF Box, Raw, Span
<1>4. CASE feature = "poe"
  <2>1. /\ Values!SettingsOf[feature] = Values!PoeSettings /\ FieldsOf[feature] = {"value"}
        /\ Bound[feature] = [value |-> 2]
    BY <1>4 DEF Values!SettingsOf, FieldsOf, Bound
  <2>2. \A s \in Values!PoeSettings : s \in [{"value"} -> 0..3] /\ s.value \in 0..2
    BY DEF Values!PoeSettings
  <2> QED BY <1>4, <2>1, <2>2 DEF Box, Raw, Span
<1>5. CASE feature = "voicevlan"
  <2>1. /\ Values!SettingsOf[feature] = Values!VoiceVlanSettings /\ FieldsOf[feature] = {"value"}
        /\ Bound[feature] = [value |-> 2]
    BY <1>5 DEF Values!SettingsOf, FieldsOf, Bound
  <2>2. \A s \in Values!VoiceVlanSettings : s \in [{"value"} -> 0..3] /\ s.value \in 0..2
    BY DEF Values!VoiceVlanSettings
  <2> QED BY <1>5, <2>1, <2>2 DEF Box, Raw, Span
<1>6. CASE feature = "lldp"
  <2>1. /\ Values!SettingsOf[feature] = Values!LldpSettings /\ FieldsOf[feature] = {"value"}
        /\ Bound[feature] = [value |-> 2]
    BY <1>6 DEF Values!SettingsOf, FieldsOf, Bound
  <2>2. \A s \in Values!LldpSettings : s \in [{"value"} -> 0..3] /\ s.value \in 0..2
    BY DEF Values!LldpSettings
  <2> QED BY <1>6, <2>1, <2>2 DEF Box, Raw, Span
<1>7. CASE feature = "lldpglobal"
  <2>1. /\ Values!SettingsOf[feature] = Values!LldpGlobalSettings /\ FieldsOf[feature] = {"value"}
        /\ Bound[feature] = [value |-> 1]
    BY <1>7 DEF Values!SettingsOf, FieldsOf, Bound
  <2>2. \A s \in Values!LldpGlobalSettings : s \in [{"value"} -> 0..3] /\ s.value \in 0..1
    BY DEF Values!LldpGlobalSettings
  <2> QED BY <1>7, <2>1, <2>2 DEF Box, Raw, Span
<1>8. CASE feature = "ethernet"
  <2>1. /\ Values!SettingsOf[feature] = Values!EthernetSettings /\ FieldsOf[feature] = {"name", "enabled"}
        /\ Bound[feature] = [name |-> 2, enabled |-> 1]
    BY <1>8 DEF Values!SettingsOf, FieldsOf, Bound
  <2>2. \A s \in Values!EthernetSettings : s \in [{"name", "enabled"} -> 0..3] /\ s.name \in 0..2 /\ s.enabled \in 0..1
    BY DEF Values!EthernetSettings
  <2> QED BY <1>8, <2>1, <2>2 DEF Box, Raw, Span
<1>9. CASE feature = "lag"
  <2>1. /\ Values!SettingsOf[feature] = Values!LagInterfaceSettings /\ FieldsOf[feature] = {"name", "enabled", "members"}
        /\ Bound[feature] = [name |-> 1, enabled |-> 1, members |-> 2]
    BY <1>9 DEF Values!SettingsOf, FieldsOf, Bound
  <2>2. \A s \in Values!LagInterfaceSettings : s \in [{"name", "enabled", "members"} -> 0..3] /\ s.name \in 0..1 /\ s.enabled \in 0..1 /\ s.members \in 0..2
    BY DEF Values!LagInterfaceSettings
  <2>3. \A s \in Values!LagInterfaceSettings : s.members \in {s.enabled, 2}
    BY DEF Values!LagInterfaceSettings
  <2> QED BY <1>9, <2>1, <2>2, <2>3 DEF Box, Raw, Span
<1>10. CASE feature = "stp"
  <2>1. /\ Values!SettingsOf[feature] = Values!StpInterfaceSettings /\ FieldsOf[feature] = {"edge", "guard"}
        /\ Bound[feature] = [edge |-> 1, guard |-> 1]
    BY <1>10 DEF Values!SettingsOf, FieldsOf, Bound
  <2>2. \A s \in Values!StpInterfaceSettings : s \in [{"edge", "guard"} -> 0..3] /\ s.edge \in 0..1 /\ s.guard \in 0..1
    BY DEF Values!StpInterfaceSettings
  <2> QED BY <1>10, <2>1, <2>2 DEF Box, Raw, Span
<1>11. CASE feature = "igmpglobal"
  <2>1. /\ Values!SettingsOf[feature] = Values!IgmpGlobalSettings /\ FieldsOf[feature] = {"mode", "version"}
        /\ Bound[feature] = [mode |-> 2, version |-> 1]
    BY <1>11 DEF Values!SettingsOf, FieldsOf, Bound
  <2>2. \A s \in Values!IgmpGlobalSettings : s \in [{"mode", "version"} -> 0..3] /\ s.mode \in 0..2 /\ s.version \in 0..1
    BY DEF Values!IgmpGlobalSettings
  <2> QED BY <1>11, <2>1, <2>2 DEF Box, Raw, Span
<1>12. CASE feature = "igmpvlan"
  <2>1. /\ Values!SettingsOf[feature] = Values!IgmpVlanSettings /\ FieldsOf[feature] = {"mode", "version"}
        /\ Bound[feature] = [mode |-> 3, version |-> 1]
    BY <1>12 DEF Values!SettingsOf, FieldsOf, Bound
  <2>2. \A s \in Values!IgmpVlanSettings : s \in [{"mode", "version"} -> 0..3] /\ s.mode \in 0..3 /\ s.version \in 0..1
    BY DEF Values!IgmpVlanSettings
  <2> QED BY <1>12, <2>1, <2>2 DEF Box, Raw, Span
<1>13. CASE feature = "storm"
  <2>1. /\ Values!SettingsOf[feature] = Values!StormSettings /\ FieldsOf[feature] = {"broadcast", "multicast"}
        /\ Bound[feature] = [broadcast |-> 3, multicast |-> 1]
    BY <1>13 DEF Values!SettingsOf, FieldsOf, Bound
  <2> DEFINE One(s) == {Values!Unit(s.broadcast), Values!Unit(s.multicast)} \ {""} # {"pps", "kbps"}
  <2>3. Values!StormSettings = {s \in [broadcast : 0..3, multicast : 0..1] : One(s)}
    BY DEF Values!StormSettings
  <2>. HIDE DEF One
  <2>2. \A s \in Values!StormSettings : s \in [{"broadcast", "multicast"} -> 0..3] /\ s.broadcast \in 0..3 /\ s.multicast \in 0..1
    BY <2>3
  <2> QED BY <1>13, <2>1, <2>2 DEF Box, Raw, Span
<1> QED BY FeaturesAre, <1>1, <1>2, <1>3, <1>4, <1>5, <1>6, <1>7, <1>8, <1>9, <1>10, <1>11, <1>12, <1>13

LEMMA BoundsAre ==
    ASSUME feature \in Values!Features, NEW x \in FieldsOf[feature]
    PROVE  Bound[feature][x] \in 1..3
BY FeaturesAre DEF FieldsOf, Bound

LEMMA ShownIs ==
    ASSUME feature \in Values!Features, NEW x \in FieldsOf[feature]
    PROVE  Values!Expressible(feature, x) = Shown[feature][x]
<1>0. \A n \in 0..3 : n # None BY FeatureCallsAssumption
<1>1. CASE feature = "dscptrust"
  <2>1. /\ Values!CopiesOf[feature] = Values!DscpTrustCopies /\ FieldsOf[feature] = {"value"}
        /\ Shown[feature] = [value |-> {0, 1}]
    BY <1>1 DEF Values!CopiesOf, FieldsOf, Shown
  <2>2. {c["value"] : c \in Values!DscpTrustCopies} = {0, 1}
    <3>1. \A c \in Values!DscpTrustCopies : c["value"] \in {0, 1} BY DEF Values!DscpTrustCopies
    <3>2. \A v \in {0, 1} : [value |-> v] \in Values!DscpTrustCopies /\ [value |-> v]["value"] = v
      BY DEF Values!DscpTrustCopies
    <3> QED BY <3>1, <3>2
  <2> QED BY <1>0, <2>1, <2>2 DEF Values!Expressible
<1>2. CASE feature = "protectedport"
  <2>1. /\ Values!CopiesOf[feature] = Values!ProtectedPortCopies /\ FieldsOf[feature] = {"value"}
        /\ Shown[feature] = [value |-> {1}]
    BY <1>2 DEF Values!CopiesOf, FieldsOf, Shown
  <2>2. {c["value"] : c \in Values!ProtectedPortCopies} = {None, 1}
    <3>1. \A c \in Values!ProtectedPortCopies : c["value"] \in {None, 1} BY DEF Values!ProtectedPortCopies
    <3>2. \A v \in {None, 1} : [value |-> v] \in Values!ProtectedPortCopies /\ [value |-> v]["value"] = v
      BY DEF Values!ProtectedPortCopies
    <3> QED BY <3>1, <3>2
  <2> QED BY <1>0, <2>1, <2>2 DEF Values!Expressible
<1>3. CASE feature = "jumbo"
  <2>1. /\ Values!CopiesOf[feature] = Values!JumboCopies /\ FieldsOf[feature] = {"value"}
        /\ Shown[feature] = [value |-> {0, 1}]
    BY <1>3 DEF Values!CopiesOf, FieldsOf, Shown
  <2>2. {c["value"] : c \in Values!JumboCopies} = {0, 1}
    <3>1. \A c \in Values!JumboCopies : c["value"] \in {0, 1} BY DEF Values!JumboCopies
    <3>2. \A v \in {0, 1} : [value |-> v] \in Values!JumboCopies /\ [value |-> v]["value"] = v
      BY DEF Values!JumboCopies
    <3> QED BY <3>1, <3>2
  <2> QED BY <1>0, <2>1, <2>2 DEF Values!Expressible
<1>4. CASE feature = "poe"
  <2>1. /\ Values!CopiesOf[feature] = Values!PoeCopies /\ FieldsOf[feature] = {"value"}
        /\ Shown[feature] = [value |-> {0, 1, 2}]
    BY <1>4 DEF Values!CopiesOf, FieldsOf, Shown
  <2>2. {c["value"] : c \in Values!PoeCopies} = {None, 0, 1, 2}
    <3>1. \A c \in Values!PoeCopies : c["value"] \in {None, 0, 1, 2} BY DEF Values!PoeCopies
    <3>2. \A v \in {None, 0, 1, 2} : [value |-> v] \in Values!PoeCopies /\ [value |-> v]["value"] = v
      BY DEF Values!PoeCopies
    <3> QED BY <3>1, <3>2
  <2> QED BY <1>0, <2>1, <2>2 DEF Values!Expressible
<1>5. CASE feature = "voicevlan"
  <2>1. /\ Values!CopiesOf[feature] = Values!VoiceVlanCopies /\ FieldsOf[feature] = {"value"}
        /\ Shown[feature] = [value |-> {1, 2}]
    BY <1>5 DEF Values!CopiesOf, FieldsOf, Shown
  <2>2. {c["value"] : c \in Values!VoiceVlanCopies} = {None, 1, 2}
    <3>1. \A c \in Values!VoiceVlanCopies : c["value"] \in {None, 1, 2} BY DEF Values!VoiceVlanCopies
    <3>2. \A v \in {None, 1, 2} : [value |-> v] \in Values!VoiceVlanCopies /\ [value |-> v]["value"] = v
      BY DEF Values!VoiceVlanCopies
    <3> QED BY <3>1, <3>2
  <2> QED BY <1>0, <2>1, <2>2 DEF Values!Expressible
<1>6. CASE feature = "lldp"
  <2>1. /\ Values!CopiesOf[feature] = Values!LldpCopies /\ FieldsOf[feature] = {"value"}
        /\ Shown[feature] = [value |-> {0, 1}]
    BY <1>6 DEF Values!CopiesOf, FieldsOf, Shown
  <2>2. {c["value"] : c \in Values!LldpCopies} = {None, 0, 1}
    <3>1. \A c \in Values!LldpCopies : c["value"] \in {None, 0, 1} BY DEF Values!LldpCopies
    <3>2. \A v \in {None, 0, 1} : [value |-> v] \in Values!LldpCopies /\ [value |-> v]["value"] = v
      BY DEF Values!LldpCopies
    <3> QED BY <3>1, <3>2
  <2> QED BY <1>0, <2>1, <2>2 DEF Values!Expressible
<1>7. CASE feature = "lldpglobal"
  <2>1. /\ Values!CopiesOf[feature] = Values!LldpGlobalCopies /\ FieldsOf[feature] = {"value"}
        /\ Shown[feature] = [value |-> {0, 1}]
    BY <1>7 DEF Values!CopiesOf, FieldsOf, Shown
  <2>2. {c["value"] : c \in Values!LldpGlobalCopies} = {None, 0, 1}
    <3>1. \A c \in Values!LldpGlobalCopies : c["value"] \in {None, 0, 1} BY DEF Values!LldpGlobalCopies
    <3>2. \A v \in {None, 0, 1} : [value |-> v] \in Values!LldpGlobalCopies /\ [value |-> v]["value"] = v
      BY DEF Values!LldpGlobalCopies
    <3> QED BY <3>1, <3>2
  <2> QED BY <1>0, <2>1, <2>2 DEF Values!Expressible
<1>8. CASE feature = "ethernet"
  <2>1. /\ Values!CopiesOf[feature] = Values!EthernetCopies /\ FieldsOf[feature] = {"name", "enabled"}
        /\ Shown[feature] = [name |-> {0, 1, 2}, enabled |-> {0, 1}]
    BY <1>8 DEF Values!CopiesOf, FieldsOf, Shown
  <2>2. {c["name"] : c \in Values!EthernetCopies} = {None, 0, 1, 2}
    <3>1. \A c \in Values!EthernetCopies : c["name"] \in {None, 0, 1, 2} BY DEF Values!EthernetCopies
    <3>2. \A v \in {None, 0, 1, 2} : [name |-> v, enabled |-> None] \in Values!EthernetCopies /\ [name |-> v, enabled |-> None]["name"] = v
      BY DEF Values!EthernetCopies
    <3> QED BY <3>1, <3>2
  <2>3. {c["enabled"] : c \in Values!EthernetCopies} = {None, 0, 1}
    <3>1. \A c \in Values!EthernetCopies : c["enabled"] \in {None, 0, 1} BY DEF Values!EthernetCopies
    <3>2. \A v \in {None, 0, 1} : [name |-> None, enabled |-> v] \in Values!EthernetCopies /\ [name |-> None, enabled |-> v]["enabled"] = v
      BY DEF Values!EthernetCopies
    <3> QED BY <3>1, <3>2
  <2> QED BY <1>0, <2>1, <2>2, <2>3 DEF Values!Expressible
<1>9. CASE feature = "lag"
  <2>1. /\ Values!CopiesOf[feature] = Values!LagInterfaceCopies /\ FieldsOf[feature] = {"name", "enabled", "members"}
        /\ Shown[feature] = [name |-> {0, 1}, enabled |-> {0, 1}, members |-> {0}]
    BY <1>9 DEF Values!CopiesOf, FieldsOf, Shown
  <2>2. {c["name"] : c \in Values!LagInterfaceCopies} = {0, 1}
    <3>1. \A c \in Values!LagInterfaceCopies : c["name"] \in {0, 1} BY DEF Values!LagInterfaceCopies
    <3>2. \A v \in {0, 1} : [name |-> v, enabled |-> 0, members |-> 0] \in Values!LagInterfaceCopies /\ [name |-> v, enabled |-> 0, members |-> 0]["name"] = v
      BY DEF Values!LagInterfaceCopies
    <3> QED BY <3>1, <3>2
  <2>3. {c["enabled"] : c \in Values!LagInterfaceCopies} = {0, 1}
    <3>1. \A c \in Values!LagInterfaceCopies : c["enabled"] \in {0, 1} BY DEF Values!LagInterfaceCopies
    <3>2. \A v \in {0, 1} : [name |-> 0, enabled |-> v, members |-> 0] \in Values!LagInterfaceCopies /\ [name |-> 0, enabled |-> v, members |-> 0]["enabled"] = v
      BY DEF Values!LagInterfaceCopies
    <3> QED BY <3>1, <3>2
  <2>4. {c["members"] : c \in Values!LagInterfaceCopies} = {0}
    <3>1. \A c \in Values!LagInterfaceCopies : c["members"] \in {0} BY DEF Values!LagInterfaceCopies
    <3>2. \A v \in {0} : [name |-> 0, enabled |-> 0, members |-> v] \in Values!LagInterfaceCopies /\ [name |-> 0, enabled |-> 0, members |-> v]["members"] = v
      BY DEF Values!LagInterfaceCopies
    <3> QED BY <3>1, <3>2
  <2> QED BY <1>0, <2>1, <2>2, <2>3, <2>4 DEF Values!Expressible
<1>10. CASE feature = "stp"
  <2>1. /\ Values!CopiesOf[feature] = Values!StpInterfaceCopies /\ FieldsOf[feature] = {"edge", "guard"}
        /\ Shown[feature] = [edge |-> {0, 1}, guard |-> {0, 1}]
    BY <1>10 DEF Values!CopiesOf, FieldsOf, Shown
  <2>2. {c["edge"] : c \in Values!StpInterfaceCopies} = {None, 0, 1}
    <3>1. \A c \in Values!StpInterfaceCopies : c["edge"] \in {None, 0, 1} BY DEF Values!StpInterfaceCopies
    <3>2. \A v \in {None, 0, 1} : [edge |-> v, guard |-> None] \in Values!StpInterfaceCopies /\ [edge |-> v, guard |-> None]["edge"] = v
      BY DEF Values!StpInterfaceCopies
    <3> QED BY <3>1, <3>2
  <2>3. {c["guard"] : c \in Values!StpInterfaceCopies} = {None, 0, 1}
    <3>1. \A c \in Values!StpInterfaceCopies : c["guard"] \in {None, 0, 1} BY DEF Values!StpInterfaceCopies
    <3>2. \A v \in {None, 0, 1} : [edge |-> None, guard |-> v] \in Values!StpInterfaceCopies /\ [edge |-> None, guard |-> v]["guard"] = v
      BY DEF Values!StpInterfaceCopies
    <3> QED BY <3>1, <3>2
  <2> QED BY <1>0, <2>1, <2>2, <2>3 DEF Values!Expressible
<1>11. CASE feature = "igmpglobal"
  <2>1. /\ Values!CopiesOf[feature] = Values!IgmpGlobalCopies /\ FieldsOf[feature] = {"mode", "version"}
        /\ Shown[feature] = [mode |-> {1, 2}, version |-> {1}]
    BY <1>11 DEF Values!CopiesOf, FieldsOf, Shown
  <2>2. {c["mode"] : c \in Values!IgmpGlobalCopies} = {None, 1, 2}
    <3>1. \A c \in Values!IgmpGlobalCopies : c["mode"] \in {None, 1, 2} BY DEF Values!IgmpGlobalCopies
    <3>2. \A v \in {None, 1, 2} : [mode |-> v, version |-> None] \in Values!IgmpGlobalCopies /\ [mode |-> v, version |-> None]["mode"] = v
      BY DEF Values!IgmpGlobalCopies
    <3> QED BY <3>1, <3>2
  <2>3. {c["version"] : c \in Values!IgmpGlobalCopies} = {None, 1}
    <3>1. \A c \in Values!IgmpGlobalCopies : c["version"] \in {None, 1} BY DEF Values!IgmpGlobalCopies
    <3>2. \A v \in {None, 1} : [mode |-> None, version |-> v] \in Values!IgmpGlobalCopies /\ [mode |-> None, version |-> v]["version"] = v
      BY DEF Values!IgmpGlobalCopies
    <3> QED BY <3>1, <3>2
  <2> QED BY <1>0, <2>1, <2>2, <2>3 DEF Values!Expressible
<1>12. CASE feature = "igmpvlan"
  <2>1. /\ Values!CopiesOf[feature] = Values!IgmpVlanCopies /\ FieldsOf[feature] = {"mode", "version"}
        /\ Shown[feature] = [mode |-> {1, 2}, version |-> {1}]
    BY <1>12 DEF Values!CopiesOf, FieldsOf, Shown
  <2>2. {c["mode"] : c \in Values!IgmpVlanCopies} = {None, 1, 2}
    <3>1. \A c \in Values!IgmpVlanCopies : c["mode"] \in {None, 1, 2} BY DEF Values!IgmpVlanCopies
    <3>2. \A v \in {None, 1, 2} : [mode |-> v, version |-> None] \in Values!IgmpVlanCopies /\ [mode |-> v, version |-> None]["mode"] = v
      BY DEF Values!IgmpVlanCopies
    <3> QED BY <3>1, <3>2
  <2>3. {c["version"] : c \in Values!IgmpVlanCopies} = {None, 1}
    <3>1. \A c \in Values!IgmpVlanCopies : c["version"] \in {None, 1} BY DEF Values!IgmpVlanCopies
    <3>2. \A v \in {None, 1} : [mode |-> None, version |-> v] \in Values!IgmpVlanCopies /\ [mode |-> None, version |-> v]["version"] = v
      BY DEF Values!IgmpVlanCopies
    <3> QED BY <3>1, <3>2
  <2> QED BY <1>0, <2>1, <2>2, <2>3 DEF Values!Expressible
<1>13. CASE feature = "storm"
  <2>1. /\ Values!CopiesOf[feature] = Values!StormCopies /\ FieldsOf[feature] = {"broadcast", "multicast"}
        /\ Shown[feature] = [broadcast |-> {1, 2, 3}, multicast |-> {1}]
    BY <1>13 DEF Values!CopiesOf, FieldsOf, Shown
  <2>2. {c["broadcast"] : c \in Values!StormCopies} = {None, 1, 2, 3}
    <3>1. \A c \in Values!StormCopies : c["broadcast"] \in {None, 1, 2, 3} BY DEF Values!StormCopies
    <3>2. \A v \in {None, 1, 2, 3} : [broadcast |-> v, multicast |-> None] \in Values!StormCopies /\ [broadcast |-> v, multicast |-> None]["broadcast"] = v
      BY DEF Values!StormCopies
    <3> QED BY <3>1, <3>2
  <2>3. {c["multicast"] : c \in Values!StormCopies} = {None, 1}
    <3>1. \A c \in Values!StormCopies : c["multicast"] \in {None, 1} BY DEF Values!StormCopies
    <3>2. \A v \in {None, 1} : [broadcast |-> None, multicast |-> v] \in Values!StormCopies /\ [broadcast |-> None, multicast |-> v]["multicast"] = v
      BY DEF Values!StormCopies
    <3> QED BY <3>1, <3>2
  <2> QED BY <1>0, <2>1, <2>2, <2>3 DEF Values!Expressible
<1> QED BY FeaturesAre, <1>1, <1>2, <1>3, <1>4, <1>5, <1>6, <1>7, <1>8, <1>9, <1>10, <1>11, <1>12, <1>13

\* What is asked for is one of the values it may take, too.
LEMMA WantFits ==
    ASSUME feature \in Values!Features, NEW job \in Values!Wanted(feature)
    PROVE  /\ job.value \in Box
           /\ feature = "lag" => job.value.members = job.value.enabled
           /\ feature = "lldp" => job.value.value # 2
<1> DEFINE fit(v) == CASE feature = "lldp" -> v.value # 2
                       [] feature = "lag" -> v.members = v.enabled
                       [] feature = "igmpvlan" -> v.mode # 3
                       [] OTHER -> TRUE
<1>1. Values!Wanted(feature) =
         [value : {v \in Values!SettingsOf[feature] : fit(v)}, remove : {FALSE}]
           \union (IF feature \in Values!Parented
                   THEN {[value |-> Values!Default(feature), remove |-> TRUE]} ELSE {})
  BY DEF Values!Wanted
<1>2. \A v : fit(v) => (feature = "lldp" => v.value # 2) /\ (feature = "lag" => v.members = v.enabled)
  <2>1. CASE feature = "lldp" BY <2>1
  <2>2. CASE feature = "lag" BY <2>2
  <2> QED BY <2>1, <2>2
<1>. HIDE DEF fit
<1>3. Values!SettingsOf[feature] \subseteq Box BY SettingsFit
<1>4. CASE job \in [value : {v \in Values!SettingsOf[feature] : fit(v)}, remove : {FALSE}]
  BY <1>2, <1>3, <1>4
<1>5. CASE job = [value |-> Values!Default(feature), remove |-> TRUE]
  <2>1. job.value = [x \in FieldsOf[feature] |-> 0] BY <1>5, FieldsAre DEF Values!Default
  <2>2. \A x \in FieldsOf[feature] : 0 \in Span(x) BY BoundsAre DEF Span
  <2>3. feature = "lag" => job.value.members = 0 /\ job.value.enabled = 0 BY <2>1 DEF FieldsOf
  <2>4. feature = "lldp" => job.value.value = 0 BY <2>1 DEF FieldsOf
  <2>5. job.value \in Raw BY <2>1 DEF Raw
  <2> QED BY <2>1, <2>2, <2>3, <2>4, <2>5 DEF Box
<1> QED BY <1>1, <1>4, <1>5

LEMMA BoxIs ==
    ASSUME feature \in Values!Features, NEW s \in Box
    PROVE  /\ DOMAIN s = FieldsOf[feature] /\ s \in Raw /\ s # Gone
           /\ \A x \in FieldsOf[feature] : s[x] \in Span(x) /\ s[x] \in 0..3 /\ s[x] # None
           /\ s = [x \in FieldsOf[feature] |-> s[x]]
<1>1. \A n \in 0..3 : n # None BY FeatureCallsAssumption
<1>2. Gone \notin Raw BY FieldsAre, FeatureCallsAssumption DEF Raw
<1> QED BY <1>1, <1>2 DEF Box, Raw

\* Which fields a request may be about: an aggregate's members follow.
Apart(F) == feature = "lag" => "members" \notin F

LEMMA CarriedFits ==
    ASSUME feature \in Values!Features, native \in Box, NEW s \in Raw,
           \A x \in FieldsOf[feature] : s[x] \in Span(x),
           feature = "lag" => s.members = native.members
    PROVE  /\ Values!Carried(s) \in Box
           /\ feature # "lag" => Values!Carried(s) = s
<1>1. CASE feature # "lag" BY <1>1 DEF Values!Carried, Box
<1>2. CASE feature = "lag"
  <2>1. FieldsOf[feature] = {"name", "enabled", "members"} /\ Bound[feature] = [name |-> 1, enabled |-> 1, members |-> 2]
    BY <1>2 DEF FieldsOf, Bound
  <2>2. s.enabled \in 0..1 /\ s.name \in 0..1 /\ s.members \in 0..2 BY <2>1 DEF Span
  <2>3. native.members \in {native.enabled, 2} BY <1>2 DEF Box
  <2>4. CASE s.enabled # native.enabled /\ native.members # 2
    <3>1. Values!Carried(s) = [s EXCEPT !.members = s.enabled] BY <1>2, <2>4 DEF Values!Carried
    <3>2. [s EXCEPT !.members = s.enabled] \in Raw BY <2>1, <2>2 DEF Raw
    <3> QED BY <1>2, <2>1, <2>2, <3>1, <3>2 DEF Box, Span, Raw
  <2>5. CASE ~(s.enabled # native.enabled /\ native.members # 2)
    <3>1. Values!Carried(s) = s BY <1>2, <2>5 DEF Values!Carried
    <3> QED BY <1>2, <2>3, <2>5, <3>1 DEF Box
  <2> QED BY <2>4, <2>5
<1> QED BY <1>1, <1>2

LEMMA WrittenFits ==
    ASSUME feature \in Values!Features, native \in Box, NEW values, Apart(DOMAIN values),
           \A x \in DOMAIN values \intersect FieldsOf[feature] : values[x] \in Span(x),
           NEW s \in Values!Written(values)
    PROVE  /\ s \in Box
           /\ feature # "lag" => \A x \in FieldsOf[feature] :
                \/ s[x] = native[x] /\ (x \in DOMAIN values => cache[x] = values[x])
                \/ x \in DOMAIN values /\ s[x] = values[x]
<1>1. PICK skipped \in SUBSET {x \in DOMAIN values : cache[x] = values[x]} :
         s = Values!Carried([x \in DOMAIN native |->
               IF x \in DOMAIN values \ skipped THEN values[x] ELSE native[x]])
  BY DEF Values!Written
<1> DEFINE w == [x \in DOMAIN native |-> IF x \in DOMAIN values \ skipped THEN values[x] ELSE native[x]]
<1>2. DOMAIN native = FieldsOf[feature] /\ \A x \in FieldsOf[feature] : native[x] \in Span(x) /\ native[x] \in 0..3
  BY BoxIs
<1>3. \A x \in FieldsOf[feature] : Span(x) \subseteq 0..3
  BY BoundsAre DEF Span
<1>4. \A x \in FieldsOf[feature] :
        /\ w[x] \in Span(x)
        /\ \/ w[x] = native[x] /\ (x \in DOMAIN values => cache[x] = values[x])
           \/ x \in DOMAIN values /\ w[x] = values[x]
  BY <1>2
<1>5. w \in Raw BY <1>2, <1>3, <1>4 DEF Raw
<1>6. feature = "lag" => w.members = native.members
  <2>1. feature = "lag" => "members" \in FieldsOf[feature] BY DEF FieldsOf
  <2> QED BY <1>2, <2>1 DEF Apart
<1>. HIDE DEF w
<1>7. s = Values!Carried(w) BY <1>1 DEF w
<1> QED BY <1>4, <1>5, <1>6, <1>7, CarriedFits

LEMMA ResetFits ==
    ASSUME feature \in Values!Features, native \in Box, NEW fields, Apart(fields),
           NEW s \in Values!Reset(fields)
    PROVE  /\ s \in Box
           /\ feature # "lag" => \A x \in FieldsOf[feature] :
                s[x] = IF x \in fields /\ cache[x] # None THEN 0 ELSE native[x]
<1> DEFINE w == [x \in DOMAIN native |-> IF x \in fields /\ cache[x] # None THEN 0 ELSE native[x]]
<1>1. s = Values!Carried(w) BY DEF Values!Reset
<1>2. DOMAIN native = FieldsOf[feature] /\ \A x \in FieldsOf[feature] : native[x] \in Span(x) /\ native[x] \in 0..3
  BY BoxIs
<1>3. \A x \in FieldsOf[feature] : 0 \in Span(x)
  BY BoundsAre DEF Span
<1>4. \A x \in FieldsOf[feature] :
        /\ w[x] \in Span(x)
        /\ w[x] = IF x \in fields /\ cache[x] # None THEN 0 ELSE native[x]
  BY <1>2, <1>3
<1>5. w \in Raw BY <1>2 DEF Raw
<1>6. feature = "lag" => w.members = native.members
  <2>1. feature = "lag" => "members" \in FieldsOf[feature] BY DEF FieldsOf
  <2> QED BY <1>2, <2>1 DEF Apart
<1>. HIDE DEF w
<1> QED BY <1>1, <1>4, <1>5, <1>6, CarriedFits

\* A request whose values no copy hides does what it says.
LEMMA WrittenWhole ==
    ASSUME feature \in Values!Features, feature # "lag", native \in Box, NEW values \in Box,
           \A x \in FieldsOf[feature] : native[x] # values[x] => cache[x] # values[x]
    PROVE  Values!Written(values) \subseteq {values}
<1> SUFFICES ASSUME NEW s \in Values!Written(values) PROVE s = values
  OBVIOUS
<1>1. DOMAIN values = FieldsOf[feature] /\ values = [x \in FieldsOf[feature] |-> values[x]]
      /\ \A x \in FieldsOf[feature] : values[x] \in Span(x)
  BY BoxIs
<1>2. s \in Box /\ \A x \in FieldsOf[feature] : s[x] = values[x]
  BY <1>1, WrittenFits DEF Apart
<1>3. s = [x \in FieldsOf[feature] |-> s[x]] BY <1>2, BoxIs
<1> QED BY <1>1, <1>2, <1>3

LEMMA CopyWritten ==
    ASSUME Copied(cache), NEW values, DOMAIN values \subseteq FieldsOf[feature],
           \A x \in DOMAIN values : values[x] \in Span(x)
    PROVE  /\ Copied(Values!Overlaid(values))
           /\ \A x \in FieldsOf[feature] :
                Values!Overlaid(values)[x] = IF x \in DOMAIN values THEN values[x] ELSE cache[x]
BY DEF Copied, Values!Overlaid

LEMMA CopyEmptied ==
    ASSUME feature \in Values!Features, Copied(cache), NEW fields
    PROVE  /\ Copied(Values!Emptied(fields))
           /\ \A x \in FieldsOf[feature] :
                Values!Emptied(fields)[x] =
                  IF x \in fields THEN (IF feature = "lag" THEN 0 ELSE None) ELSE cache[x]
<1>1. \A x \in FieldsOf[feature] : 0 \in Span(x) BY BoundsAre DEF Span
<1> QED BY <1>1 DEF Copied, Values!Emptied

-----------------------------------------------------------------------------
(* The steps an undisturbed call is made of.                               *)

LEMMA PlacedSame ==
    ASSUME UNCHANGED feature, native' \in Box \union {Gone}, Copied(cache'), unowned' \in Rest,
           Working' => /\ native' \in Box /\ call'.seen \in Box /\ call'.before \in Box
                       /\ Copied(call'.cached)
    PROVE  Placed'
BY DEF Placed, Box, Raw, Span, Copied

\* Where the call is when it is in the middle of its requests.
Amid == /\ ValuesInv /\ Typed /\ Placed /\ Firm /\ Working /\ (call.quiet => ValuesKnow)

LEMMA AmidIs ==
    ASSUME ValuesInv, ValuesFirm, Working
    PROVE  Amid
BY DEF ValuesInv, ValuesFirm, Hopeless, Working, Amid

LEMMA AmidHas ==
    ASSUME Amid
    PROVE  /\ feature \in Values!Features /\ DOMAIN call = Fields /\ call # NoCall
           /\ native \in Box /\ Copied(cache) /\ call.pc # "read" /\ unowned \in Rest
           /\ Values!want = call.job.value /\ Values!seen = call.seen /\ Values!before = call.before
           /\ call.seen \in Box /\ call.before \in Box /\ call.job.value \in Box /\ Copied(call.cached)
           /\ call.quiet /\ call.pc \notin {"readback", "rename", "admin", "disable", "poll"} => call.seen = native
BY WantFits DEF Amid, Typed, Placed, Working, ValuesKnow, Values!want, Values!seen, Values!before

\* What is left to show of a step.
Goes == Placed' /\ Firm' /\ UNCHANGED feature

\* The call after an undisturbed step: what it is about does not change.
Heads(label) ==
    /\ call.quiet
    /\ \A l : l # "readback" => (Toward(l)' <=> l = label)
    /\ call'.job = call.job /\ call'.before = call.before /\ call'.seen = call.seen
    /\ call'.cached = call.cached

LEMMA SendGoes ==
    ASSUME Amid, NEW S, S \subseteq Box, NEW x, Copied(x), NEW c, Values!Send(S, x, c), DOMAIN c = Fields,
           \A f \in {"job", "before", "seen", "cached", "others", "quiet", "failed"} : c[f] = call[f],
           c.pc \notin {"failed", "read"},
           call.quiet /\ c.pc = "readback" => c.expect = {} \/ S \subseteq c.expect
    PROVE  /\ Goes
           /\ call'.quiet => call.quiet /\ call' = c /\ native' \in S /\ cache' = x
<1>1. Send(S, x, c) BY ValuesSame
<1>2. /\ UNCHANGED feature /\ native' \in S \union {native} /\ cache' \in {cache, x}
      /\ \A f \in Fields \ {"failed", "quiet"} : call'[f] = c[f]
  BY <1>1, AmidHas, SendIs
<1>3. /\ call'.seen = call.seen /\ call'.before = call.before /\ call'.cached = call.cached
  BY <1>2 DEF Fields
<1>4. /\ Firm'
      /\ call'.quiet => call.quiet /\ call' = c /\ native' \in S /\ cache' = x
  BY <1>1, AmidHas, SendFirmly DEF Amid
<1>5. unowned' \in Rest BY <1>1, AmidHas DEF Send, Damages, switch
<1>6. Placed' BY <1>2, <1>3, <1>5, AmidHas, PlacedSame
<1> QED BY <1>2, <1>4, <1>6 DEF Goes

LEMMA RequestGoes ==
    ASSUME Amid, NEW S, S \subseteq Box, NEW x, Copied(x), NEW label, NEW expected,
           Values!Request(S, x, label, expected), label # "readback",
           call.quiet => expected = {} \/ S \subseteq expected
    PROVE  /\ Goes
           /\ call'.quiet =>
                /\ Heads(label) /\ native' \in S /\ cache' = x
                /\ call'.pc = "readback" /\ call'.then = label /\ call'.todo = call.todo
<1> DEFINE c == [call EXCEPT !.pc = "readback", !.then = label, !.expect = expected]
<1>1. /\ DOMAIN c = Fields /\ c.pc = "readback" /\ c.then = label /\ c.expect = expected
      /\ c.todo = call.todo
      /\ \A f \in {"job", "before", "seen", "cached", "others", "quiet", "failed"} : c[f] = call[f]
  BY AmidHas DEF Fields
<1>2. Values!Send(S, x, c) BY DEF Values!Request
<1>. HIDE DEF c
<1>3. Goes /\ (call'.quiet => call.quiet /\ call' = c /\ native' \in S /\ cache' = x)
  BY <1>1, <1>2, SendGoes
<1> QED BY <1>1, <1>3 DEF Heads, Toward

LEMMA PatchGoes ==
    ASSUME Amid, NEW values, Apart(DOMAIN values), DOMAIN values \subseteq FieldsOf[feature],
           \A x \in DOMAIN values : values[x] \in Span(x),
           NEW label, NEW expected, Values!Patch(values, label, expected), label # "readback",
           call.quiet => expected = {} \/ Values!Written(values) \subseteq expected
    PROVE  /\ Goes
           /\ call'.quiet =>
                /\ Heads(label) /\ native' \in Values!Written(values)
                /\ \A x \in FieldsOf[feature] :
                     cache'[x] = IF x \in DOMAIN values THEN values[x] ELSE cache[x]
                /\ call'.pc = "readback" /\ call'.then = label /\ call'.todo = call.todo
<1>1. Values!Request(Values!Written(values), Values!Overlaid(values), label, expected)
  BY DEF Values!Patch
<1>2. Values!Written(values) \subseteq Box BY AmidHas, WrittenFits
<1>3. Copied(Values!Overlaid(values))
      /\ \A x \in FieldsOf[feature] :
           Values!Overlaid(values)[x] = IF x \in DOMAIN values THEN values[x] ELSE cache[x]
  BY AmidHas, CopyWritten
<1> QED BY <1>1, <1>2, <1>3, RequestGoes

LEMMA DeleteGoes ==
    ASSUME Amid, NEW fields, Apart(fields), feature # "lag",
           NEW label, NEW expected, Values!Delete(fields, label, expected), label # "readback",
           call.quiet => expected = {} \/ Values!Reset(fields) \subseteq expected
    PROVE  /\ Goes
           /\ call'.quiet =>
                /\ Heads(label) /\ native' \in Values!Reset(fields)
                /\ \A x \in FieldsOf[feature] : cache'[x] = IF x \in fields THEN None ELSE cache[x]
                /\ call'.pc = "readback" /\ call'.then = label /\ call'.todo = call.todo
<1>1. Values!Request(Values!Reset(fields), Values!Emptied(fields), label, expected)
  BY DEF Values!Delete
<1>2. Values!Reset(fields) \subseteq Box BY AmidHas, ResetFits
<1>3. Copied(Values!Emptied(fields))
      /\ \A x \in FieldsOf[feature] : Values!Emptied(fields)[x] = IF x \in fields THEN None ELSE cache[x]
  BY AmidHas, CopyEmptied
<1> QED BY <1>1, <1>2, <1>3, RequestGoes

LEMMA ContinueGoes ==
    ASSUME Amid, NEW c, Values!Continue(c), DOMAIN c = Fields, c.pc # "readback",
           \A f \in {"job", "before", "seen", "cached", "others", "quiet", "failed"} : c[f] = call[f],
           call.quiet => c.pc # "failed"
    PROVE  /\ Goes /\ call' = c /\ UNCHANGED <<native, cache>>
           /\ call'.quiet => Heads(c.pc)
<1>1. Continue(c) BY ValuesSame
<1>2. Firm' /\ call' = c /\ UNCHANGED <<feature, native, cache, unowned>>
  BY <1>1, AmidHas, ContinueFirmly DEF Amid
<1>3. call'.seen = call.seen /\ call'.before = call.before /\ call'.cached = call.cached
  BY <1>2
<1>4. Placed' BY <1>2, <1>3, AmidHas, PlacedSame
<1> QED BY <1>2, <1>4 DEF Goes, Heads, Toward

LEMMA GotoGoes ==
    ASSUME Amid, NEW label, Values!Goto(label), label # "readback", call.quiet => label # "failed"
    PROVE  /\ Goes /\ UNCHANGED <<native, cache>> /\ call'.pc = label
           /\ call'.quiet => Heads(label) /\ call'.todo = call.todo
<1> DEFINE c == [call EXCEPT !.pc = label]
<1>1. /\ DOMAIN c = Fields /\ c.pc = label /\ c.todo = call.todo
      /\ \A f \in {"job", "before", "seen", "cached", "others", "quiet", "failed"} : c[f] = call[f]
  BY AmidHas DEF Fields
<1>2. Values!Continue(c) BY ValuesSame DEF Goto
<1>. HIDE DEF c
<1> QED BY <1>1, <1>2, ContinueGoes

LEMMA TimesOutGoes ==
    ASSUME Amid, Values!TimesOut
    PROVE  Goes /\ ~call'.quiet
<1>1. TimesOut BY ValuesSame
<1>2. /\ call' = [[call EXCEPT !.pc = "failed"] EXCEPT !.quiet = FALSE]
      /\ UNCHANGED <<feature, native, cache, unowned>>
  BY <1>1 DEF TimesOut, Fail, Faulty, switch
<1>3. ~call'.quiet /\ call'.pc = "failed" BY <1>2, AmidHas DEF Fields
<1>4. ~Working' BY <1>3 DEF Working
<1>5. Placed' BY <1>2, <1>4, AmidHas, PlacedSame
<1> QED BY <1>2, <1>3, <1>5 DEF Goes, Firm

\* What is left to show: the step, and what the call knows after it.
KnowsOn == Goes /\ (call'.quiet /\ Working' => ValuesKnow')

\* An undisturbed call on its way to the last comparison.
LEMMA ToTheCheck ==
    ASSUME Goes, call'.quiet => Heads("check"), call'.quiet => Matches',
           call'.quiet /\ feature = "lag" => native' = call.job.value,
           \/ call'.pc = "readback" /\ call'.then = "check"
           \/ call'.pc = "check" /\ (call'.quiet => call'.seen = native')
    PROVE  KnowsOn
BY DEF KnowsOn, Goes, Heads, ValuesKnow, StartKnows, DscpTrustKnows, StpKnows, LldpKnows, WriteKnows,
       LagKnows, LeafKnows, LimitsKnow

LEMMA Matched ==
    ASSUME UNCHANGED feature, call'.job = call.job
    PROVE  /\ native' = call.job.value => Matches'
           /\ native' = native /\ Matches => Matches'
           /\ native' = native /\ ~Matches => ~Matches'
BY DEF Matches, Values!Agrees

LEMMA AcceptGoes ==
    ASSUME Amid, NEW ok \in BOOLEAN, Values!Accept(ok), call.quiet => ok
    PROVE  KnowsOn
<1>1. CASE ok
  <2>1. Values!Goto("done") BY <1>1 DEF Values!Accept
  <2>2. Goes /\ call'.pc = "done" BY <2>1, GotoGoes
  <2> QED BY <2>2 DEF KnowsOn, Working
<1>2. CASE ~ok
  <2>1. Values!Goto("failed") BY <1>2 DEF Values!Accept
  <2>2. Goes /\ call'.pc = "failed" BY <1>2, <2>1, GotoGoes
  <2> QED BY <2>2 DEF KnowsOn, Working
<1> QED BY <1>1, <1>2

LEMMA CheckGoes == ASSUME Amid, Values!Check PROVE KnowsOn
<1>1. call.pc = "check" /\ Values!Accept(Values!Converged)
  BY AtIs DEF Values!Check
<1>2. call.quiet => /\ Matches /\ call.seen = native
                    /\ feature = "lag" => native = call.job.value
  BY <1>1, AmidHas DEF Amid, ValuesKnow, LagKnows, Toward
<1>3. call.quiet => Values!Converged
  BY <1>2, AmidHas DEF Matches, Values!Converged
<1>4. Values!Converged \in BOOLEAN BY DEF Values!Converged, Values!Agrees
<1> QED BY <1>1, <1>3, <1>4, AcceptGoes

LEMMA WantSpans ==
    ASSUME Amid
    PROVE  /\ \A s \in {call.job.value, call.seen, call.before, native} :
                DOMAIN s = FieldsOf[feature] /\ \A x \in FieldsOf[feature] : s[x] \in Span(x) /\ s[x] # None
           /\ DOMAIN cache = FieldsOf[feature]
BY AmidHas, BoxIs DEF Copied

LEMMA WholeGoes ==
    ASSUME Amid, feature # "lag", NEW values, values \in Box,
           call.quiet => \A x \in FieldsOf[feature] : native[x] # values[x] => cache[x] # values[x],
           NEW label, NEW expected, Values!Patch(values, label, expected), label # "readback",
           call.quiet => expected = {} \/ values \in expected
    PROVE  /\ Goes
           /\ call'.quiet =>
                /\ Heads(label) /\ native' = values /\ \A x \in FieldsOf[feature] : cache'[x] = values[x]
                /\ call'.pc = "readback" /\ call'.then = label
<1>1. /\ DOMAIN values = FieldsOf[feature] /\ \A x \in FieldsOf[feature] : values[x] \in Span(x)
  BY AmidHas, BoxIs
<1>2. call.quiet => Values!Written(values) \subseteq {values}
  BY AmidHas, WrittenWhole
<1>3. Apart(DOMAIN values) BY DEF Apart
<1>4. call.quiet => expected = {} \/ Values!Written(values) \subseteq expected BY <1>2
<1>5. /\ Goes
      /\ call'.quiet =>
           /\ Heads(label) /\ native' \in Values!Written(values)
           /\ \A x \in FieldsOf[feature] : cache'[x] = IF x \in DOMAIN values THEN values[x] ELSE cache[x]
           /\ call'.pc = "readback" /\ call'.then = label
  BY <1>1, <1>3, <1>4, PatchGoes
<1> QED BY <1>1, <1>2, <1>5 DEF Heads

LEMMA DscpTrustGoes == ASSUME Amid, Values!DscpTrust PROVE KnowsOn
<1>0. feature = "dscptrust" /\ FieldsOf[feature] = {"value"} /\ feature # "lag"
  BY DEF Values!DscpTrust, FieldsOf
<1>1. CASE Values!At("start") /\ Values!Patch(Values!before, "aligned", {Values!before})
  <2>1. call.pc = "start" BY <1>1, AtIs
  <2>2. call.quiet => native = call.before BY <2>1 DEF Amid, ValuesKnow, StartKnows, Toward
  <2>4. /\ Goes
        /\ call'.quiet => /\ Heads("aligned") /\ native' = call.before /\ call.before["value"] = cache'["value"]
                          /\ call'.pc = "readback" /\ call'.then = "aligned"
    BY <1>0, <1>1, <2>2, AmidHas, WholeGoes
  <2> QED BY <1>0, <2>4
          DEF KnowsOn, Goes, Heads, ValuesKnow, StartKnows, DscpTrustKnows, StpKnows, LldpKnows, WriteKnows,
              LagKnows, LeafKnows, LimitsKnow
<1>2. CASE Values!At("aligned") /\ Values!Patch(Values!want, "check", {Values!want})
  <2>1. call.pc = "aligned" BY <1>2, AtIs
  <2>2. call.quiet => cache.value = native.value
    BY <1>0, <2>1 DEF Amid, ValuesKnow, DscpTrustKnows, Toward
  <2>4. /\ Goes
        /\ call'.quiet => /\ Heads("check") /\ native' = call.job.value
                          /\ call'.pc = "readback" /\ call'.then = "check"
    BY <1>0, <1>2, <2>2, AmidHas, WholeGoes
  <2>5. call'.quiet => Matches' BY <2>4, Matched DEF Goes, Heads
  <2>6. CASE call'.quiet BY <2>4, <2>5, <2>6, <1>0, ToTheCheck
  <2> QED BY <2>4, <2>6 DEF KnowsOn
<1> QED BY <1>1, <1>2 DEF Values!DscpTrust

LEMMA JumboGoes == ASSUME Amid, Values!Jumbo PROVE KnowsOn
<1>0. feature = "jumbo" /\ FieldsOf[feature] = {"value"} /\ call.pc = "start"
  BY AtIs DEF Values!Jumbo, FieldsOf
<1>1. CASE unowned \notin call.others /\ Values!Goto("failed")
  <2>1. ~call.quiet BY <1>0, <1>1 DEF Amid, Firm, Working
  <2>2. Goes /\ call'.pc = "failed" BY <1>1, <2>1, GotoGoes
  <2> QED BY <2>2 DEF KnowsOn, Working
<1>2. CASE Values!Goto("done")
  <2>1. Goes /\ call'.pc = "done" BY <1>2, GotoGoes
  <2> QED BY <2>1 DEF KnowsOn, Working
<1>3. CASE native # Values!want /\ cache = native /\ Values!Patch(Values!want, "check", Values!AnyValue)
  <2>2. /\ Goes
        /\ call'.quiet => /\ Heads("check") /\ native' = call.job.value
                          /\ call'.pc = "readback" /\ call'.then = "check"
    BY <1>0, <1>3, AmidHas, WholeGoes DEF Values!AnyValue
  <2>3. call'.quiet => Matches' BY <2>2, Matched DEF Goes, Heads
  <2>4. CASE call'.quiet BY <2>2, <2>3, <2>4, <1>0, ToTheCheck
  <2> QED BY <2>2, <2>4 DEF KnowsOn
<1>4. CASE Values!TimesOut BY <1>4, TimesOutGoes DEF KnowsOn
<1> QED BY <1>1, <1>2, <1>3, <1>4 DEF Values!Jumbo

LEMMA PoeGoes == ASSUME Amid, Values!Poe PROVE KnowsOn
<1>1. Values!Request({Values!want}, Values!want, "check", Values!AnyValue) /\ feature = "poe"
  BY DEF Values!Poe
<1>2. Copied(Values!want) BY AmidHas, WantSpans DEF Copied
<1>a. Values!want \in Box /\ Values!want = call.job.value BY AmidHas
<1>b. {Values!want} \subseteq Box BY <1>a
<1>c. Values!AnyValue = {} BY DEF Values!AnyValue
<1>3. /\ Goes
      /\ call'.quiet => /\ Heads("check") /\ native' \in {Values!want}
                        /\ call'.pc = "readback" /\ call'.then = "check"
  BY <1>1, <1>2, <1>b, <1>c, RequestGoes
<1>4. call'.quiet => Matches' BY <1>3, <1>a, Matched DEF Goes, Heads
<1>5. CASE call'.quiet BY <1>3, <1>4, <1>5, <1>1, ToTheCheck
<1> QED BY <1>3, <1>5 DEF KnowsOn

LEMMA WantedGoes ==
    ASSUME Amid, feature # "lag", call.quiet => Unmasked,
           NEW expected, Values!Patch(Values!want, "check", expected),
           call.quiet => expected = {} \/ Values!want \in expected
    PROVE  KnowsOn
<1>1. /\ Goes
      /\ call'.quiet => /\ Heads("check") /\ native' = call.job.value
                        /\ call'.pc = "readback" /\ call'.then = "check"
  BY AmidHas, WholeGoes DEF Unmasked
<1>2. call'.quiet => Matches' BY <1>1, Matched DEF Goes, Heads
<1>3. CASE call'.quiet BY <1>1, <1>2, <1>3, ToTheCheck
<1> QED BY <1>1, <1>3 DEF KnowsOn

\* A copy that follows hides no change that the first one did not hide.
LEMMA StillUnmasked ==
    ASSUME Amid, feature \notin {"lag", "lldp", "lldpglobal"}, NEW x \in FieldsOf[feature], Followed(x),
           native[x] # call.job.value[x], call.cached[x] # call.job.value[x]
    PROVE  cache[x] # call.job.value[x]
BY WantSpans DEF Followed, Own

LEMMA StpGoes == ASSUME Amid, Values!StpInterface PROVE KnowsOn
<1>0. feature = "stp" /\ FieldsOf[feature] = {"edge", "guard"}
  BY DEF Values!StpInterface, FieldsOf
<1>a. ASSUME call.quiet => Unmasked, Values!Patch(Values!want, "entry", {Values!want}) PROVE KnowsOn
  <2>1. /\ Goes
        /\ call'.quiet => /\ Heads("entry") /\ native' = call.job.value
                          /\ call'.pc = "readback" /\ call'.then = "entry"
    BY <1>0, <1>a, AmidHas, WholeGoes DEF Unmasked
  <2> QED BY <1>0, <2>1
          DEF KnowsOn, Goes, Heads, ValuesKnow, StartKnows, DscpTrustKnows, StpKnows, LldpKnows, WriteKnows,
              LagKnows, LeafKnows, LimitsKnow
<1>1. CASE /\ Values!At("start") /\ Values!seen # Values!want
           /\ IF Values!CopyAgrees(call.cached) THEN Values!Patch(Values!want, "entry", {Values!want})
              ELSE Values!Patch(Values!seen, "wait", {Values!seen})
  <2>1. call.pc = "start" BY <1>1, AtIs
  <2>2. call.quiet => native = call.before /\ native = call.seen /\ \A x \in FieldsOf[feature] : Followed(x)
    BY <1>0, <2>1, AmidHas DEF Amid, ValuesKnow, StartKnows, Toward
  <2>3. CASE Values!CopyAgrees(call.cached)
    <3>1. \A x \in FieldsOf[feature] : call.cached[x] \in {None, call.seen[x]}
      <4>1. [x \in DOMAIN call.cached |-> IF call.cached[x] = None THEN 0 ELSE call.cached[x]] = call.seen
        BY <1>0, <2>3, AmidHas DEF Values!CopyAgrees, Values!Agrees
      <4>2. DOMAIN call.cached = FieldsOf[feature] BY AmidHas DEF Copied
      <4> QED BY <4>1, <4>2
    <3>2. call.quiet => Unmasked
      BY <1>0, <2>2, <3>1, WantSpans DEF Unmasked, Followed, Own
    <3> QED BY <1>1, <1>a, <2>3, <3>2
  <2>4. CASE ~Values!CopyAgrees(call.cached)
    <3>1. Values!Patch(Values!seen, "wait", {Values!seen}) BY <1>1, <2>4
    <3>2. /\ Goes
          /\ call'.quiet => /\ Heads("wait") /\ native' = call.seen
                            /\ \A x \in FieldsOf[feature] : cache'[x] = call.seen[x]
                            /\ call'.pc = "readback" /\ call'.then = "wait"
      BY <1>0, <2>2, <3>1, AmidHas, WholeGoes
    <3> QED BY <1>0, <3>2
            DEF KnowsOn, Goes, Heads, ValuesKnow, StartKnows, DscpTrustKnows, StpKnows, LldpKnows, WriteKnows,
                LagKnows, LeafKnows, LimitsKnow
  <2> QED BY <2>3, <2>4
<1>2. CASE Values!At("start") /\ Values!seen = Values!want /\ Values!Goto("entry")
  <2>1. call.pc = "start" BY <1>2, AtIs
  <2>2. call.quiet => native = call.job.value
    BY <1>2, <2>1, AmidHas
  <2>3. /\ Goes /\ native' = native /\ call'.pc = "entry" /\ (call'.quiet => Heads("entry"))
    BY <1>2, GotoGoes
  <2>4. call.quiet => call.seen = native BY <2>1, AmidHas
  <2> QED BY <1>0, <2>2, <2>3, <2>4
          DEF KnowsOn, Goes, Heads, ValuesKnow, StartKnows, DscpTrustKnows, StpKnows, LldpKnows, WriteKnows,
              LagKnows, LeafKnows, LimitsKnow
<1>3. CASE Values!At("wait") /\ IF Values!CopyAgrees(cache)
                                THEN Values!Patch(Values!want, "entry", {Values!want}) ELSE Values!TimesOut
  <2>1. call.pc = "wait" BY <1>3, AtIs
  <2>2. call.quiet => Unmasked
    BY <1>0, <2>1 DEF Amid, ValuesKnow, StpKnows, Toward, Unmasked
  <2>3. CASE Values!TimesOut BY <2>3, TimesOutGoes DEF KnowsOn
  <2> QED BY <1>3, <1>a, <2>2, <2>3
<1>4. CASE Values!At("entry") /\ ~call.job.remove /\ Values!Goto("check")
  <2>1. call.pc = "entry" BY <1>4, AtIs
  <2>2. call.quiet => native = call.job.value /\ call.seen = native
    BY <1>0, <2>1, AmidHas DEF Amid, ValuesKnow, StpKnows, Toward
  <2>3. /\ Goes /\ native' = native /\ call'.pc = "check" /\ (call'.quiet => Heads("check"))
    BY <1>4, GotoGoes
  <2>4. call'.quiet => Matches' /\ call'.seen = native'
    BY <2>2, <2>3, Matched DEF Goes, Heads
  <2> QED BY <2>3, <2>4, <1>0, ToTheCheck
<1>5. CASE Values!At("entry") /\ call.job.remove
             /\ Values!Delete(DOMAIN cache, "forgotten", {Values!want})
  <2>1. call.pc = "entry" BY <1>5, AtIs
  <2>2. call.quiet => native = call.job.value
    BY <1>0, <2>1 DEF Amid, ValuesKnow, StpKnows, Toward
  <2>3. \A x \in FieldsOf[feature] : call.job.value[x] = 0
    <3>1. call.job.value = Values!Default(feature) BY <1>0, <1>5, RemovalIsDefault DEF Amid, Typed
    <3> QED BY <3>1, AmidHas, FieldsAre DEF Values!Default
  <2>4. call.quiet => \A s \in Values!Reset(DOMAIN cache) : s = Values!want
    <3> SUFFICES ASSUME call.quiet, NEW s \in Values!Reset(DOMAIN cache) PROVE s = Values!want
      OBVIOUS
    <3>1. s \in Box /\ \A x \in FieldsOf[feature] : s[x] = call.job.value[x]
      BY <1>0, <2>2, <2>3, AmidHas, ResetFits DEF Apart
    <3>2. s = [x \in FieldsOf[feature] |-> s[x]] /\ call.job.value = [x \in FieldsOf[feature] |-> call.job.value[x]]
      BY <3>1, AmidHas, BoxIs
    <3> QED BY <3>1, <3>2, AmidHas
  <2>5. call.quiet => Values!Reset(DOMAIN cache) \subseteq {Values!want} BY <2>4
  <2>6. Apart(DOMAIN cache) /\ feature # "lag" BY <1>0 DEF Apart
  <2>7. /\ Goes
        /\ call'.quiet => /\ Heads("forgotten") /\ native' \in Values!Reset(DOMAIN cache)
                          /\ \A x \in FieldsOf[feature] : cache'[x] = IF x \in DOMAIN cache THEN None ELSE cache[x]
                          /\ call'.pc = "readback" /\ call'.then = "forgotten"
    BY <1>5, <2>5, <2>6, DeleteGoes
  <2>8. call'.quiet => native' = call.job.value /\ \A x \in FieldsOf[feature] : cache'[x] = None
    BY <2>4, <2>7, AmidHas, WantSpans DEF Heads
  <2> QED BY <1>0, <1>5, <2>7, <2>8
          DEF KnowsOn, Goes, Heads, ValuesKnow, StartKnows, DscpTrustKnows, StpKnows, LldpKnows, WriteKnows,
              LagKnows, LeafKnows, LimitsKnow
<1>6. CASE Values!At("forgotten") /\ Values!Accept(\A x \in DOMAIN cache : cache[x] = None)
  <2>1. call.pc = "forgotten" BY <1>6, AtIs
  <2>2. call.quiet => \A x \in DOMAIN cache : cache[x] = None
    BY <1>0, <2>1, WantSpans DEF Amid, ValuesKnow, StpKnows, Toward
  <2> QED BY <1>6, <2>2, AcceptGoes
<1> QED BY <1>1, <1>2, <1>3, <1>4, <1>5, <1>6 DEF Values!StpInterface

\* A request for what differs, and for nothing else.
LEMMA ChangesGo ==
    ASSUME Amid, feature # "lag", call.quiet => Unmasked /\ call.seen = native, NEW expected,
           Values!Patch([x \in Values!Changed |-> Values!want[x]], "check", expected),
           expected = {} \/ Values!want \in expected
    PROVE  KnowsOn
<1> DEFINE values == [x \in Values!Changed |-> Values!want[x]]
<1>1. Values!Changed = {x \in FieldsOf[feature] : call.seen[x] # call.job.value[x]}
  BY AmidHas, WantSpans DEF Values!Changed
<1>2. /\ DOMAIN values = Values!Changed /\ DOMAIN values \subseteq FieldsOf[feature]
      /\ \A x \in DOMAIN values : values[x] = call.job.value[x] /\ values[x] \in Span(x)
  BY <1>1, AmidHas, WantSpans
<1>3. Values!Patch(values, "check", expected) OBVIOUS
<1>. HIDE DEF values
<1>4. Apart(DOMAIN values) BY DEF Apart
<1>5. call.quiet => \A s \in Values!Written(values) : s = call.job.value
  <2> SUFFICES ASSUME call.quiet, NEW s \in Values!Written(values) PROVE s = call.job.value
    OBVIOUS
  <2>1. s \in Box /\ \A x \in FieldsOf[feature] :
                      \/ s[x] = native[x] /\ (x \in DOMAIN values => cache[x] = values[x])
                      \/ x \in DOMAIN values /\ s[x] = values[x]
    BY <1>2, <1>4, AmidHas, WrittenFits
  <2>2. \A x \in FieldsOf[feature] : s[x] = call.job.value[x]
    BY <1>1, <1>2, <2>1 DEF Unmasked
  <2>3. s = [x \in FieldsOf[feature] |-> s[x]] /\ call.job.value = [x \in FieldsOf[feature] |-> call.job.value[x]]
    BY <2>1, AmidHas, BoxIs
  <2> QED BY <2>2, <2>3
<1>6. call.quiet => expected = {} \/ Values!Written(values) \subseteq expected BY <1>5, AmidHas
<1>7. /\ Goes
      /\ call'.quiet => /\ Heads("check") /\ native' \in Values!Written(values)
                        /\ call'.pc = "readback" /\ call'.then = "check"
  BY <1>2, <1>3, <1>4, <1>6, PatchGoes
<1>8. call'.quiet => Matches' BY <1>5, <1>7, Matched DEF Goes, Heads
<1>9. CASE call'.quiet BY <1>7, <1>8, <1>9, ToTheCheck
<1> QED BY <1>7, <1>9 DEF KnowsOn

LEMMA EthernetGoes == ASSUME Amid, Values!Ethernet PROVE KnowsOn
<1>0. feature = "ethernet" BY DEF Values!Ethernet
<1>a. Values!Changed = {x \in FieldsOf[feature] : call.seen[x] # call.job.value[x]}
  BY AmidHas, WantSpans DEF Values!Changed
<1>b. Values!Masked = {x \in Values!Changed : call.cached[x] = call.job.value[x]}
  BY AmidHas DEF Values!Masked
<1>c. call.pc = "start" /\ call.quiet =>
        native = call.before /\ native = call.seen /\ \A x \in FieldsOf[feature] : Followed(x)
  BY <1>0, AmidHas DEF Amid, ValuesKnow, StartKnows, Toward
<1>d. call.pc = "start" /\ call.quiet =>
        \A x \in FieldsOf[feature] \ Values!Masked : native[x] # call.job.value[x] => cache[x] # call.job.value[x]
  BY <1>0, <1>a, <1>b, <1>c, StillUnmasked
<1>1. CASE Values!At("start") /\ Values!Masked = {} /\ Values!Goto("write")
  <2>1. call.pc = "start" BY <1>1, AtIs
  <2>2. /\ Goes /\ native' = native /\ cache' = cache /\ call'.pc = "write" /\ (call'.quiet => Heads("write"))
    BY <1>1, GotoGoes
  <2>3. call'.quiet => Unmasked' /\ call'.seen = native'
    BY <1>1, <1>c, <1>d, <2>1, <2>2 DEF Unmasked, Heads, Goes
  <2> QED BY <1>0, <2>2, <2>3
          DEF KnowsOn, Goes, Heads, ValuesKnow, StartKnows, DscpTrustKnows, StpKnows, LldpKnows, WriteKnows,
              LagKnows, LeafKnows, LimitsKnow
<1>2. CASE /\ Values!At("start")
           /\ Values!Patch([x \in Values!Masked |-> Values!seen[x]], "write", {Values!before})
  <2> DEFINE values == [x \in Values!Masked |-> Values!seen[x]]
  <2>1. call.pc = "start" BY <1>2, AtIs
  <2>2. /\ DOMAIN values = Values!Masked /\ DOMAIN values \subseteq FieldsOf[feature]
        /\ \A x \in DOMAIN values : values[x] = call.seen[x] /\ values[x] \in Span(x)
    BY <1>a, <1>b, AmidHas, WantSpans
  <2>. HIDE DEF values
  <2>3. Apart(DOMAIN values) BY <1>0 DEF Apart
  <2>4. call.quiet => \A s \in Values!Written(values) : s = call.before
    <3> SUFFICES ASSUME call.quiet, NEW s \in Values!Written(values) PROVE s = call.before
      OBVIOUS
    <3>1. s \in Box /\ \A x \in FieldsOf[feature] : s[x] = native[x]
      BY <1>0, <1>c, <2>1, <2>2, <2>3, AmidHas, WrittenFits
    <3>2. s = [x \in FieldsOf[feature] |-> s[x]] /\ native = [x \in FieldsOf[feature] |-> native[x]]
      BY <3>1, AmidHas, BoxIs
    <3> QED BY <1>c, <2>1, <3>1, <3>2
  <2>5. call.quiet => Values!Written(values) \subseteq {Values!before} BY <2>4, AmidHas
  <2>6. Values!Patch(values, "write", {Values!before}) BY <1>2 DEF values
  <2>7. /\ Goes
        /\ call'.quiet => /\ Heads("write") /\ native' \in Values!Written(values)
                          /\ \A x \in FieldsOf[feature] :
                               cache'[x] = IF x \in DOMAIN values THEN values[x] ELSE cache[x]
                          /\ call'.pc = "readback" /\ call'.then = "write"
    BY <2>2, <2>3, <2>5, <2>6, PatchGoes
  <2>8. call'.quiet => native' = native BY <1>c, <2>1, <2>4, <2>7 DEF Heads
  <2>9. call'.quiet => Unmasked'
    BY <1>a, <1>b, <1>d, <2>1, <2>2, <2>7, <2>8 DEF Unmasked, Heads, Goes
  <2> QED BY <1>0, <2>7, <2>9
          DEF KnowsOn, Goes, Heads, ValuesKnow, StartKnows, DscpTrustKnows, StpKnows, LldpKnows, WriteKnows,
              LagKnows, LeafKnows, LimitsKnow
<1>3. CASE /\ Values!At("write")
           /\ Values!Patch([x \in Values!Changed |-> Values!want[x]], "check", {Values!want})
  <2>1. call.pc = "write" BY <1>3, AtIs
  <2>2. call.quiet => Unmasked /\ call.seen = native
    BY <1>0, <2>1, AmidHas DEF Amid, ValuesKnow, WriteKnows, Toward
  <2> QED BY <1>0, <1>3, <2>2, ChangesGo
<1> QED BY <1>1, <1>2, <1>3 DEF Values!Ethernet

\* The copy and the switch agree on whether a port takes part.
LEMMA LldpAgrees ==
    ASSUME Amid, feature \in {"lldp", "lldpglobal"}, NEW s \in Box, NEW v \in Box
    PROVE  /\ Values!Agrees(s, v) <=> (s.value = 1 <=> v.value = 1)
           /\ s.value \in 0..2 /\ (feature = "lldpglobal" => s.value \in 0..1)
           /\ \A t : t \in Values!SameAs(v) <=> t \in Box /\ Values!Agrees(t, v)
<1>1. FieldsOf[feature] = {"value"} /\ (feature = "lldp" => Bound[feature] = [value |-> 2])
      /\ (feature = "lldpglobal" => Bound[feature] = [value |-> 1])
  BY DEF FieldsOf, Bound
<1>2. \A t \in Box : /\ t = [x \in {"value"} |-> t[x]] /\ t.value \in 0..2
                     /\ feature = "lldpglobal" => t.value \in 0..1
  BY <1>1, AmidHas, BoxIs DEF Span
<1>3. Values!Agrees(s, v) <=> (s.value = 1 <=> v.value = 1)
  <2>1. CASE feature = "lldp" BY <2>1 DEF Values!Agrees
  <2>2. CASE feature = "lldpglobal"
    <3>1. s = v <=> s.value = v.value BY <1>2
    <3>2. s.value \in 0..1 /\ v.value \in 0..1 BY <1>2, <2>2
    <3> QED BY <2>2, <3>1, <3>2 DEF Values!Agrees
  <2> QED BY <2>1, <2>2
<1>4. Values!SettingsOf[feature] = Box
  <2>1. Values!SettingsOf[feature] \subseteq Box BY AmidHas, SettingsFit
  <2>2. ASSUME NEW t \in Box PROVE t \in Values!SettingsOf[feature]
    <3>1. t = [value |-> t.value] BY <1>2
    <3>2. CASE feature = "lldp"
      <4>1. Values!SettingsOf[feature] = Values!LldpSettings BY <3>2 DEF Values!SettingsOf
      <4> QED BY <1>2, <3>1, <4>1 DEF Values!LldpSettings
    <3>3. CASE feature = "lldpglobal"
      <4>1. Values!SettingsOf[feature] = Values!LldpGlobalSettings BY <3>3 DEF Values!SettingsOf
      <4> QED BY <1>2, <3>1, <3>3, <4>1 DEF Values!LldpGlobalSettings
    <3> QED BY <3>2, <3>3
  <2> QED BY <2>1, <2>2
<1> QED BY <1>2, <1>3, <1>4 DEF Values!SameAs

\* A comparison with the copy is one with the switch.
LEMMA LldpCopyAgrees ==
    ASSUME Amid, feature \in {"lldp", "lldpglobal"}, NEW copy, Copied(copy)
    PROVE  Values!CopyAgrees(copy) <=> (copy.value = 1 <=> call.seen.value = 1)
<1> DEFINE plain == [x \in DOMAIN copy |-> IF copy[x] = None THEN 0 ELSE copy[x]]
<1>1. FieldsOf[feature] = {"value"} BY DEF FieldsOf
<1>2. None # 1 BY FeatureCallsAssumption
<1>3. plain \in Box
  <2>1. \A x \in FieldsOf[feature] : Span(x) \subseteq 0..3 /\ 0 \in Span(x) BY AmidHas, BoundsAre DEF Span
  <2>2. plain \in Raw /\ \A x \in FieldsOf[feature] : plain[x] \in Span(x)
    BY <2>1 DEF Copied, Raw
  <2> QED BY <2>2 DEF Box
<1>4. plain.value = 1 <=> copy.value = 1
  BY <1>1, <1>2 DEF Copied
<1>5. Values!CopyAgrees(copy) <=> Values!Agrees(plain, call.seen)
  BY AmidHas DEF Values!CopyAgrees
<1>. HIDE DEF plain
<1> QED BY <1>3, <1>4, <1>5, AmidHas, LldpAgrees

\* A request that the copy does not hide, or that changes nothing.
LEMMA LldpPatch ==
    ASSUME Amid, feature \in {"lldp", "lldpglobal"}, NEW values, values = [value |-> values.value],
           values.value \in 0..1, NEW label, NEW goal \in Box, label # "readback",
           call.quiet => \/ cache.value # values.value
                         \/ Values!Agrees(native, goal),
           values.value = 1 <=> goal.value = 1,
           Values!Patch(values, label, Values!SameAs(goal))
    PROVE  /\ Goes
           /\ call'.quiet => /\ Heads(label) /\ native' \in Box /\ Values!Agrees(native', goal)
                             /\ CopyTrue'
                             /\ call'.pc = "readback" /\ call'.then = label
<1>1. FieldsOf[feature] = {"value"} BY DEF FieldsOf
<1>2. /\ DOMAIN values = FieldsOf[feature] /\ \A x \in DOMAIN values : values[x] \in Span(x)
      /\ Apart(DOMAIN values)
  <2>1. Bound[feature]["value"] \in 1..3 BY <1>1, AmidHas, BoundsAre
  <2>2. values.value \in Span("value") BY <2>1 DEF Span
  <2> QED BY <1>1, <2>2 DEF Apart
<1>3. call.quiet => \A s \in Values!Written(values) : s \in Box /\ Values!Agrees(s, goal)
  <2> SUFFICES ASSUME call.quiet, NEW s \in Values!Written(values) PROVE s \in Box /\ Values!Agrees(s, goal)
    OBVIOUS
  <2>1. /\ s \in Box
        /\ \/ s.value = native.value /\ cache.value = values.value
           \/ s.value = values.value
    BY <1>1, <1>2, AmidHas, WrittenFits
  <2> QED BY <2>1, AmidHas, LldpAgrees
<1>4. call.quiet => Values!Written(values) \subseteq Values!SameAs(goal)
  BY <1>3, LldpAgrees
<1>5. /\ Goes
      /\ call'.quiet =>
           /\ Heads(label) /\ native' \in Values!Written(values)
           /\ \A x \in FieldsOf[feature] : cache'[x] = IF x \in DOMAIN values THEN values[x] ELSE cache[x]
           /\ call'.pc = "readback" /\ call'.then = label
  BY <1>2, <1>4, PatchGoes
<1>6. call'.quiet => cache'.value = values.value BY <1>1, <1>2, <1>5
<1>7. call'.quiet => native' \in Box /\ Values!Agrees(native', goal) BY <1>3, <1>5 DEF Heads
<1>8. call'.quiet => (native'.value = 1 <=> goal.value = 1)
  BY <1>7, LldpAgrees
<1> QED BY <1>5, <1>6, <1>7, <1>8 DEF CopyTrue

LEMMA LldpGoes == ASSUME Amid, Values!LldpPort \/ Values!LldpGlobal PROVE KnowsOn
<1>0. feature \in {"lldp", "lldpglobal"} /\ Values!PrimeAndFollow /\ FieldsOf[feature] = {"value"}
  BY DEF Values!LldpPort, Values!LldpGlobal, FieldsOf
<1>a. call.job.value = [value |-> call.job.value.value] /\ call.job.value.value \in 0..1
  <2>1. call.job.value \in Box /\ (feature = "lldp" => call.job.value.value # 2)
    BY AmidHas, WantFits DEF Amid, Typed
  <2>2. call.job.value = [x \in {"value"} |-> call.job.value[x]] BY <1>0, <2>1, AmidHas, BoxIs
  <2>3. call.job.value.value \in 0..2 /\ (feature = "lldpglobal" => call.job.value.value \in 0..1)
    BY <1>0, <2>1, LldpAgrees
  <2> QED BY <1>0, <2>1, <2>2, <2>3
<1>b. Matches <=> (native.value = 1 <=> call.job.value.value = 1)
  BY <1>0, AmidHas, LldpAgrees DEF Matches
<1>c. ASSUME call.quiet => CopyTrue /\ ~Matches, Values!ThenWanted PROVE KnowsOn
  <2>1. Values!Patch(Values!want, "follow", Values!SameAs(Values!want)) BY <1>c DEF Values!ThenWanted
  <2>2. call.quiet => cache.value # call.job.value.value
    BY <1>0, <1>a, <1>b, <1>c, AmidHas, LldpAgrees DEF CopyTrue
  <2>3. /\ Goes
        /\ call'.quiet => /\ Heads("follow") /\ Values!Agrees(native', call.job.value) /\ CopyTrue'
                          /\ call'.pc = "readback" /\ call'.then = "follow"
    BY <1>0, <1>a, <2>1, <2>2, AmidHas, LldpPatch
  <2>4. call'.quiet => Matches' BY <2>3 DEF Matches, Goes, Heads, Values!Agrees
  <2> QED BY <1>0, <2>3, <2>4
          DEF KnowsOn, Goes, Heads, ValuesKnow, StartKnows, DscpTrustKnows, StpKnows, LldpKnows, WriteKnows,
              LagKnows, LeafKnows, LimitsKnow
<1>d. call.pc = "start" /\ call.quiet => native = call.seen /\ ~Matches /\ Followed("value")
  BY <1>0, AmidHas DEF Amid, ValuesKnow, StartKnows, Toward
<1>e. Values!CopyAgrees(call.cached) <=> (call.cached.value = 1 <=> call.seen.value = 1)
  BY <1>0, AmidHas, LldpCopyAgrees
<1>f. Values!CopyAgrees(cache) <=> (cache.value = 1 <=> call.seen.value = 1)
  BY <1>0, AmidHas, LldpCopyAgrees
<1>1. CASE Values!At("start") /\ Values!CopyAgrees(call.cached) /\ Values!ThenWanted
  <2>1. call.pc = "start" BY <1>1, AtIs
  <2>2. call.quiet => CopyTrue
    <3>2. call.quiet => (call.cached.value = 1 <=> native.value = 1) BY <1>1, <1>d, <1>e, <2>1
    <3>3. call.quiet => cache["value"] = call.cached["value"] \/ CopyTrue BY <1>0, <1>d, <2>1 DEF Followed
    <3> QED BY <3>2, <3>3 DEF CopyTrue
  <2> QED BY <1>1, <1>c, <1>d, <2>1, <2>2
<1>2. CASE /\ Values!At("start")
           /\ Values!Patch([value |-> IF Values!seen.value = 1 THEN 1 ELSE 0], "primed", Values!SameAs(Values!seen))
  <2> DEFINE values == [value |-> IF Values!seen.value = 1 THEN 1 ELSE 0]
  <2>1. call.pc = "start" BY <1>2, AtIs
  <2>2. values = [value |-> values.value] /\ values.value \in 0..1 /\ (values.value = 1 <=> call.seen.value = 1)
    BY AmidHas
  <2>3. Values!Patch(values, "primed", Values!SameAs(call.seen)) BY <1>2, AmidHas
  <2>. HIDE DEF values
  <2>4. call.quiet => Values!Agrees(native, call.seen) BY <1>d, <2>1 DEF Values!Agrees
  <2>5. /\ Goes
        /\ call'.quiet => /\ Heads("primed") /\ native' \in Box /\ Values!Agrees(native', call.seen) /\ CopyTrue'
                          /\ call'.pc = "readback" /\ call'.then = "primed"
    BY <1>0, <2>2, <2>3, <2>4, AmidHas, LldpPatch
  <2>6. call'.quiet => (native'.value = 1 <=> native.value = 1)
    BY <1>0, <1>d, <2>1, <2>5, AmidHas, LldpAgrees DEF Heads
  <2>7. call'.quiet => ~Values!Agrees(native', call.job.value)
    BY <1>0, <1>b, <1>d, <2>1, <2>5, <2>6, AmidHas, LldpAgrees DEF Heads
  <2>8. call'.quiet => ~Matches' BY <2>5, <2>7 DEF Matches, Goes, Heads, Values!Agrees
  <2> QED BY <1>0, <2>5, <2>8
          DEF KnowsOn, Goes, Heads, ValuesKnow, StartKnows, DscpTrustKnows, StpKnows, LldpKnows, WriteKnows,
              LagKnows, LeafKnows, LimitsKnow
<1>3. CASE Values!At("primed") /\ Values!Following("aligned")
  <2>1. call.pc = "primed" BY <1>3, AtIs
  <2>2. call.quiet => CopyTrue /\ ~Matches /\ call.seen = native
    BY <1>0, <2>1, AmidHas DEF Amid, ValuesKnow, LldpKnows, Toward
  <2>3. CASE ~Values!CopyAgrees(cache)
    <3>1. ~call.quiet BY <1>f, <2>2, <2>3 DEF CopyTrue
    <3>2. Values!Goto("failed") BY <1>3, <2>3 DEF Values!Following
    <3>3. Goes /\ call'.pc = "failed" BY <3>1, <3>2, GotoGoes
    <3> QED BY <3>3 DEF KnowsOn, Working
  <2>4. CASE Values!CopyAgrees(cache)
    <3>1. Values!Goto("aligned") BY <1>3, <2>4 DEF Values!Following
    <3>2. /\ Goes /\ native' = native /\ cache' = cache /\ call'.pc = "aligned"
          /\ call'.quiet => Heads("aligned")
      BY <3>1, GotoGoes
    <3>3. call'.quiet => CopyTrue' /\ ~Matches' /\ call'.seen = native'
      BY <2>2, <3>2, Matched DEF CopyTrue, Goes, Heads
    <3> QED BY <1>0, <3>2, <3>3
            DEF KnowsOn, Goes, Heads, ValuesKnow, StartKnows, DscpTrustKnows, StpKnows, LldpKnows, WriteKnows,
                LagKnows, LeafKnows, LimitsKnow
  <2> QED BY <2>3, <2>4
<1>4. CASE Values!At("aligned") /\ Values!ThenWanted
  <2>1. call.pc = "aligned" BY <1>4, AtIs
  <2>2. call.quiet => CopyTrue /\ ~Matches
    BY <1>0, <2>1 DEF Amid, ValuesKnow, LldpKnows, Toward
  <2> QED BY <1>4, <1>c, <2>2
<1>5. CASE Values!At("follow") /\ Values!Following("check")
  <2>1. call.pc = "follow" BY <1>5, AtIs
  <2>2. call.quiet => CopyTrue /\ Matches /\ call.seen = native
    BY <1>0, <2>1, AmidHas DEF Amid, ValuesKnow, LldpKnows, Toward
  <2>3. CASE ~Values!CopyAgrees(cache)
    <3>1. ~call.quiet BY <1>f, <2>2, <2>3 DEF CopyTrue
    <3>2. Values!Goto("failed") BY <1>5, <2>3 DEF Values!Following
    <3>3. Goes /\ call'.pc = "failed" BY <3>1, <3>2, GotoGoes
    <3> QED BY <3>3 DEF KnowsOn, Working
  <2>4. CASE Values!CopyAgrees(cache)
    <3>1. Values!Goto("check") BY <1>5, <2>4 DEF Values!Following
    <3>2. /\ Goes /\ native' = native /\ call'.pc = "check"
          /\ call'.quiet => Heads("check")
      BY <3>1, GotoGoes
    <3>3. call'.quiet => Matches' /\ call'.seen = native'
      BY <2>2, <3>2, Matched DEF Goes, Heads
    <3> QED BY <3>2, <3>3, <1>0, ToTheCheck
  <2> QED BY <2>3, <2>4
<1> QED BY <1>0, <1>1, <1>2, <1>3, <1>4, <1>5 DEF Values!PrimeAndFollow

\* A request that no read follows.
LEMMA SendsOn ==
    ASSUME Amid, NEW S, S \subseteq Box, NEW x, Copied(x), NEW label,
           Values!Send(S, x, [call EXCEPT !.pc = label]), label \notin {"failed", "read", "readback"}
    PROVE  /\ Goes
           /\ call'.quiet => Heads(label) /\ call'.pc = label /\ native' \in S /\ cache' = x
<1> DEFINE c == [call EXCEPT !.pc = label]
<1>1. /\ DOMAIN c = Fields /\ c.pc = label
      /\ \A f \in {"job", "before", "seen", "cached", "others", "quiet", "failed"} : c[f] = call[f]
  BY AmidHas DEF Fields
<1>2. Values!Send(S, x, c) OBVIOUS
<1>. HIDE DEF c
<1>3. Goes /\ (call'.quiet => call.quiet /\ call' = c /\ native' \in S /\ cache' = x)
  BY <1>1, <1>2, SendGoes
<1> QED BY <1>1, <1>3 DEF Heads, Toward

\* An aggregate that has members: they follow its state.
LEMMA LagBox ==
    ASSUME Amid, feature = "lag"
    PROVE  /\ FieldsOf[feature] = {"name", "enabled", "members"}
           /\ \A s \in Box : /\ DOMAIN s = {"name", "enabled", "members"} /\ s.name \in 0..1 /\ s.enabled \in 0..1
                             /\ s.members \in {s.enabled, 2}
                             /\ s = [x \in {"name", "enabled", "members"} |-> s[x]]
           /\ call.job.value.members = call.job.value.enabled
           /\ cache.name \in 0..1 /\ cache.enabled \in 0..1
<1>1. FieldsOf[feature] = {"name", "enabled", "members"} /\ Bound[feature] = [name |-> 1, enabled |-> 1, members |-> 2]
  BY DEF FieldsOf, Bound
<1>2. \A s \in Box : s.members \in {s.enabled, 2} BY DEF Box
<1> QED BY <1>1, <1>2, AmidHas, BoxIs, WantFits DEF Span, Amid, Typed, Copied

LEMMA LagCarried ==
    ASSUME Amid, feature = "lag", native.members # 2, NEW w,
           w = [x \in {"name", "enabled", "members"} |-> w[x]], w.members = native.members
    PROVE  /\ Values!Carried(w).name = w.name /\ Values!Carried(w).enabled = w.enabled
           /\ Values!Carried(w).members = w.enabled
<1>1. native.members = native.enabled BY AmidHas, LagBox
<1>2. CASE w.enabled # native.enabled BY <1>2 DEF Values!Carried
<1>3. CASE w.enabled = native.enabled BY <1>1, <1>3 DEF Values!Carried
<1> QED BY <1>2, <1>3

LEMMA LagWritten ==
    ASSUME Amid, feature = "lag", native.members # 2, NEW values, DOMAIN values \in {{"name"}, {"enabled"}},
           \A x \in DOMAIN values : values[x] \in 0..1 /\ (native[x] = values[x] \/ cache[x] # values[x]),
           NEW s \in Values!Written(values)
    PROVE  /\ s \in Box /\ s.members = s.enabled
           /\ s.name = IF "name" \in DOMAIN values THEN values["name"] ELSE native.name
           /\ s.enabled = IF "enabled" \in DOMAIN values THEN values["enabled"] ELSE native.enabled
<1>1. PICK skipped \in SUBSET {x \in DOMAIN values : cache[x] = values[x]} :
         s = Values!Carried([x \in DOMAIN native |->
               IF x \in DOMAIN values \ skipped THEN values[x] ELSE native[x]])
  BY Zenon DEF Values!Written
<1> DEFINE w == [x \in DOMAIN native |-> IF x \in DOMAIN values \ skipped THEN values[x] ELSE native[x]]
<1>2. DOMAIN native = {"name", "enabled", "members"} BY AmidHas, LagBox
<1>3. /\ w = [x \in {"name", "enabled", "members"} |-> w[x]] /\ w.members = native.members
      /\ w.name = IF "name" \in DOMAIN values THEN values["name"] ELSE native.name
      /\ w.enabled = IF "enabled" \in DOMAIN values THEN values["enabled"] ELSE native.enabled
  BY <1>1, <1>2
<1>4. s \in Box
  <2>1. Apart(DOMAIN values) BY DEF Apart
  <2>2. \A x \in DOMAIN values \intersect FieldsOf[feature] : values[x] \in Span(x) BY DEF Span, Bound
  <2> QED BY <2>1, <2>2, AmidHas, WrittenFits
<1>. HIDE DEF w
<1>5. s = Values!Carried(w) BY <1>1 DEF w
<1> QED BY <1>3, <1>4, <1>5, LagCarried

LEMMA LagReset ==
    ASSUME Amid, feature = "lag", native.members # 2, NEW s \in Values!Reset({"enabled"})
    PROVE  s \in Box /\ s.members = s.enabled /\ s.name = native.name /\ s.enabled = 0
<1> DEFINE w == [x \in DOMAIN native |-> IF x \in {"enabled"} /\ cache[x] # None THEN 0 ELSE native[x]]
<1>1. s = Values!Carried(w) BY DEF Values!Reset
<1>2. DOMAIN native = {"name", "enabled", "members"} BY AmidHas, LagBox
<1>3. cache.enabled # None BY LagBox, FeatureCallsAssumption
<1>4. /\ w = [x \in {"name", "enabled", "members"} |-> w[x]] /\ w.members = native.members
      /\ w.name = native.name /\ w.enabled = 0
  BY <1>2, <1>3
<1>5. s \in Box
  <2>1. Apart({"enabled"}) BY DEF Apart
  <2> QED BY <2>1, AmidHas, ResetFits
<1>. HIDE DEF w
<1> QED BY <1>1, <1>4, <1>5, LagCarried

LEMMA LagGoes == ASSUME Amid, Values!LagInterface PROVE KnowsOn
<1> DEFINE admin == IF call.before.enabled = call.job.value.enabled THEN "poll" ELSE "admin"
           patch(values, label) ==
             Values!Send(Values!Written(values), Values!Overlaid(values), [call EXCEPT !.pc = label])
<1>0. feature = "lag" BY DEF Values!LagInterface
<1>a. FieldsOf[feature] = {"name", "enabled", "members"} BY <1>0, LagBox
<1>b. \A s \in {native, call.before, call.job.value} :
        s.name \in 0..1 /\ s.enabled \in 0..1 /\ s = [x \in {"name", "enabled", "members"} |-> s[x]]
  BY <1>0, AmidHas, LagBox
<1>c. call.job.value.members = call.job.value.enabled /\ (native.members # 2 => native.members = native.enabled)
  BY <1>0, AmidHas, LagBox
<1>d. ASSUME NEW s \in Box, s.members = s.enabled, s.name = call.job.value.name,
             s.enabled = call.job.value.enabled
      PROVE  s = call.job.value
  BY <1>0, <1>b, <1>c, <1>d, LagBox
<1>e. ASSUME NEW values, DOMAIN values \in {{"name"}, {"enabled"}},
             \A x \in DOMAIN values : values[x] \in 0..1,
             call.quiet => /\ native.members # 2
                           /\ \A x \in DOMAIN values : native[x] = values[x] \/ cache[x] # values[x],
             NEW label, patch(values, label), label \notin {"failed", "read", "readback"}
      PROVE  /\ Goes
             /\ call'.quiet =>
                  /\ Heads(label) /\ call'.pc = label /\ native' \in Box /\ native'.members = native'.enabled
                  /\ native'.name = IF "name" \in DOMAIN values THEN values["name"] ELSE native.name
                  /\ native'.enabled = IF "enabled" \in DOMAIN values THEN values["enabled"] ELSE native.enabled
                  /\ \A x \in {"name", "enabled"} :
                        cache'[x] = IF x \in DOMAIN values THEN values[x] ELSE cache[x]
  <2>1. \A x \in DOMAIN values \intersect FieldsOf[feature] : values[x] \in Span(x)
    BY <1>0, <1>e DEF Span, Bound
  <2>2. DOMAIN values \subseteq FieldsOf[feature] /\ Apart(DOMAIN values) BY <1>a, <1>e DEF Apart
  <2>3. Values!Written(values) \subseteq Box BY <2>1, <2>2, AmidHas, WrittenFits
  <2>4. /\ Copied(Values!Overlaid(values))
        /\ \A x \in FieldsOf[feature] :
             Values!Overlaid(values)[x] = IF x \in DOMAIN values THEN values[x] ELSE cache[x]
    BY <2>1, <2>2, AmidHas, CopyWritten
  <2>5. /\ Goes
        /\ call'.quiet => /\ Heads(label) /\ call'.pc = label /\ native' \in Values!Written(values)
                          /\ cache' = Values!Overlaid(values)
    BY <1>e, <2>3, <2>4, SendsOn
  <2>6. call'.quiet => native.members # 2 /\ call.quiet BY <1>e, <2>5 DEF Heads
  <2> QED BY <1>0, <1>a, <1>e, <2>4, <2>5, <2>6, LagWritten
<1>1. CASE Values!At("start") /\ Values!before.name # Values!want.name /\ patch([name |-> Values!before.name], "rename")
  <2>1. call.pc = "start" BY <1>1, AtIs
  <2>2. call.quiet => native = call.before /\ native.members # 2
    BY <1>0, <2>1 DEF Amid, ValuesKnow, StartKnows, Toward
  <2> DEFINE values == [name |-> call.before.name]
  <2>3. patch(values, "rename") BY <1>1, AmidHas
  <2>4. /\ DOMAIN values = {"name"} /\ values["name"] = call.before.name OBVIOUS
  <2>. HIDE DEF values, patch
  <2>5. /\ Goes
        /\ call'.quiet =>
             /\ Heads("rename") /\ call'.pc = "rename" /\ native' \in Box /\ native'.members = native'.enabled
             /\ native'.name = call.before.name /\ native'.enabled = native.enabled
             /\ cache'.name = call.before.name
    BY <1>b, <1>e, <2>2, <2>3, <2>4
  <2>6. call'.quiet => native' = native
    BY <1>0, <1>b, <1>c, <2>2, <2>5, LagBox DEF Heads
  <2>7. call.before.name # call.job.value.name BY <1>1, AmidHas
  <2> QED BY <1>0, <2>2, <2>5, <2>6, <2>7
          DEF KnowsOn, Goes, Heads, ValuesKnow, StartKnows, DscpTrustKnows, StpKnows, LldpKnows, WriteKnows,
              LagKnows, LeafKnows, LimitsKnow, Leaving
<1>2. CASE Values!At("start") /\ Values!before.name = Values!want.name /\ Values!Goto(admin)
  <2>1. call.pc = "start" BY <1>2, AtIs
  <2>2. call.quiet => native = call.before /\ native.members # 2
    BY <1>0, <2>1 DEF Amid, ValuesKnow, StartKnows, Toward
  <2>3. /\ Goes /\ UNCHANGED <<native, cache>> /\ call'.pc = admin
        /\ call'.quiet => Heads(admin)
    BY <1>2, GotoGoes
  <2>4. call.before.name = call.job.value.name BY <1>2, AmidHas
  <2>5. call'.quiet /\ admin = "poll" => native = call.job.value
    BY <1>c, <1>d, <2>2, <2>3, <2>4, AmidHas DEF Heads
  <2> QED BY <1>0, <2>2, <2>3, <2>4, <2>5
          DEF KnowsOn, Goes, Heads, ValuesKnow, StartKnows, DscpTrustKnows, StpKnows, LldpKnows, WriteKnows,
              LagKnows, LeafKnows, LimitsKnow, Leaving
<1>3. CASE Values!At("rename") /\ patch([name |-> Values!want.name], admin)
  <2>1. call.pc = "rename" BY <1>3, AtIs
  <2>2. call.quiet => /\ native = call.before /\ native.members # 2
                      /\ cache.name = native.name /\ native.name # call.job.value.name
    BY <1>0, <2>1 DEF Amid, ValuesKnow, LagKnows, Toward
  <2> DEFINE values == [name |-> call.job.value.name]
  <2>3. patch(values, admin) BY <1>3, AmidHas
  <2>4. /\ DOMAIN values = {"name"} /\ values["name"] = call.job.value.name OBVIOUS
  <2>a. admin \notin {"failed", "read", "readback"} OBVIOUS
  <2>b. \A x \in DOMAIN values : values[x] \in 0..1 BY <1>b, <2>4
  <2>c. call.quiet => /\ native.members # 2
                      /\ \A x \in DOMAIN values : native[x] = values[x] \/ cache[x] # values[x]
    BY <2>2, <2>4
  <2>. HIDE DEF values, patch, admin
  <2>5. /\ Goes
        /\ call'.quiet =>
             /\ Heads(admin) /\ call'.pc = admin /\ native' \in Box /\ native'.members = native'.enabled
             /\ native'.name = call.job.value.name /\ native'.enabled = native.enabled
    BY <1>b, <1>e, <2>3, <2>4, <2>a, <2>b, <2>c
  <2>. USE DEF admin
  <2>6. call'.quiet /\ admin = "poll" => native' = call.job.value
    BY <1>d, <2>2, <2>5 DEF Heads
  <2>7. call'.quiet => native'.members # 2
    BY <1>b, <2>5, <1>0, LagBox
  <2> QED BY <1>0, <2>2, <2>5, <2>6, <2>7
          DEF KnowsOn, Goes, Heads, ValuesKnow, StartKnows, DscpTrustKnows, StpKnows, LldpKnows, WriteKnows,
              LagKnows, LeafKnows, LimitsKnow, Leaving
<1>k. call.pc \in {"admin", "disable"} /\ call.quiet =>
        /\ native.name = call.job.value.name /\ native.members # 2
        /\ native.enabled # call.job.value.enabled
        /\ call.pc = "disable" => native.enabled = 0 /\ cache.enabled = 0
  BY <1>0 DEF Amid, ValuesKnow, LagKnows, Toward
<1>4. CASE /\ Values!At("admin") /\ Values!want.enabled = 0
           /\ Values!Send(Values!Reset({"enabled"}), Values!Emptied({"enabled"}), [call EXCEPT !.pc = "poll"])
  <2>1. call.pc = "admin" BY <1>4, AtIs
  <2>2. Values!Reset({"enabled"}) \subseteq Box
    <3>1. Apart({"enabled"}) BY DEF Apart
    <3> QED BY <3>1, AmidHas, ResetFits
  <2>3. Copied(Values!Emptied({"enabled"})) BY AmidHas, CopyEmptied
  <2>4. /\ Goes
        /\ call'.quiet => Heads("poll") /\ call'.pc = "poll" /\ native' \in Values!Reset({"enabled"})
    <3> DEFINE S == Values!Reset({"enabled"})
               x == Values!Emptied({"enabled"})
    <3>1. S \subseteq Box /\ Copied(x) /\ Values!Send(S, x, [call EXCEPT !.pc = "poll"]) BY <1>4, <2>2, <2>3
    <3>. HIDE DEF S, x
    <3>2. /\ Goes
          /\ call'.quiet => Heads("poll") /\ call'.pc = "poll" /\ native' \in S
      BY <3>1, SendsOn
    <3> QED BY <3>2 DEF S
  <2>5. call'.quiet => native' = call.job.value
    <3>1. call'.quiet => call.quiet BY <2>4 DEF Heads
    <3>2. call.job.value.enabled = 0 BY <1>4, AmidHas
    <3> QED BY <1>0, <1>d, <1>k, <2>1, <2>4, <3>1, <3>2, LagReset
  <2> QED BY <1>0, <2>4, <2>5
          DEF KnowsOn, Goes, Heads, ValuesKnow, StartKnows, DscpTrustKnows, StpKnows, LldpKnows, WriteKnows,
              LagKnows, LeafKnows, LimitsKnow, Leaving
<1>5. CASE Values!At("admin") /\ Values!want.enabled = 1 /\ patch([enabled |-> 0], "disable")
  <2>1. call.pc = "admin" BY <1>5, AtIs
  <2> DEFINE values == [enabled |-> 0]
  <2>2. patch(values, "disable") BY <1>5
  <2>3. /\ DOMAIN values = {"enabled"} /\ values["enabled"] = 0 OBVIOUS
  <2>4. call.job.value.enabled = 1 BY <1>5, AmidHas
  <2>5. call.quiet => native.enabled = 0 BY <1>b, <1>k, <2>1, <2>4
  <2>c. call.quiet => /\ native.members # 2
                      /\ \A x \in DOMAIN values : native[x] = values[x] \/ cache[x] # values[x]
    BY <1>k, <2>1, <2>3, <2>5
  <2>. HIDE DEF values, patch
  <2>6. /\ Goes
        /\ call'.quiet =>
             /\ Heads("disable") /\ call'.pc = "disable" /\ native' \in Box /\ native'.members = native'.enabled
             /\ native'.name = native.name /\ native'.enabled = 0 /\ cache'.enabled = 0
    BY <1>e, <2>2, <2>3, <2>c
  <2>7. call'.quiet => native'.members # 2 /\ native'.name = call.job.value.name
    BY <1>k, <2>1, <2>6 DEF Heads
  <2> QED BY <1>0, <2>4, <2>6, <2>7
          DEF KnowsOn, Goes, Heads, ValuesKnow, StartKnows, DscpTrustKnows, StpKnows, LldpKnows, WriteKnows,
              LagKnows, LeafKnows, LimitsKnow, Leaving
<1>6. CASE Values!At("disable") /\ patch([enabled |-> 1], "poll")
  <2>1. call.pc = "disable" BY <1>6, AtIs
  <2> DEFINE values == [enabled |-> 1]
  <2>2. patch(values, "poll") BY <1>6
  <2>3. /\ DOMAIN values = {"enabled"} /\ values["enabled"] = 1 OBVIOUS
  <2>c. call.quiet => /\ native.members # 2
                      /\ \A x \in DOMAIN values : native[x] = values[x] \/ cache[x] # values[x]
    BY <1>k, <2>1, <2>3
  <2>. HIDE DEF values, patch
  <2>6. /\ Goes
        /\ call'.quiet =>
             /\ Heads("poll") /\ call'.pc = "poll" /\ native' \in Box /\ native'.members = native'.enabled
             /\ native'.name = native.name /\ native'.enabled = 1
    BY <1>e, <2>2, <2>3, <2>c
  <2>7. call'.quiet => native' = call.job.value
    <3>1. call'.quiet => call.job.value.enabled = 1 BY <1>b, <1>k, <2>1, <2>6 DEF Heads
    <3> QED BY <1>d, <1>k, <2>1, <2>6, <3>1 DEF Heads
  <2> QED BY <1>0, <2>6, <2>7
          DEF KnowsOn, Goes, Heads, ValuesKnow, StartKnows, DscpTrustKnows, StpKnows, LldpKnows, WriteKnows,
              LagKnows, LeafKnows, LimitsKnow, Leaving
<1>7. CASE /\ Values!At("poll")
           /\ Values!Continue([call EXCEPT !.pc = "readback", !.then = "check", !.expect = Values!AnyValue])
  <2>1. call.pc = "poll" BY <1>7, AtIs
  <2>2. call.quiet => native = call.job.value BY <1>0, <2>1 DEF Amid, ValuesKnow, LagKnows, Toward
  <2> DEFINE c == [call EXCEPT !.pc = "readback", !.then = "check", !.expect = {}]
  <2>3. /\ c.pc = "readback" /\ c.then = "check" /\ c.expect = {}
        /\ \A f \in {"job", "before", "seen", "cached", "others", "quiet", "failed"} : c[f] = call[f]
    BY AmidHas DEF Fields
  <2>4. Continue(c) BY <1>7, ValuesSame DEF Values!AnyValue
  <2>. HIDE DEF c
  <2>5. call' = c /\ UNCHANGED <<feature, native, cache, unowned>> BY <2>4, ContinueIs
  <2>6. Placed'
    <3>1. call'.seen = call.seen /\ call'.before = call.before /\ call'.cached = call.cached BY <2>3, <2>5
    <3> QED BY <2>5, <3>1, AmidHas, PlacedSame
  <2>7. Firm' BY <2>1, <2>3, <2>5, AmidHas DEF Firm, Amid
  <2>8. Goes /\ (call'.quiet => Heads("check"))
    BY <2>3, <2>5, <2>6, <2>7 DEF Goes, Heads, Toward
  <2>9. call'.quiet => Matches' BY <2>2, <2>5, <2>8, Matched DEF Heads
  <2>10. call'.pc = "readback" /\ call'.then = "check" BY <2>3, <2>5
  <2>11. call'.quiet => native' = call.job.value BY <2>2, <2>5, <2>8 DEF Heads
  <2> QED BY <2>8, <2>9, <2>10, <2>11, ToTheCheck
<1> QED BY <1>1, <1>2, <1>3, <1>4, <1>5, <1>6, <1>7, AmidHas DEF Values!LagInterface

LEMMA LeavesAre ==
    ASSUME Amid, feature \in Leaving
    PROVE  /\ FieldsOf[feature] = IF feature \in {"igmpglobal", "igmpvlan"} THEN {"mode", "version"} ELSE {"value"}
           /\ feature \notin {"dscptrust", "stp", "lldp", "lldpglobal", "lag", "storm", "ethernet"}
           /\ \A s, t \in Box : Values!Agrees(s, t) <=> s = t
           /\ \A x \in FieldsOf[feature] : 0 \notin Values!Expressible(feature, x)
<1>1. \A x \in FieldsOf[feature] : Values!Expressible(feature, x) = Shown[feature][x]
  BY AmidHas, ShownIs
<1>2. FieldsOf[feature] = IF feature \in {"igmpglobal", "igmpvlan"} THEN {"mode", "version"} ELSE {"value"}
  BY DEF Leaving, FieldsOf
<1>3. feature \notin {"dscptrust", "stp", "lldp", "lldpglobal", "lag", "storm", "ethernet"} BY DEF Leaving
<1>4. \A x \in FieldsOf[feature] : 0 \notin Shown[feature][x] BY <1>2 DEF Leaving, Shown
<1>5. \A s, t \in Box : Values!Agrees(s, t) <=> s = t BY <1>3 DEF Values!Agrees
<1> QED BY <1>1, <1>2, <1>3, <1>4, <1>5

\* The leaf at hand, and those that are done.
LeavesLeft ==
    /\ call.todo \in Seq(FieldsOf[feature])
    /\ \A x \in FieldsOf[feature] \ Range(call.todo) : native[x] = call.job.value[x]

\* What a call that takes one leaf after the other goes on with.
LEMMA LeafLabels ==
    ASSUME Amid, feature \in Leaving, Goes,
           call'.quiet => /\ LeavesLeft'
                          /\ \/ Heads("clear")
                             \/ call'.todo # <<>> /\ Heads("set") /\ Own(Head(call.todo))'
                             \/ /\ call'.todo # <<>> /\ Heads("unset")
                                /\ \/ native'[Head(call'.todo)] = call.job.value[Head(call'.todo)]
                                   \/ /\ call.job.value[Head(call'.todo)] = 0
                                      /\ cache'[Head(call'.todo)] = native'[Head(call'.todo)]
                                      /\ native'[Head(call'.todo)] \in Values!Expressible(feature, Head(call'.todo))
                          /\ \/ call'.pc = "readback" /\ call'.then \in {"clear", "set", "unset"}
                             \/ call'.pc \in {"clear", "set", "unset"} /\ call'.seen = native'
    PROVE  KnowsOn
<1>1. Values!Expressible(feature', Head(call'.todo)) = Values!Expressible(feature, Head(call'.todo))
  BY DEF Goes
<1>a. feature' = feature BY DEF Goes
<1>2. call'.quiet => LeafKnows'
  BY <1>1, <1>a DEF LeafKnows, LeavesLeft, Heads, Values!Expressible
<1> QED BY <1>2, LeavesAre
        DEF KnowsOn, Goes, Heads, ValuesKnow, StartKnows, DscpTrustKnows, StpKnows, LldpKnows, WriteKnows,
            LagKnows, LimitsKnow

\* The leaf at hand has what is wanted: on to the next.
LEMMA LeafTurns ==
    ASSUME Amid, feature \in Leaving, Goes, call.quiet => LeavesLeft /\ call.todo # <<>>,
           call'.quiet => /\ Heads("clear") /\ call'.todo = Tail(call.todo)
                          /\ native'[Head(call.todo)] = call.job.value[Head(call.todo)]
                          /\ \A x \in FieldsOf[feature] \ {Head(call.todo)} : native'[x] = native[x]
                          /\ \/ call'.pc = "readback" /\ call'.then = "clear"
                             \/ call'.pc = "clear" /\ call'.seen = native'
    PROVE  KnowsOn
<1>1. call'.quiet => call.quiet /\ LeavesLeft BY DEF Heads
<1>2. ASSUME call'.quiet PROVE LeavesLeft'
  <2>1. call.todo \in Seq(FieldsOf[feature]) /\ call.todo # <<>> BY <1>1, <1>2 DEF LeavesLeft
  <2>2. /\ Tail(call.todo) \in Seq(FieldsOf[feature])
        /\ \A x \in Range(call.todo) : x = Head(call.todo) \/ x \in Range(Tail(call.todo))
    BY <2>1, RestHasTheOthers
  <2>3. \A x \in FieldsOf[feature] \ Range(Tail(call.todo)) : native'[x] = call.job.value[x]
    BY <1>1, <1>2, <2>2 DEF LeavesLeft
  <2>4. feature' = feature /\ call'.job = call.job BY <1>2 DEF Goes, Heads
  <2> QED BY <1>2, <2>2, <2>3, <2>4 DEF LeavesLeft
<1> QED BY <1>2, LeafLabels

LEMMA LeafStarts ==
    ASSUME Amid, feature \in Leaving, NEW leaves \in Seq(FieldsOf[feature]), Range(leaves) = FieldsOf[feature],
           Values!Replace(leaves)
    PROVE  KnowsOn
<1> DEFINE c == [call EXCEPT !.pc = "clear", !.todo = leaves]
<1>1. call.pc = "start" /\ Values!Continue(c) BY AtIs DEF Values!Replace
<1>2. /\ DOMAIN c = Fields /\ c.pc = "clear" /\ c.todo = leaves /\ c.seen = call.seen
      /\ \A f \in {"job", "before", "seen", "cached", "others", "quiet", "failed"} : c[f] = call[f]
  BY AmidHas DEF Fields
<1>. HIDE DEF c
<1>3. /\ Goes /\ call' = c /\ UNCHANGED <<native, cache>>
      /\ call'.quiet => Heads("clear")
  BY <1>1, <1>2, ContinueGoes
<1>4. call'.quiet => call'.seen = native' BY <1>1, <1>2, <1>3, AmidHas DEF Heads
<1>5. call'.quiet => LeavesLeft' BY <1>2, <1>3 DEF LeavesLeft, Goes
<1>6. call'.pc = "clear" BY <1>2, <1>3
<1> QED BY <1>3, <1>4, <1>5, <1>6, LeafLabels

LEMMA LeafHas ==
    ASSUME Amid, feature \in Leaving, call.pc \in {"clear", "set", "unset"}
    PROVE  /\ call.quiet => LeavesLeft /\ call.seen = native
           /\ call.quiet /\ call.todo # <<>> => Values!Leaf \in FieldsOf[feature]
           /\ call.quiet /\ call.pc # "clear" => call.todo # <<>>
           /\ Values!Leaf = Head(call.todo)
<1>1. call.quiet => LeavesLeft BY DEF Amid, ValuesKnow, LeafKnows, LeavesLeft, Toward
<1>2. call.quiet /\ call.pc # "clear" => call.todo # <<>> BY DEF Amid, ValuesKnow, LeafKnows, Toward
<1>3. Values!Leaf = Head(call.todo) BY DEF Values!Leaf
<1>4. call.quiet /\ call.todo # <<>> => Head(call.todo) \in FieldsOf[feature]
  BY <1>1 DEF LeavesLeft
<1> QED BY <1>1, <1>2, <1>3, <1>4, AmidHas

\* What is set in place of the leaf at hand.
LEMMA SetIs ==
    ASSUME Amid, feature \in Leaving, Values!Leaf \in FieldsOf[feature]
    PROVE  LET x == Values!Leaf
           IN  /\ Values!Set(x) \in Span(x)
               /\ call.job.value[x] # 0 => Values!Set(x) = call.job.value[x]
               /\ call.job.value[x] = 0 /\ call.seen[x] = 0 => Values!Set(x) = 0
               /\ call.job.value[x] = 0 /\ call.seen[x] # 0 => Values!Set(x) \in Values!Expressible(feature, x)
<1> DEFINE x == Values!Leaf
<1>0. /\ Values!Set(x) = IF call.job.value[x] # 0 THEN call.job.value[x]
                         ELSE IF call.seen[x] # 0 THEN Values!StandIn(x) ELSE 0
      /\ call.job.value[x] \in Span(x) /\ call.seen[x] \in Span(x) /\ 0 \in Span(x)
      /\ Values!Expressible(feature, x) = Shown[feature][x]
  <2>1. Bound[feature][x] \in 1..3 BY AmidHas, BoundsAre
  <2> QED BY <2>1, AmidHas, WantSpans, ShownIs DEF Values!Set, Values!Materialised, Span
<1>1. call.seen[x] # 0 => Values!StandIn(x) \in Span(x) /\ Values!StandIn(x) \in Shown[feature][x]
  <2>1. CASE feature \in {"igmpglobal", "igmpvlan"} /\ x = "mode"
    <3>1. Values!StandIn(x) = 2 BY <2>1 DEF Values!StandIn
    <3> QED BY <2>1, <3>1 DEF Span, Bound, Shown
  <2>2. CASE feature = "igmpglobal" /\ x = "version"
    <3>1. Values!StandIn(x) = 1 BY <2>2 DEF Values!StandIn
    <3> QED BY <2>2, <3>1 DEF Span, Bound, Shown
  <2>3. CASE feature = "igmpvlan" /\ x = "version"
    <3>1. Values!StandIn(x) = call.seen[x] BY <2>3, AmidHas DEF Values!StandIn
    <3> QED BY <1>0, <2>3, <3>1 DEF Span, Bound, Shown
  <2>4. CASE feature \in {"voicevlan", "protectedport"}
    <3>1. x = "value" BY <2>4, LeavesAre
    <3>2. Values!StandIn(x) = call.seen[x] BY <3>1, AmidHas DEF Values!StandIn
    <3>3. CASE feature = "voicevlan" BY <1>0, <3>1, <3>2, <3>3 DEF Span, Bound, Shown
    <3>4. CASE feature = "protectedport" BY <1>0, <3>1, <3>2, <3>4 DEF Span, Bound, Shown
    <3> QED BY <2>4, <3>3, <3>4
  <2> QED BY <2>1, <2>2, <2>3, <2>4, LeavesAre DEF Leaving
<1> QED BY <1>0, <1>1

\* Deleting the leaf at hand.
LEMMA LeafDeletes ==
    ASSUME Amid, feature \in Leaving, call.pc = "clear", call.todo # <<>>,
           Values!Delete({Values!Leaf}, "set", Values!AnyValue)
    PROVE  KnowsOn
<1> DEFINE x == Values!Leaf
<1>1. call.quiet => LeavesLeft /\ x \in FieldsOf[feature] /\ x = Head(call.todo) BY LeafHas
<1>2. Apart({x}) /\ feature # "lag" BY LeavesAre DEF Apart
<1>3. Values!Delete({x}, "set", {}) BY DEF Values!AnyValue
<1>. HIDE DEF x
<1>4. /\ Goes
      /\ call'.quiet =>
           /\ Heads("set") /\ native' \in Values!Reset({x})
           /\ \A y \in FieldsOf[feature] : cache'[y] = IF y \in {x} THEN None ELSE cache[y]
           /\ call'.pc = "readback" /\ call'.then = "set" /\ call'.todo = call.todo
  BY <1>2, <1>3, DeleteGoes
<1>5. ASSUME call'.quiet PROVE LeavesLeft'
  <2>1. LeavesLeft /\ x \in FieldsOf[feature] /\ x = Head(call.todo) BY <1>1, <1>4, <1>5 DEF Heads
  <2>2. call.todo # <<>> /\ call.todo \in Seq(FieldsOf[feature]) BY <2>1 DEF LeavesLeft
  <2>3. Head(call.todo) \in Range(call.todo)
    <3>1. 1 \in DOMAIN call.todo /\ Head(call.todo) = call.todo[1] BY <2>2
    <3> QED BY <3>1 DEF Range
  <2>4. \A y \in FieldsOf[feature] \ {x} : native'[y] = native[y]
    BY <1>2, <1>4, <1>5, AmidHas, ResetFits
  <2>5. feature' = feature /\ call'.job = call.job /\ call'.todo = call.todo BY <1>4, <1>5 DEF Goes, Heads
  <2> QED BY <2>1, <2>3, <2>4, <2>5 DEF LeavesLeft
<1>6. call'.quiet => Own(Head(call.todo))'
  <2>1. call'.quiet => x \in FieldsOf[feature] /\ x = Head(call.todo) BY <1>1, <1>4 DEF Heads
  <2>2. call'.quiet => cache'[Head(call'.todo)] = None BY <1>4, <2>1
  <2> QED BY <1>4, <2>2 DEF Own
<1>7. call'.quiet => call'.todo # <<>> BY <1>4
<1> QED BY <1>4, <1>5, <1>6, <1>7, LeafLabels

\* A request for one leaf, whatever a disturbed call is about.
LEMMA LeafPatches ==
    ASSUME Amid, feature \in Leaving, NEW x, NEW values, values = [y \in {x} |-> values[x]],
           x \in FieldsOf[feature] => values[x] \in Span(x), NEW label, label # "readback",
           Values!Patch(values, label, {})
    PROVE  /\ Goes
           /\ call'.quiet =>
                /\ Heads(label) /\ native' \in Values!Written(values) /\ cache' = Values!Overlaid(values)
                /\ call'.pc = "readback" /\ call'.then = label /\ call'.todo = call.todo
<1>1. DOMAIN values = {x} /\ feature # "lag" BY LeavesAre
<1>2. Apart(DOMAIN values) /\ \A y \in DOMAIN values \intersect FieldsOf[feature] : values[y] \in Span(y)
  BY <1>1 DEF Apart
<1>3. Values!Written(values) \subseteq Box BY <1>2, AmidHas, WrittenFits
<1>4. Copied(Values!Overlaid(values)) BY <1>2, AmidHas DEF Copied, Values!Overlaid
<1>5. Values!Request(Values!Written(values), Values!Overlaid(values), label, {}) BY DEF Values!Patch
<1> DEFINE S == Values!Written(values)
           copy == Values!Overlaid(values)
<1>6. S \subseteq Box /\ Copied(copy) /\ Values!Request(S, copy, label, {}) BY <1>3, <1>4, <1>5
<1>. HIDE DEF S, copy
<1>7. /\ Goes
      /\ call'.quiet =>
           /\ Heads(label) /\ native' \in S /\ cache' = copy
           /\ call'.pc = "readback" /\ call'.then = label /\ call'.todo = call.todo
  BY <1>6, RequestGoes
<1> QED BY <1>7 DEF S, copy

\* Setting it.
LEMMA LeafSets ==
    ASSUME Amid, feature \in Leaving, call.pc = "set", Values!Set(Values!Leaf) # 0,
           Values!Patch([x \in {Values!Leaf} |-> Values!Set(Values!Leaf)], "unset", Values!AnyValue)
    PROVE  KnowsOn
<1> DEFINE x == Values!Leaf
           values == [y \in {x} |-> Values!Set(x)]
<1>1. call.quiet => /\ LeavesLeft /\ x \in FieldsOf[feature] /\ x = Head(call.todo)
                    /\ call.seen = native /\ call.todo # <<>>
  BY LeafHas
<1>2. call.quiet => cache[x] \in {native[x], None}
  BY <1>1 DEF Amid, ValuesKnow, LeafKnows, Own, Toward
<1>3. DOMAIN values = {x} /\ values[x] = Values!Set(x) /\ values = [y \in {x} |-> values[x]] OBVIOUS
<1>4. Values!Patch(values, "unset", {}) BY DEF Values!AnyValue
<1>5. feature # "lag" /\ Apart({x}) BY LeavesAre DEF Apart
<1>s. x \in FieldsOf[feature] =>
        /\ values[x] \in Span(x) /\ values[x] # 0
        /\ call.job.value[x] # 0 => values[x] = call.job.value[x]
        /\ call.job.value[x] = 0 /\ call.seen[x] # 0 => values[x] \in Values!Expressible(feature, x)
        /\ call.job.value[x] = 0 => call.seen[x] # 0
  BY <1>3, SetIs
<1>. HIDE DEF x, values
<1>6. /\ Goes
      /\ call'.quiet =>
           /\ Heads("unset") /\ native' \in Values!Written(values) /\ cache' = Values!Overlaid(values)
           /\ call'.pc = "readback" /\ call'.then = "unset" /\ call'.todo = call.todo
  BY <1>3, <1>4, <1>s, LeafPatches
<1>7. ASSUME call'.quiet
      PROVE  /\ native'[x] = values[x] /\ cache'[x] = values[x]
             /\ \A y \in FieldsOf[feature] \ {x} : native'[y] = native[y]
             /\ x \in FieldsOf[feature] /\ x = Head(call.todo) /\ LeavesLeft /\ call.todo # <<>>
  <2>1. /\ x \in FieldsOf[feature] /\ cache[x] \in {native[x], None} /\ LeavesLeft
        /\ x = Head(call.todo) /\ call.todo # <<>>
    BY <1>1, <1>2, <1>6, <1>7 DEF Heads
  <2>2. cache'[x] = values[x] BY <1>3, <1>6, <1>7, <2>1, AmidHas, WantSpans DEF Values!Overlaid
  <2>3. \A y \in DOMAIN values \intersect FieldsOf[feature] : values[y] \in Span(y) BY <1>3, <1>s
  <2>4. \A y \in FieldsOf[feature] :
          \/ native'[y] = native[y] /\ (y \in DOMAIN values => cache[y] = values[y])
          \/ y \in DOMAIN values /\ native'[y] = values[y]
    BY <1>3, <1>5, <1>6, <1>7, <2>3, AmidHas, WrittenFits
  <2>5. values[x] # None BY <1>s, <2>1, AmidHas, BoundsAre, FeatureCallsAssumption DEF Span
  <2> QED BY <1>3, <2>1, <2>2, <2>4, <2>5
<1>8. ASSUME call'.quiet PROVE LeavesLeft'
  <2>1. Head(call.todo) \in Range(call.todo)
    <3>1. call.todo # <<>> /\ call.todo \in Seq(FieldsOf[feature]) BY <1>7, <1>8 DEF LeavesLeft
    <3>2. 1 \in DOMAIN call.todo /\ Head(call.todo) = call.todo[1] BY <3>1
    <3> QED BY <3>2 DEF Range
  <2>2. feature' = feature /\ call'.job = call.job /\ call'.todo = call.todo BY <1>6, <1>8 DEF Goes, Heads
  <2> QED BY <1>7, <1>8, <2>1, <2>2 DEF LeavesLeft
<1>9. call'.quiet =>
        LET y == Head(call'.todo)
        IN  \/ native'[y] = call.job.value[y]
            \/ /\ call.job.value[y] = 0 /\ cache'[y] = native'[y]
               /\ native'[y] \in Values!Expressible(feature, y)
  BY <1>6, <1>7, <1>s
<1>10. call'.quiet => call'.todo # <<>> BY <1>6, <1>7
<1> QED BY <1>6, <1>8, <1>9, <1>10, LeafLabels

\* It needs no value, or has got the one that is wanted.
LEMMA LeafUnneeded ==
    ASSUME Amid, feature \in Leaving, call.pc \in {"clear", "set", "unset"}, NEW c, Values!Continue(c),
           DOMAIN c = Fields, \A f \in Fields \ {"pc", "todo"} : c[f] = call[f],
           call.quiet => native[Head(call.todo)] = call.job.value[Head(call.todo)],
           call.quiet => call.todo # <<>>, c.pc = "clear", c.todo = Tail(call.todo)
    PROVE  KnowsOn
<1>0. \A f \in {"job", "before", "seen", "cached", "others", "quiet", "failed"} : c[f] = call[f]
  BY DEF Fields
<1>1. /\ Goes /\ call' = c /\ UNCHANGED <<native, cache>>
      /\ call'.quiet => Heads("clear")
  BY <1>0, ContinueGoes
<1>2. call.quiet => LeavesLeft /\ call.seen = native BY LeafHas
<1>3. call'.quiet => call'.seen = native' BY <1>0, <1>1, <1>2 DEF Heads
<1> QED BY <1>1, <1>2, <1>3, LeafTurns DEF Heads

LEMMA LeafGoes == ASSUME Amid, feature \in Leaving, Values!ReplaceLeaf PROVE KnowsOn
<1> DEFINE x == Values!Leaf
           clear == [call EXCEPT !.pc = "clear", !.todo = Tail(@)]
           next == [call EXCEPT !.todo = Tail(@)]
<1>a. feature # "lag" /\ Values!want = call.job.value /\ Values!seen = call.seen BY AmidHas, LeavesAre
<1>b. call.pc \in {"clear", "set", "unset"} =>
        /\ x = Head(call.todo) /\ (call.quiet => LeavesLeft /\ call.seen = native)
        /\ call.quiet /\ call.todo # <<>> => x \in FieldsOf[feature]
        /\ call.quiet /\ call.pc # "clear" => call.todo # <<>>
  BY LeafHas
<1>1. CASE Values!At("clear") /\ call.todo = <<>> /\ Values!Goto("check")
  <2>1. call.pc = "clear" BY <1>1, AtIs
  <2>2. /\ Goes /\ UNCHANGED <<native, cache>> /\ call'.pc = "check" /\ (call'.quiet => Heads("check"))
    BY <1>1, GotoGoes
  <2>3. call.quiet => Matches
    <3>1. Range(call.todo) = {} BY <1>1 DEF Range
    <3>2. call.quiet => \A y \in FieldsOf[feature] : native[y] = call.job.value[y]
      BY <1>b, <2>1, <3>1 DEF LeavesLeft
    <3>3. /\ native = [y \in FieldsOf[feature] |-> native[y]]
          /\ call.job.value = [y \in FieldsOf[feature] |-> call.job.value[y]]
      BY AmidHas, BoxIs
    <3>4. call.quiet => native = call.job.value BY <3>2, <3>3
    <3> QED BY <3>4, AmidHas, LeavesAre DEF Matches
  <2>4. call'.quiet => Matches' /\ call'.seen = native'
    BY <1>b, <2>1, <2>2, <2>3, Matched DEF Goes, Heads
  <2> QED BY <2>2, <2>4, ToTheCheck DEF Leaving
<1>2. CASE /\ Values!At("clear") /\ call.todo # <<>> /\ Values!Delete({Values!Leaf}, "set", Values!AnyValue)
  <2>1. call.pc = "clear" BY <1>2, AtIs
  <2> QED BY <1>2, <2>1, LeafDeletes
<1>3. CASE /\ Values!At("clear") /\ call.todo # <<>> /\ Values!seen[Values!Leaf] = Values!want[Values!Leaf]
           /\ Values!Continue(next)
  <2>1. call.pc = "clear" BY <1>3, AtIs
  <2>2. /\ DOMAIN next = Fields /\ next.pc = "clear" /\ next.todo = Tail(call.todo)
        /\ \A f \in Fields \ {"pc", "todo"} : next[f] = call[f]
    BY <2>1, AmidHas DEF Fields
  <2>3. Values!Continue(next) BY <1>3
  <2>4. call.quiet => native[Head(call.todo)] = call.job.value[Head(call.todo)]
    BY <1>3, <1>a, <1>b, <2>1
  <2>. HIDE DEF next
  <2> QED BY <1>3, <2>1, <2>2, <2>3, <2>4, LeafUnneeded
<1>4. CASE Values!At("set") /\ Values!Set(Values!Leaf) = 0 /\ Values!Goto("unset")
  <2>1. call.pc = "set" BY <1>4, AtIs
  <2>2. /\ Goes /\ UNCHANGED <<native, cache>> /\ call'.pc = "unset"
        /\ call'.quiet => Heads("unset") /\ call'.todo = call.todo
    BY <1>4, GotoGoes
  <2>3. ASSUME call'.quiet
        PROVE  /\ native'[Head(call'.todo)] = call.job.value[Head(call'.todo)]
               /\ call'.todo # <<>> /\ LeavesLeft' /\ call'.seen = native'
    <3>1. /\ call.quiet /\ x = Head(call.todo) /\ LeavesLeft /\ call.seen = native /\ call.todo # <<>>
          /\ x \in FieldsOf[feature]
      BY <1>b, <2>1, <2>2, <2>3 DEF Heads
    <3>2. call.job.value[x] = 0 /\ native[x] = 0
      <4>1. call.job.value[x] # 0 => Values!Set(x) = call.job.value[x] BY <3>1, SetIs
      <4>2. call.job.value[x] = 0 /\ call.seen[x] # 0 => Values!Set(x) # 0 BY <3>1, SetIs, LeavesAre
      <4> QED BY <1>4, <3>1, <4>1, <4>2
    <3>3. feature' = feature /\ call'.job = call.job /\ call'.seen = call.seen BY <2>2, <2>3 DEF Goes, Heads
    <3> QED BY <2>2, <2>3, <3>1, <3>2, <3>3 DEF LeavesLeft
  <2> QED BY <2>2, <2>3, LeafLabels
<1>5. CASE /\ Values!At("set") /\ Values!Set(Values!Leaf) # 0
           /\ Values!Patch([y \in {Values!Leaf} |-> Values!Set(Values!Leaf)], "unset", Values!AnyValue)
  <2>1. call.pc = "set" BY <1>5, AtIs
  <2> QED BY <1>5, <2>1, LeafSets
<1>c. call.pc = "unset" /\ call.quiet =>
        /\ x \in FieldsOf[feature] /\ x = Head(call.todo) /\ call.todo # <<>> /\ call.seen = native
        /\ \/ native[x] = call.job.value[x]
           \/ call.job.value[x] = 0 /\ cache[x] = native[x] /\ native[x] \in Values!Expressible(feature, x)
  BY <1>b DEF Amid, ValuesKnow, LeafKnows, Toward
<1>6. CASE Values!At("unset") /\ Values!Unneeded /\ Values!Continue(clear)
  <2>1. call.pc = "unset" BY <1>6, AtIs
  <2>2. /\ DOMAIN clear = Fields /\ clear.pc = "clear" /\ clear.todo = Tail(call.todo)
        /\ \A f \in Fields \ {"pc", "todo"} : clear[f] = call[f]
    BY AmidHas DEF Fields
  <2>3. Values!Continue(clear) BY <1>6
  <2>4. call.quiet => native[Head(call.todo)] = call.job.value[Head(call.todo)]
    <3>1. call.job.value[x] # 0 \/ call.seen[x] = 0 BY <1>6, <1>a DEF Values!Unneeded
    <3> QED BY <1>c, <2>1, <3>1, LeavesAre
  <2>5. call.quiet => call.todo # <<>> BY <1>c, <2>1
  <2>. HIDE DEF clear
  <2> QED BY <2>1, <2>2, <2>3, <2>4, <2>5, LeafUnneeded
<1>7. CASE /\ Values!At("unset") /\ ~Values!Unneeded
           /\ Values!Send(Values!Reset({Values!Leaf}), Values!Emptied({Values!Leaf}), Values!NextLeaf(call))
  <2>1. call.pc = "unset" BY <1>7, AtIs
  <2> DEFINE c == Values!NextLeaf(call)
             S == Values!Reset({x})
             copy == Values!Emptied({x})
  <2>2. /\ DOMAIN c = Fields /\ c.pc = "readback" /\ c.then = "clear" /\ c.todo = Tail(call.todo) /\ c.expect = {}
        /\ \A f \in {"job", "before", "seen", "cached", "others", "quiet", "failed"} : c[f] = call[f]
    BY AmidHas DEF Fields, Values!NextLeaf, Values!AnyValue
  <2>3. S \subseteq Box
    <3>1. Apart({x}) BY <1>a DEF Apart
    <3> QED BY <3>1, AmidHas, ResetFits
  <2>4. Copied(copy) BY AmidHas, CopyEmptied
  <2>5. Values!Send(S, copy, c) BY <1>7
  <2>6. call.quiet => \A s \in S : s[x] = call.job.value[x] /\ \A y \in FieldsOf[feature] \ {x} : s[y] = native[y]
    <3> SUFFICES ASSUME call.quiet, NEW s \in S
                 PROVE  s[x] = call.job.value[x] /\ \A y \in FieldsOf[feature] \ {x} : s[y] = native[y]
      OBVIOUS
    <3>1. Apart({x}) BY <1>a DEF Apart
    <3>2. \A y \in FieldsOf[feature] : s[y] = IF y \in {x} /\ cache[y] # None THEN 0 ELSE native[y]
      BY <1>a, <3>1, AmidHas, ResetFits
    <3>3. call.job.value[x] = 0 /\ native[x] # 0 BY <1>7, <1>a, <1>c, <2>1 DEF Values!Unneeded
    <3>4. cache[x] = native[x] /\ native[x] # None /\ x \in FieldsOf[feature]
      BY <1>c, <2>1, <3>3, AmidHas, BoxIs
    <3> QED BY <3>2, <3>3, <3>4
  <2>. HIDE DEF S, copy, c
  <2>7. Goes /\ (call'.quiet => call.quiet /\ call' = c /\ native' \in S /\ cache' = copy)
    BY <2>2, <2>3, <2>4, <2>5, SendGoes
  <2>8. call'.quiet => Heads("clear") BY <2>2, <2>7 DEF Heads, Toward
  <2>9. call.quiet => LeavesLeft /\ x = Head(call.todo) /\ call.todo # <<>> BY <1>b, <1>c, <2>1
  <2> QED BY <2>2, <2>6, <2>7, <2>8, <2>9, LeafTurns
<1> QED BY <1>1, <1>2, <1>3, <1>4, <1>5, <1>6, <1>7 DEF Values!ReplaceLeaf

LEMMA LeavesGo ==
    ASSUME Amid, Values!VoiceVlan \/ Values!ProtectedPort \/ Values!IgmpGlobal \/ Values!IgmpVlan
    PROVE  KnowsOn
<1>1. feature \in Leaving
  BY DEF Values!VoiceVlan, Values!ProtectedPort, Values!IgmpGlobal, Values!IgmpVlan, Leaving
<1>2. CASE Values!ReplaceLeaf BY <1>1, <1>2, LeafGoes
<1>3. CASE feature \in {"voicevlan", "protectedport"} /\ Values!Replace(<<"value">>)
  <2>1. FieldsOf[feature] = {"value"} BY <1>3 DEF FieldsOf
  <2>2. <<"value">> \in Seq({"value"}) /\ Range(<<"value">>) = {"value"} BY DEF Range
  <2> QED BY <1>1, <1>3, <2>1, <2>2, LeafStarts
<1>4. CASE feature \in {"igmpglobal", "igmpvlan"} /\ Values!Replace(<<"mode", "version">>)
  <2>1. FieldsOf[feature] = {"mode", "version"} BY <1>4 DEF FieldsOf
  <2>2. <<"mode", "version">> \in Seq({"mode", "version"}) OBVIOUS
  <2>3. Range(<<"mode", "version">>) = {"mode", "version"}
    <3>1. DOMAIN <<"mode", "version">> = {1, 2} OBVIOUS
    <3> QED BY <3>1 DEF Range
  <2> QED BY <1>1, <1>4, <2>1, <2>2, <2>3, LeafStarts
<1> QED BY <1>2, <1>3, <1>4 DEF Values!VoiceVlan, Values!ProtectedPort, Values!IgmpGlobal, Values!IgmpVlan

LEMMA StormIs ==
    ASSUME Amid, feature = "storm"
    PROVE  /\ FieldsOf[feature] = {"broadcast", "multicast"}
           /\ Values!before = call.before /\ Values!want = call.job.value /\ Values!seen = call.seen
           /\ \A s \in {call.job.value, call.seen, call.before, native} :
                /\ DOMAIN s = FieldsOf[feature] /\ s = [x \in FieldsOf[feature] |-> s[x]]
                /\ \A x \in FieldsOf[feature] : s[x] \in Span(x) /\ s[x] # None
                /\ Values!Limited(s) = {x \in FieldsOf[feature] : s[x] # 0}
           /\ \A F : Apart(F)
           /\ Matches <=> native = call.job.value
BY AmidHas, BoxIs DEF FieldsOf, Values!Limited, Apart, Matches, Values!Agrees

\* What a call knows before it resets limits.
ResetKnow ==
    /\ native = call.before /\ Entered
    /\ Values!UnitOf(native) # Values!UnitOf(call.job.value) =>
         \A x \in FieldsOf[feature] : native[x] # 0 => cache[x] = native[x]

LEMMA ResetKnown ==
    ASSUME Amid, feature = "storm", Goes,
           call'.quiet => /\ Heads("reset") /\ native' = native /\ native = call.before
                          /\ \A x \in FieldsOf[feature] : native[x] \notin {0, call.job.value[x]} => cache'[x] = native[x]
                          /\ Values!UnitOf(native) # Values!UnitOf(call.job.value) =>
                               \A x \in FieldsOf[feature] : native[x] # 0 => cache'[x] = native[x]
                          /\ \/ call'.pc = "readback" /\ call'.then = "reset"
                             \/ call'.pc = "reset" /\ call'.seen = native'
    PROVE  KnowsOn
<1>a. feature' = feature BY DEF Goes
<1>1. ASSUME call'.quiet PROVE ResetKnow'
  <2>1. call'.job = call.job /\ call'.before = call.before BY <1>1 DEF Heads
  <2>2. Entered' BY <1>a, <1>1, <2>1 DEF Entered
  <2>3. native' = native /\ call'.job.value = call.job.value BY <1>1, <2>1
  <2>4. Values!UnitOf(native)' = Values!UnitOf(native)
    BY <2>3, Zenon DEF Values!UnitOf, Values!Limited, Values!Unit
  <2>5. Values!UnitOf(call.job.value)' = Values!UnitOf(call.job.value)
    BY <2>3, Zenon DEF Values!UnitOf, Values!Limited, Values!Unit
  <2> QED BY <1>a, <1>1, <2>1, <2>2, <2>4, <2>5 DEF ResetKnow
<1> QED BY <1>1, <1>a
        DEF KnowsOn, Goes, Heads, ValuesKnow, StartKnows, DscpTrustKnows, StpKnows, LldpKnows, WriteKnows,
            LagKnows, LeafKnows, LimitsKnow, Leaving, ResetKnow

LEMMA DropKnown ==
    ASSUME Amid, feature = "storm", Goes,
           call'.quiet => /\ Heads("drop")
                          /\ \A x \in FieldsOf[feature] :
                               native'[x] \notin {0, call.job.value[x]} => cache'[x] = native'[x]
                          /\ \/ call'.pc = "readback" /\ call'.then = "drop"
                             \/ call'.pc = "drop" /\ call'.seen = native'
    PROVE  KnowsOn
<1>a. feature' = feature BY DEF Goes
<1>1. call'.quiet => Entered' BY <1>a DEF Entered, Heads
<1> QED BY <1>1, <1>a
        DEF KnowsOn, Goes, Heads, ValuesKnow, StartKnows, DscpTrustKnows, StpKnows, LldpKnows, WriteKnows,
            LagKnows, LeafKnows, LimitsKnow, Leaving

LEMMA StormSeedGoes == ASSUME Amid, feature = "storm", Values!StormSeed PROVE KnowsOn
<1>1. call.pc = "start" BY AtIs DEF Values!StormSeed
<1>2. call.quiet => native = call.before /\ native = call.seen
  BY <1>1, AmidHas DEF Amid, ValuesKnow, StartKnows, Toward
<1>3. Values!Seeded = {x \in FieldsOf[feature] :
         call.seen[x] # 0 /\ (Values!UnitOf(call.seen) # Values!UnitOf(call.job.value)
                                \/ call.seen[x] # call.job.value[x])}
  BY StormIs DEF Values!Seeded
<1>4. CASE Values!Seeded = {} /\ Values!Goto("reset")
  <2>1. /\ Goes /\ UNCHANGED <<native, cache>> /\ call'.pc = "reset" /\ (call'.quiet => Heads("reset"))
    BY <1>4, GotoGoes
  <2>2. call.quiet => /\ \A x \in FieldsOf[feature] : native[x] \in {0, call.job.value[x]}
                      /\ Values!UnitOf(native) # Values!UnitOf(call.job.value) =>
                           \A x \in FieldsOf[feature] : native[x] = 0
    BY <1>2, <1>3, <1>4
  <2> QED BY <1>2, <2>1, <2>2, ResetKnown DEF Heads
<1>5. CASE Values!Patch([x \in Values!Seeded |-> Values!seen[x]], "reset", {Values!before})
  <2> DEFINE values == [x \in Values!Seeded |-> Values!seen[x]]
  <2>1. DOMAIN values = Values!Seeded /\ (\A x \in Values!Seeded : values[x] = call.seen[x]) BY StormIs
  <2>2. Values!Patch(values, "reset", {call.before}) BY <1>5, StormIs
  <2>. HIDE DEF values
  <2>3. /\ Apart(DOMAIN values) /\ DOMAIN values \subseteq FieldsOf[feature]
        /\ \A x \in DOMAIN values : values[x] \in Span(x)
    BY <1>3, <2>1, StormIs
  <2>4. call.quiet => Values!Written(values) \subseteq {native}
    <3> SUFFICES ASSUME call.quiet, NEW s \in Values!Written(values) PROVE s = native
      OBVIOUS
    <3>1. s \in Box /\ \A x \in FieldsOf[feature] : s[x] = native[x] \/ (x \in DOMAIN values /\ s[x] = values[x])
      BY <2>3, AmidHas, WrittenFits
    <3>2. \A x \in FieldsOf[feature] : s[x] = native[x] BY <1>2, <2>1, <3>1
    <3> QED BY <3>1, <3>2, AmidHas, BoxIs
  <2>5. call.quiet => {call.before} = {} \/ Values!Written(values) \subseteq {call.before}
    BY <1>2, <2>4
  <2>6. /\ Goes
        /\ call'.quiet =>
             /\ Heads("reset") /\ native' \in Values!Written(values)
             /\ \A x \in FieldsOf[feature] : cache'[x] = IF x \in DOMAIN values THEN values[x] ELSE cache[x]
             /\ call'.pc = "readback" /\ call'.then = "reset"
    BY <2>2, <2>3, <2>5, PatchGoes
  <2>7. call'.quiet => native' = native /\ native = call.before /\ call.seen = native
    BY <1>2, <2>4, <2>6 DEF Heads
  <2>8. call'.quiet => \A x \in Values!Seeded : cache'[x] = native[x]
    BY <2>1, <2>3, <2>6, <2>7
  <2>9. call'.quiet =>
          /\ \A x \in FieldsOf[feature] : native[x] \notin {0, call.job.value[x]} => cache'[x] = native[x]
          /\ Values!UnitOf(native) # Values!UnitOf(call.job.value) =>
               \A x \in FieldsOf[feature] : native[x] # 0 => cache'[x] = native[x]
    BY <1>3, <2>7, <2>8
  <2> QED BY <2>6, <2>7, <2>9, ResetKnown
<1> QED BY <1>4, <1>5 DEF Values!StormSeed

LEMMA StormResetGoes == ASSUME Amid, feature = "storm", Values!StormReset PROVE KnowsOn
<1>1. call.pc = "reset" BY AtIs DEF Values!StormReset
<1>2. call.quiet => ResetKnow /\ native = call.seen
  BY <1>1, AmidHas DEF Amid, ValuesKnow, LimitsKnow, ResetKnow, Toward
<1>3. CASE Values!NewUnit /\ Values!Delete(DOMAIN Values!seen, "drop", {Values!Default("storm")})
  <2>1. DOMAIN Values!seen = FieldsOf[feature] BY StormIs
  <2>2. Values!Delete(FieldsOf[feature], "drop", {Values!Default("storm")}) BY <1>3, <2>1
  <2>3. Values!Default("storm") = [x \in FieldsOf[feature] |-> 0]
    BY AmidHas, FieldsAre DEF Values!Default
  <2>4. ASSUME call.quiet, NEW s \in Values!Reset(FieldsOf[feature])
        PROVE  s = [x \in FieldsOf[feature] |-> 0]
    <3>1. Values!UnitOf(native) # Values!UnitOf(call.job.value) BY <1>2, <1>3, <2>4, StormIs
                                                                   DEF Values!NewUnit
    <3>2. \A x \in FieldsOf[feature] : native[x] # 0 => cache[x] # None
      BY <1>2, <2>4, <3>1, StormIs DEF ResetKnow
    <3>3. s \in Box /\ \A x \in FieldsOf[feature] : s[x] = 0
      <4>1. Apart(FieldsOf[feature]) BY StormIs
      <4> QED BY <2>4, <3>2, <4>1, AmidHas, ResetFits
    <3> QED BY <3>3, AmidHas, BoxIs
  <2>5. call.quiet => Values!Reset(FieldsOf[feature]) \subseteq {Values!Default("storm")} BY <2>3, <2>4
  <2>6. /\ Goes
        /\ call'.quiet =>
             /\ Heads("drop") /\ native' \in Values!Reset(FieldsOf[feature])
             /\ call'.pc = "readback" /\ call'.then = "drop"
    <3>1. Apart(FieldsOf[feature]) BY StormIs
    <3>2. call.quiet => {Values!Default("storm")} = {} \/ Values!Reset(FieldsOf[feature]) \subseteq {Values!Default("storm")}
      BY <2>5
    <3>3. feature # "lag" OBVIOUS
    <3> DEFINE fields == FieldsOf[feature]
               expected == {Values!Default("storm")}
    <3>4. Apart(fields) /\ Values!Delete(fields, "drop", expected)
          /\ (call.quiet => expected = {} \/ Values!Reset(fields) \subseteq expected)
      BY <2>2, <3>1, <3>2
    <3>. HIDE DEF fields, expected
    <3>5. /\ Goes
          /\ call'.quiet =>
               /\ Heads("drop") /\ native' \in Values!Reset(fields)
               /\ call'.pc = "readback" /\ call'.then = "drop"
      BY <3>3, <3>4, DeleteGoes
    <3> QED BY <3>5 DEF fields
  <2>7. call'.quiet => \A x \in FieldsOf[feature] : native'[x] = 0
    BY <2>4, <2>6 DEF Heads
  <2> QED BY <2>6, <2>7, DropKnown
<1>4. CASE Values!Goto("drop")
  <2>1. /\ Goes /\ UNCHANGED <<native, cache>> /\ call'.pc = "drop" /\ (call'.quiet => Heads("drop"))
    BY <1>4, GotoGoes
  <2>2. call'.quiet => call'.seen = native' BY <1>2, <2>1 DEF Heads
  <2> QED BY <1>2, <2>1, <2>2, DropKnown DEF ResetKnow, Entered, Heads
<1> QED BY <1>3, <1>4 DEF Values!StormReset

\* An order of classes has just those classes.
LEMMA OrdersOfLimits ==
    ASSUME NEW S \in SUBSET {"broadcast", "multicast"}, NEW order \in Values!Orders(S)
    PROVE  order \in Seq(S) /\ Range(order) = S
<1>1. order \in Seq(S) BY LimitsInOrder
<1>2. Range(order) \subseteq S BY <1>1 DEF Range
<1>3. /\ order \in [1..Values!Cardinality(S) -> S]
      /\ \A t \in S : \E i \in 1..Values!Cardinality(S) : order[i] = t
  BY DEF Values!Orders, Values!Surjection
<1>4. \A t \in S : \E i \in DOMAIN order : order[i] = t BY <1>3
<1>5. S \subseteq Range(order) BY <1>4 DEF Range
<1> QED BY <1>1, <1>2, <1>5

\* What a call knows before it takes away the entries of new limits.
NewKnow(todo) ==
    /\ Entered /\ todo \in Seq(FieldsOf[feature])
    /\ \A x \in Range(todo) : native[x] = 0
    /\ \A x \in FieldsOf[feature] :
         /\ call.job.value[x] = 0 => native[x] = 0
         /\ native[x] = 0 /\ call.job.value[x] # 0 => x \in Range(todo) \/ cache[x] = None

LEMMA InvalidateKnown ==
    ASSUME Amid, feature = "storm", Goes,
           call'.quiet => /\ Heads("invalidate") /\ native' = native /\ Entered
                          /\ \A x \in FieldsOf[feature] :
                               \/ cache'[x] = cache[x]
                               \/ cache'[x] = None /\ native[x] = 0
                          /\ call'.todo \in Seq(FieldsOf[feature])
                          /\ \A x \in Range(call'.todo) : native[x] = 0
                          /\ \A x \in FieldsOf[feature] :
                               /\ call.job.value[x] = 0 => native[x] = 0
                               /\ native[x] = 0 /\ call.job.value[x] # 0 =>
                                    x \in Range(call'.todo) \/ cache'[x] = None
                          /\ \/ call'.pc = "readback" /\ call'.then = "invalidate"
                             \/ call'.pc = "invalidate" /\ call'.seen = native'
    PROVE  KnowsOn
<1>a. feature' = feature BY DEF Goes
<1>1. ASSUME call'.quiet PROVE NewKnow(call.todo)'
  <2>1. call'.job = call.job BY <1>1 DEF Heads
  <2>2. Entered' BY <1>a, <1>1, <2>1 DEF Entered
  <2>3. \A x \in FieldsOf[feature] :
          /\ call'.job.value[x] = 0 => native'[x] = 0
          /\ native'[x] = 0 /\ call'.job.value[x] # 0 => x \in Range(call'.todo) \/ cache'[x] = None
    BY <1>1, <2>1
  <2>4. \A x \in Range(call'.todo) : native'[x] = 0 BY <1>1
  <2>5. Range(call'.todo) = Range(call.todo)' BY DEF Range
  <2> QED BY <1>a, <1>1, <2>2, <2>3, <2>4, <2>5 DEF NewKnow
<1> QED BY <1>1, <1>a
        DEF KnowsOn, Goes, Heads, ValuesKnow, StartKnows, DscpTrustKnows, StpKnows, LldpKnows, WriteKnows,
            LagKnows, LeafKnows, LimitsKnow, Leaving, NewKnow

LEMMA StormDropGoes == ASSUME Amid, feature = "storm", Values!StormDrop PROVE KnowsOn
<1>1. call.pc = "drop" BY AtIs DEF Values!StormDrop
<1>2. call.quiet => Entered /\ native = call.seen
  BY <1>1, AmidHas DEF Amid, ValuesKnow, LimitsKnow, Toward
<1>3. Values!Dropped = {x \in FieldsOf[feature] : call.seen[x] # 0 /\ call.job.value[x] = 0}
  BY StormIs DEF Values!Dropped
<1>4. CASE \E x \in Values!Dropped : Values!Delete({x}, "drop", {Values!Without(Values!seen, x)})
  <2>1. PICK x \in Values!Dropped : Values!Delete({x}, "drop", {Values!Without(Values!seen, x)})
    BY <1>4
  <2>2. x \in FieldsOf[feature] /\ call.seen[x] # 0 /\ call.job.value[x] = 0 BY <1>3
  <2> DEFINE expected == {Values!Without(Values!seen, x)}
  <2>3. Values!Without(Values!seen, x) = [y \in FieldsOf[feature] |-> IF y = x THEN 0 ELSE call.seen[y]]
    BY <2>2, StormIs DEF Values!Without
  <2>4. ASSUME call.quiet, NEW s \in Values!Reset({x})
        PROVE  s = Values!Without(Values!seen, x) /\ \A y \in FieldsOf[feature] : s[y] = IF y = x THEN 0 ELSE native[y]
    <3>1. cache[x] # None
      <4>1. native[x] \notin {0, call.job.value[x]} BY <1>2, <2>2, <2>4
      <4> QED BY <1>2, <2>2, <2>4, <4>1, StormIs DEF Entered
    <3>2. s \in Box /\ \A y \in FieldsOf[feature] : s[y] = IF y = x THEN 0 ELSE native[y]
      <4>1. Apart({x}) BY StormIs
      <4> QED BY <2>4, <3>1, <4>1, AmidHas, ResetFits
    <3>3. s = [y \in FieldsOf[feature] |-> s[y]] BY <3>2, AmidHas, BoxIs
    <3> QED BY <1>2, <2>3, <2>4, <3>2, <3>3
  <2>5. call.quiet => expected = {} \/ Values!Reset({x}) \subseteq expected BY <2>4
  <2>6. Values!Delete({x}, "drop", expected) /\ Apart({x}) /\ feature # "lag" BY <2>1, StormIs
  <2>. HIDE DEF expected
  <2>7. /\ Goes
        /\ call'.quiet =>
             /\ Heads("drop") /\ native' \in Values!Reset({x})
             /\ \A y \in FieldsOf[feature] : cache'[y] = IF y \in {x} THEN None ELSE cache[y]
             /\ call'.pc = "readback" /\ call'.then = "drop"
    BY <2>5, <2>6, DeleteGoes
  <2>8. call'.quiet => \A y \in FieldsOf[feature] : native'[y] \notin {0, call.job.value[y]} => cache'[y] = native'[y]
    BY <1>2, <2>4, <2>7 DEF Heads, Entered
  <2> QED BY <2>7, <2>8, DropKnown
<1>5. CASE /\ Values!Dropped = {}
           /\ \E order \in Values!Orders(Values!Limited(Values!want) \ Values!Limited(Values!seen)) :
                Values!Continue([call EXCEPT !.pc = "invalidate", !.todo = order])
  <2> DEFINE New == Values!Limited(Values!want) \ Values!Limited(Values!seen)
             c(order) == [call EXCEPT !.pc = "invalidate", !.todo = order]
  <2>1. PICK order \in Values!Orders(New) : Values!Continue(c(order)) BY <1>5, Zenon
  <2>2. New = {x \in FieldsOf[feature] : call.job.value[x] # 0 /\ call.seen[x] = 0} BY StormIs
  <2>3. /\ DOMAIN c(order) = Fields /\ c(order).pc = "invalidate" /\ c(order).todo = order
        /\ \A f \in {"job", "before", "seen", "cached", "others", "quiet", "failed"} : c(order)[f] = call[f]
    BY AmidHas DEF Fields
  <2>. HIDE DEF New, c
  <2>4. /\ Goes /\ call' = c(order) /\ UNCHANGED <<native, cache>>
        /\ call'.quiet => Heads("invalidate")
    BY <2>1, <2>3, ContinueGoes
  <2>5. order \in Seq(FieldsOf[feature]) /\ Range(order) = New
    <3>1. New \in SUBSET {"broadcast", "multicast"} BY <2>2, StormIs
    <3>2. order \in Seq(New) /\ Range(order) = New BY <2>1, <3>1, OrdersOfLimits
    <3>3. New \subseteq FieldsOf[feature] BY <2>2
    <3> QED BY <3>2, <3>3
  <2>6. call'.quiet =>
          /\ Entered /\ call'.seen = native' /\ \A x \in Range(call'.todo) : native[x] = 0
          /\ \A x \in FieldsOf[feature] :
               /\ call.job.value[x] = 0 => native[x] = 0
               /\ native[x] = 0 /\ call.job.value[x] # 0 => x \in Range(call'.todo)
    BY <1>2, <1>3, <1>5, <2>2, <2>3, <2>4, <2>5 DEF Heads
  <2> QED BY <2>3, <2>4, <2>5, <2>6, InvalidateKnown
<1> QED BY <1>4, <1>5 DEF Values!StormDrop

LEMMA StormInvalidateGoes == ASSUME Amid, feature = "storm", Values!StormInvalidate PROVE KnowsOn
<1>1. call.pc = "invalidate" BY AtIs DEF Values!StormInvalidate
<1>2. call.quiet => NewKnow(call.todo) /\ native = call.seen
  BY <1>1, AmidHas DEF Amid, ValuesKnow, LimitsKnow, NewKnow, Toward
<1>3. CASE /\ call.todo # <<>>
           /\ Values!Send(Values!Reset({Head(call.todo)}), Values!Emptied({Head(call.todo)}),
                          [call EXCEPT !.pc = "readback", !.then = "invalidate",
                                       !.expect = {Values!seen}, !.todo = Tail(@)])
  <2> DEFINE x == Head(call.todo)
             S == Values!Reset({x})
             copy == Values!Emptied({x})
             c == [call EXCEPT !.pc = "readback", !.then = "invalidate",
                               !.expect = {Values!seen}, !.todo = Tail(@)]
  <2>1. /\ DOMAIN c = Fields /\ c.pc = "readback" /\ c.then = "invalidate" /\ c.todo = Tail(call.todo)
        /\ c.expect = {call.seen}
        /\ \A f \in {"job", "before", "seen", "cached", "others", "quiet", "failed"} : c[f] = call[f]
    BY AmidHas DEF Fields
  <2>2. Apart({x}) BY StormIs
  <2>3. S \subseteq Box /\ Copied(copy)
        /\ \A y \in FieldsOf[feature] : copy[y] = IF y = x THEN None ELSE cache[y]
    BY <2>2, AmidHas, ResetFits, CopyEmptied
  <2>4. Values!Send(S, copy, c) BY <1>3
  <2>5. call.quiet => x \in FieldsOf[feature] /\ native[x] = 0 /\ Tail(call.todo) \in Seq(FieldsOf[feature])
                      /\ \A y \in Range(call.todo) : y = x \/ y \in Range(Tail(call.todo))
    <3> SUFFICES ASSUME call.quiet
                 PROVE  x \in FieldsOf[feature] /\ native[x] = 0 /\ Tail(call.todo) \in Seq(FieldsOf[feature])
                        /\ \A y \in Range(call.todo) : y = x \/ y \in Range(Tail(call.todo))
      OBVIOUS
    <3>1. call.todo \in Seq(FieldsOf[feature]) BY <1>2 DEF NewKnow
    <3>2. x \in FieldsOf[feature] BY <1>3, <3>1
    <3>3. x \in Range(call.todo)
      <4>1. 1 \in DOMAIN call.todo /\ x = call.todo[1] BY <1>3, <3>1
      <4> QED BY <4>1 DEF Range
    <3>4. native[x] = 0 BY <1>2, <3>3 DEF NewKnow
    <3>5. Tail(call.todo) \in Seq(FieldsOf[feature])
          /\ \A y \in Range(call.todo) : y = x \/ y \in Range(Tail(call.todo))
      BY <1>3, <3>1, RestHasTheOthers
    <3> QED BY <3>2, <3>4, <3>5
  <2>6. call.quiet => Range(Tail(call.todo)) \subseteq Range(call.todo)
    <3> SUFFICES ASSUME call.quiet, NEW y \in Range(Tail(call.todo)) PROVE y \in Range(call.todo)
      OBVIOUS
    <3>1. call.todo \in Seq(FieldsOf[feature]) BY <1>2 DEF NewKnow
    <3>2. PICK i \in DOMAIN Tail(call.todo) : y = Tail(call.todo)[i] BY DEF Range
    <3>3. i + 1 \in DOMAIN call.todo /\ call.todo[i + 1] = y BY <1>3, <3>1, <3>2
    <3> QED BY <3>3 DEF Range
  <2>7. call.quiet => \A s \in S : s = native
    <3> SUFFICES ASSUME call.quiet, NEW s \in S PROVE s = native
      OBVIOUS
    <3>1. s \in Box /\ \A y \in FieldsOf[feature] : s[y] = native[y]
      BY <2>2, <2>5, AmidHas, ResetFits
    <3> QED BY <3>1, AmidHas, BoxIs
  <2>8. call.quiet /\ c.pc = "readback" => c.expect = {} \/ S \subseteq c.expect
    BY <1>2, <2>1, <2>7
  <2>. HIDE DEF S, copy, c, x
  <2>9. Goes /\ (call'.quiet => call.quiet /\ call' = c /\ native' \in S /\ cache' = copy)
    BY <2>1, <2>3, <2>4, <2>8, SendGoes
  <2>10. call'.quiet => Heads("invalidate") BY <2>1, <2>9 DEF Heads, Toward
  <2>11. ASSUME call'.quiet
         PROVE  /\ native' = native /\ Entered /\ call'.todo = Tail(call.todo)
                /\ \A y \in FieldsOf[feature] :
                     \/ cache'[y] = cache[y]
                     \/ cache'[y] = None /\ native[y] = 0
                /\ call'.todo \in Seq(FieldsOf[feature])
                /\ \A y \in Range(call'.todo) : native[y] = 0
                /\ \A y \in FieldsOf[feature] :
                     /\ call.job.value[y] = 0 => native[y] = 0
                     /\ native[y] = 0 /\ call.job.value[y] # 0 => y \in Range(call'.todo) \/ cache'[y] = None
    <3>1. call.quiet /\ NewKnow(call.todo) BY <1>2, <2>9, <2>11
    <3>2. native' = native /\ call'.todo = Tail(call.todo) BY <2>1, <2>7, <2>9, <2>11
    <3>3. \A y \in FieldsOf[feature] : cache'[y] = IF y = x THEN None ELSE cache[y] BY <2>3, <2>9, <2>11
    <3> QED BY <2>5, <2>6, <3>1, <3>2, <3>3 DEF NewKnow
  <2>12. (call'.pc = "readback" /\ call'.then = "invalidate") \/ ~call'.quiet BY <2>1, <2>9
  <2> QED BY <2>9, <2>10, <2>11, <2>12, InvalidateKnown
<1>4. CASE call.todo = <<>> /\ Values!Goto("write")
  <2>1. /\ Goes /\ UNCHANGED <<native, cache>> /\ call'.pc = "write" /\ (call'.quiet => Heads("write"))
    BY <1>4, GotoGoes
  <2>2. call.quiet => Unmasked
    <3> SUFFICES ASSUME call.quiet, NEW x \in FieldsOf[feature], native[x] # call.job.value[x]
                 PROVE  cache[x] # call.job.value[x]
      BY DEF Unmasked
    <3>1. Range(call.todo) = {} BY <1>4 DEF Range
    <3>2. call.job.value[x] # None BY StormIs
    <3>3. CASE native[x] = 0 BY <1>2, <3>1, <3>2, <3>3 DEF NewKnow
    <3>4. CASE native[x] # 0
      <4>1. cache[x] = native[x] BY <1>2, <3>4 DEF NewKnow, Entered
      <4> QED BY <4>1
    <3> QED BY <3>3, <3>4
  <2>3. feature' = feature BY <2>1 DEF Goes
  <2>4. call'.quiet => Unmasked' /\ call'.seen = native'
    BY <1>2, <2>1, <2>2, <2>3 DEF Heads, Unmasked
  <2> QED BY <2>1, <2>3, <2>4
          DEF KnowsOn, Goes, Heads, ValuesKnow, StartKnows, DscpTrustKnows, StpKnows, LldpKnows, WriteKnows,
              LagKnows, LeafKnows, LimitsKnow, Leaving
<1> QED BY <1>3, <1>4 DEF Values!StormInvalidate

LEMMA StormWriteGoes == ASSUME Amid, feature = "storm", Values!StormWrite PROVE KnowsOn
<1>1. call.pc = "write" BY AtIs DEF Values!StormWrite
<1>2. call.quiet => Unmasked /\ call.seen = native
  BY <1>1, AmidHas DEF Amid, ValuesKnow, WriteKnows, Toward
<1>3. CASE Values!Changed = {} /\ Values!Goto("check")
  <2>1. /\ Goes /\ UNCHANGED <<native, cache>> /\ call'.pc = "check" /\ (call'.quiet => Heads("check"))
    BY <1>3, GotoGoes
  <2>2. Values!Changed = {x \in FieldsOf[feature] : call.seen[x] # call.job.value[x]}
    BY StormIs DEF Values!Changed
  <2>3. call.quiet => native = call.job.value BY <1>2, <1>3, <2>2, StormIs
  <2>4. call'.quiet => Matches' /\ call'.seen = native'
    BY <1>2, <2>1, <2>3, Matched DEF Goes, Heads
  <2> QED BY <2>1, <2>4, ToTheCheck
<1>4. CASE Values!Patch([x \in Values!Changed |-> Values!want[x]], "check", Values!AnyValue)
  <2>1. feature # "lag" /\ Values!AnyValue = {} BY DEF Values!AnyValue
  <2> QED BY <1>2, <1>4, <2>1, ChangesGo
<1> QED BY <1>3, <1>4 DEF Values!StormWrite

LEMMA StormGoes == ASSUME Amid, Values!StormControl PROVE KnowsOn
BY StormSeedGoes, StormResetGoes, StormDropGoes, StormInvalidateGoes, StormWriteGoes
   DEF Values!StormControl

\* An entry that the switch rebuilds shows its value, or is left out.
LEMMA RebuiltIs ==
    ASSUME feature \in Values!Features, native \in Box, NEW x \in FieldsOf[feature]
    PROVE  /\ native[x] \in Values!Expressible(feature, x) =>
                /\ Values!Synchronized(x) \in {native[x], None}
                /\ native[x] # 0 \/ cache[x] # None => Values!Synchronized(x) = native[x]
           /\ native[x] \notin Values!Expressible(feature, x) =>
                Values!Synchronized(x) = IF 0 \in Values!Expressible(feature, x) THEN 0 ELSE None
           /\ native[x] \in Span(x) /\ native[x] # None /\ 0 \in Span(x)
           /\ Values!Expressible(feature, x) = Shown[feature][x]
<1>1. native[x] \in Span(x) /\ native[x] # None BY BoxIs
<1>2. 0 \in Span(x) BY BoundsAre DEF Span
<1> QED BY <1>1, <1>2, ShownIs DEF Values!Synchronized

\* The copies of one entry: what becomes of it does for all features but two.
LEMMA RebuiltTrue ==
    ASSUME feature \in Values!Features, native \in Box, Copied(cache), NEW x \in FieldsOf[feature]
    PROVE  /\ feature \notin {"lldp", "lag"} => Values!Synchronized(x) \in {native[x], None}
           /\ feature = "lag" /\ x # "members" => Values!Synchronized(x) = native[x]
           /\ feature \in {"lldp", "lldpglobal"} => (Values!Synchronized(x) = 1 <=> native[x] = 1)
           /\ feature \in {"dscptrust", "stp"} /\ cache[x] = native[x] => Values!Synchronized(x) = native[x]
           /\ feature = "stp" /\ cache[x] = None /\ native[x] = 0 => Values!Synchronized(x) = None
           /\ feature = "storm" => Values!Synchronized(x) = IF native[x] = 0 THEN None ELSE native[x]
           /\ Values!Synchronized(x) \in Span(x) \/ (feature # "lag" /\ Values!Synchronized(x) = None)
<1>1. None \notin {0, 1} BY FeatureCallsAssumption
<1>2. feature \in {"lldp", "lldpglobal"} => FieldsOf[feature] = {"value"} BY DEF FieldsOf
<1>3. feature \notin {"lldp", "lag"} => Values!Synchronized(x) \in {native[x], None}
  <2>1. feature \notin {"lldp", "lag"} /\ native[x] \notin Shown[feature][x] => 0 \notin Shown[feature][x]
    <3> SUFFICES ASSUME feature \notin {"lldp", "lag"}, native[x] \notin Shown[feature][x], 0 \in Shown[feature][x]
                 PROVE  FALSE
      OBVIOUS
    <3>1. \/ feature \in {"dscptrust", "jumbo", "lldpglobal", "poe"} /\ x = "value"
          \/ feature \in {"ethernet", "stp"} /\ x \in {"name", "enabled", "edge", "guard"}
      BY FeaturesAre DEF FieldsOf, Shown
    <3>2. Span(x) \subseteq Shown[feature][x] BY <3>1 DEF Span, Bound, Shown, FieldsOf
    <3> QED BY <3>2, RebuiltIs
  <2> QED BY <2>1, RebuiltIs
<1>4. feature = "lag" /\ x # "members" => Values!Synchronized(x) = native[x]
  <2>1. ASSUME feature = "lag", x # "members" PROVE Span(x) = Shown[feature][x]
    <3>1. x \in {"name", "enabled"} BY <2>1 DEF FieldsOf
    <3>2. Span(x) = 0..1 /\ Shown[feature][x] = {0, 1} BY <2>1, <3>1 DEF Span, Bound, Shown
    <3> QED BY <3>2
  <2>2. feature = "lag" => cache[x] # None
    <3>1. Span(x) \subseteq 0..3 BY BoundsAre DEF Span
    <3> QED BY <3>1, FeatureCallsAssumption DEF Copied
  <2> QED BY <2>1, <2>2, RebuiltIs
<1>5. feature \in {"lldp", "lldpglobal"} => (Values!Synchronized(x) = 1 <=> native[x] = 1)
  <2>1. feature \in {"lldp", "lldpglobal"} => Shown[feature][x] = {0, 1} BY <1>2 DEF Shown
  <2> QED BY <1>1, <2>1, RebuiltIs
<1>6. feature \in {"dscptrust", "stp"} => native[x] \in Shown[feature][x]
  <2>1. ASSUME feature \in {"dscptrust", "stp"} PROVE Span(x) = Shown[feature][x]
    <3>1. CASE feature = "dscptrust"
      <4>1. x = "value" BY <3>1 DEF FieldsOf
      <4>2. Span(x) = 0..1 /\ Shown[feature][x] = {0, 1} BY <3>1, <4>1 DEF Span, Bound, Shown
      <4> QED BY <4>2
    <3>2. CASE feature = "stp"
      <4>1. x \in {"edge", "guard"} BY <3>2 DEF FieldsOf
      <4>2. Span(x) = 0..1 /\ Shown[feature][x] = {0, 1} BY <3>2, <4>1 DEF Span, Bound, Shown
      <4> QED BY <4>2
    <3> QED BY <2>1, <3>1, <3>2
  <2> QED BY <2>1, RebuiltIs
<1>7. feature = "storm" => Values!Synchronized(x) = IF native[x] = 0 THEN None ELSE native[x]
  <2>1. feature = "storm" => Shown[feature][x] = Span(x) \ {0} BY DEF Span, Bound, Shown, FieldsOf
  <2> QED BY <2>1, RebuiltIs
<1>8. Values!Synchronized(x) \in Span(x) \/ (feature # "lag" /\ Values!Synchronized(x) = None)
  <2>1. feature = "lag" => 0 \in Shown[feature][x] BY DEF Shown, FieldsOf
  <2>2. feature = "lag" => cache[x] # None
    <3>1. Span(x) \subseteq 0..3 BY BoundsAre DEF Span
    <3> QED BY <3>1, FeatureCallsAssumption DEF Copied
  <2> QED BY <2>1, <2>2, RebuiltIs
<1>9. feature = "stp" /\ cache[x] = None /\ native[x] = 0 => Values!Synchronized(x) = None
  BY <1>6, RebuiltIs DEF Values!Synchronized
<1> QED BY <1>3, <1>4, <1>5, <1>6, <1>7, <1>8, <1>9, RebuiltIs

\* The switch rebuilds entries of its copy: what a call knows stays true.
LEMMA SyncFirmly ==
    ASSUME ValuesInv, ValuesFirm, Values!CacheSyncs
    PROVE  ValuesFirm'
<1>1. PICK x \in DOMAIN cache : cache' = [cache EXCEPT ![x] = Values!Synchronized(x)]
  BY DEF Values!CacheSyncs
<1>2. UNCHANGED <<feature, native, unowned, call>> /\ native \in Box
  BY DEF Values!CacheSyncs, ValuesFirm, Placed
<1>3. feature \in Values!Features /\ Copied(cache) BY DEF ValuesInv, ValuesFirm, Placed
<1>4. DOMAIN cache = FieldsOf[feature] /\ x \in FieldsOf[feature] BY <1>1, <1>3 DEF Copied
<1>5. /\ DOMAIN cache' = FieldsOf[feature]
      /\ \A y \in FieldsOf[feature] : cache'[y] = IF y = x THEN Values!Synchronized(x) ELSE cache[y]
  BY <1>1, <1>4
<1>r. /\ feature \notin {"lldp", "lag"} => Values!Synchronized(x) \in {native[x], None}
      /\ feature = "lag" /\ x # "members" => Values!Synchronized(x) = native[x]
      /\ feature \in {"lldp", "lldpglobal"} => (Values!Synchronized(x) = 1 <=> native[x] = 1)
      /\ feature \in {"dscptrust", "stp"} /\ cache[x] = native[x] => Values!Synchronized(x) = native[x]
      /\ feature = "stp" /\ cache[x] = None /\ native[x] = 0 => Values!Synchronized(x) = None
      /\ feature = "storm" => Values!Synchronized(x) = IF native[x] = 0 THEN None ELSE native[x]
      /\ Values!Synchronized(x) \in Span(x) \/ (feature # "lag" /\ Values!Synchronized(x) = None)
  BY <1>2, <1>3, <1>4, RebuiltTrue
<1>e. native[x] \in Values!Expressible(feature, x) /\ cache[x] = native[x] => Values!Synchronized(x) = native[x]
  BY <1>2, <1>3, <1>4, RebuiltIs
<1>6. Placed'
  <2>1. Copied(cache') BY <1>3, <1>5, <1>r DEF Copied
  <2>2. Working' => Working BY <1>2 DEF Working
  <2> QED BY <1>2, <2>1, <2>2, PlacedSame DEF ValuesFirm, Placed
<1>7. Firm' \/ Hopeless' BY <1>2 DEF ValuesFirm, Firm, Hopeless
<1>8. ASSUME Working', call'.quiet PROVE ValuesKnow'
  <2>1. Working /\ call.quiet /\ ValuesKnow BY <1>2, <1>8 DEF Working, ValuesFirm
  <2>2. \A l : Toward(l)' <=> Toward(l) BY <1>2 DEF Toward
  <2>3. Matches' <=> Matches BY <1>2 DEF Matches, Values!Agrees
  <2>a. call.job \in Values!Wanted(feature) /\ call.job.value \in Box
    BY <2>1, WantFits DEF ValuesInv, Typed, Working
  <2>b. feature \in {"lldp", "lldpglobal"} => FieldsOf[feature] = {"value"} /\ (CopyTrue => CopyTrue')
    <3>1. feature \in {"lldp", "lldpglobal"} => FieldsOf[feature] = {"value"} BY DEF FieldsOf
    <3> QED BY <1>2, <1>4, <1>5, <1>r, <3>1 DEF CopyTrue
  <2>4. StartKnows'
    <3>1. ASSUME NEW y \in FieldsOf[feature], feature # "lag", Followed(y) PROVE Followed(y)'
      <4>1. CASE feature \in {"lldp", "lldpglobal"}
        <5>1. y = x /\ x = "value" BY <1>4, <2>b, <4>1
        <5>2. CopyTrue' BY <1>2, <1>5, <1>r, <4>1, <5>1 DEF CopyTrue
        <5> QED BY <1>2, <4>1, <5>2 DEF Followed
      <4>2. CASE feature \notin {"lldp", "lldpglobal"}
        BY <1>2, <1>5, <1>r, <3>1, <4>2 DEF Followed, Own
      <4> QED BY <4>1, <4>2
    <3> QED BY <1>2, <2>1, <2>2, <2>3, <3>1 DEF ValuesKnow, StartKnows
  <2>5. DscpTrustKnows'
    <3>1. feature = "dscptrust" => FieldsOf[feature] = {"value"} BY DEF FieldsOf
    <3> QED BY <1>2, <1>4, <1>5, <1>r, <2>1, <2>2, <3>1 DEF ValuesKnow, DscpTrustKnows
  <2>6. StpKnows'
    <3>1. feature = "stp" /\ call.job.remove => \A y \in FieldsOf[feature] : call.job.value[y] = 0
      <4>1. feature = "stp" /\ call.job.remove => call.job.value = Values!Default(feature)
        BY <1>3, <2>a, RemovalIsDefault
      <4> QED BY <1>3, <4>1, FieldsAre DEF Values!Default
    <3> QED BY <1>2, <1>4, <1>5, <1>r, <2>1, <2>2, <3>1 DEF ValuesKnow, StpKnows
  <2>7. LldpKnows' BY <1>2, <2>1, <2>2, <2>3, <2>b DEF ValuesKnow, LldpKnows
  <2>8. WriteKnows'
    <3>1. \A y \in FieldsOf[feature] : call.job.value[y] # None BY <1>3, <2>a, BoxIs
    <3>2. feature \in {"ethernet", "storm"} /\ Unmasked => Unmasked'
      BY <1>2, <1>4, <1>5, <1>r, <3>1 DEF Unmasked
    <3> QED BY <1>2, <2>1, <2>2, <3>2 DEF ValuesKnow, WriteKnows
  <2>9. LagKnows'
    <3>1. feature = "lag" => FieldsOf[feature] = {"name", "enabled", "members"} BY DEF FieldsOf
    <3>2. feature = "lag" => /\ cache.name = native.name => cache'.name = native.name
                             /\ cache.enabled = native.enabled => cache'.enabled = native.enabled
      BY <1>5, <1>r, <3>1
    <3> QED BY <1>2, <2>1, <2>2, <3>2 DEF ValuesKnow, LagKnows
  <2>10. LeafKnows'
    <3>1. Values!Expressible(feature, Head(call.todo))' = Values!Expressible(feature, Head(call.todo))
      BY <1>2 DEF Values!Expressible, Values!CopiesOf
    <3>2. feature \in Leaving /\ Own(Head(call.todo)) => Own(Head(call.todo))'
      <4>1. CASE Head(call.todo) = x
        <5>1. feature \in Leaving => feature \notin {"lldp", "lag"} BY DEF Leaving
        <5> QED BY <1>2, <1>4, <1>5, <1>r, <4>1, <5>1 DEF Own
      <4>2. CASE Head(call.todo) # x
        <5>1. cache'[Head(call.todo)] = cache[Head(call.todo)] BY <1>1, <4>2
        <5> QED BY <1>2, <5>1 DEF Own
      <4> QED BY <4>1, <4>2
    <3>3. LET y == Head(call.todo)
          IN  cache[y] = native[y] /\ native[y] \in Values!Expressible(feature, y) => cache'[y] = native[y]
      BY <1>1, <1>4, <1>e
    <3> QED BY <1>2, <2>1, <2>2, <3>1, <3>2, <3>3 DEF ValuesKnow, LeafKnows
  <2>11. LimitsKnow'
    <3>1. feature = "storm" => \A y \in FieldsOf[feature] : native[y] # 0 /\ cache[y] = native[y] => cache'[y] = native[y]
      BY <1>5, <1>r
    <3>2. feature = "storm" /\ Entered => Entered' BY <1>2, <3>1 DEF Entered
    <3>3. feature = "storm" => \A y \in FieldsOf[feature] : native[y] = 0 /\ cache[y] = None => cache'[y] = None
      BY <1>5, <1>r
    <3>4. /\ Values!UnitOf(native)' = Values!UnitOf(native)
          /\ Values!UnitOf(call.job.value)' = Values!UnitOf(call.job.value)
      BY <1>2, Zenon DEF Values!UnitOf, Values!Limited, Values!Unit
    <3>5. Range(call.todo)' = Range(call.todo) BY <1>2
    <3> QED BY <1>2, <2>1, <2>2, <3>1, <3>2, <3>3, <3>4, <3>5 DEF ValuesKnow, LimitsKnow
  <2> QED BY <1>2, <2>1, <2>2, <2>3, <2>4, <2>5, <2>6, <2>7, <2>8, <2>9, <2>10, <2>11 DEF ValuesKnow
<1> QED BY <1>6, <1>7, <1>8 DEF ValuesFirm

\* What RESTCONF's copy may hold at first.
LEMMA CopiesFit ==
    ASSUME feature \in Values!Features, NEW c \in Values!CopiesOf[feature]
    PROVE  Copied(c)
<1>1. CASE feature = "dscptrust"
  <2>1. /\ Values!CopiesOf[feature] = Values!DscpTrustCopies /\ FieldsOf[feature] = {"value"}
        /\ Bound[feature] = [value |-> 1]
    BY <1>1 DEF Values!CopiesOf, FieldsOf, Bound
  <2> QED BY <1>1, <2>1 DEF Copied, Span, Values!DscpTrustCopies
<1>2. CASE feature = "protectedport"
  <2>1. /\ Values!CopiesOf[feature] = Values!ProtectedPortCopies /\ FieldsOf[feature] = {"value"}
        /\ Bound[feature] = [value |-> 1]
    BY <1>2 DEF Values!CopiesOf, FieldsOf, Bound
  <2> QED BY <1>2, <2>1 DEF Copied, Span, Values!ProtectedPortCopies
<1>3. CASE feature = "jumbo"
  <2>1. /\ Values!CopiesOf[feature] = Values!JumboCopies /\ FieldsOf[feature] = {"value"}
        /\ Bound[feature] = [value |-> 1]
    BY <1>3 DEF Values!CopiesOf, FieldsOf, Bound
  <2> QED BY <1>3, <2>1 DEF Copied, Span, Values!JumboCopies
<1>4. CASE feature = "poe"
  <2>1. /\ Values!CopiesOf[feature] = Values!PoeCopies /\ FieldsOf[feature] = {"value"}
        /\ Bound[feature] = [value |-> 2]
    BY <1>4 DEF Values!CopiesOf, FieldsOf, Bound
  <2> QED BY <1>4, <2>1 DEF Copied, Span, Values!PoeCopies
<1>5. CASE feature = "voicevlan"
  <2>1. /\ Values!CopiesOf[feature] = Values!VoiceVlanCopies /\ FieldsOf[feature] = {"value"}
        /\ Bound[feature] = [value |-> 2]
    BY <1>5 DEF Values!CopiesOf, FieldsOf, Bound
  <2> QED BY <1>5, <2>1 DEF Copied, Span, Values!VoiceVlanCopies
<1>6. CASE feature = "lldp"
  <2>1. /\ Values!CopiesOf[feature] = Values!LldpCopies /\ FieldsOf[feature] = {"value"}
        /\ Bound[feature] = [value |-> 2]
    BY <1>6 DEF Values!CopiesOf, FieldsOf, Bound
  <2> QED BY <1>6, <2>1 DEF Copied, Span, Values!LldpCopies
<1>7. CASE feature = "lldpglobal"
  <2>1. /\ Values!CopiesOf[feature] = Values!LldpGlobalCopies /\ FieldsOf[feature] = {"value"}
        /\ Bound[feature] = [value |-> 1]
    BY <1>7 DEF Values!CopiesOf, FieldsOf, Bound
  <2> QED BY <1>7, <2>1 DEF Copied, Span, Values!LldpGlobalCopies
<1>8. CASE feature = "ethernet"
  <2>1. /\ Values!CopiesOf[feature] = Values!EthernetCopies /\ FieldsOf[feature] = {"name", "enabled"}
        /\ Bound[feature] = [name |-> 2, enabled |-> 1]
    BY <1>8 DEF Values!CopiesOf, FieldsOf, Bound
  <2> QED BY <1>8, <2>1 DEF Copied, Span, Values!EthernetCopies
<1>9. CASE feature = "lag"
  <2>1. /\ Values!CopiesOf[feature] = Values!LagInterfaceCopies /\ FieldsOf[feature] = {"name", "enabled", "members"}
        /\ Bound[feature] = [name |-> 1, enabled |-> 1, members |-> 2]
    BY <1>9 DEF Values!CopiesOf, FieldsOf, Bound
  <2> QED BY <1>9, <2>1 DEF Copied, Span, Values!LagInterfaceCopies
<1>10. CASE feature = "stp"
  <2>1. /\ Values!CopiesOf[feature] = Values!StpInterfaceCopies /\ FieldsOf[feature] = {"edge", "guard"}
        /\ Bound[feature] = [edge |-> 1, guard |-> 1]
    BY <1>10 DEF Values!CopiesOf, FieldsOf, Bound
  <2> QED BY <1>10, <2>1 DEF Copied, Span, Values!StpInterfaceCopies
<1>11. CASE feature = "igmpglobal"
  <2>1. /\ Values!CopiesOf[feature] = Values!IgmpGlobalCopies /\ FieldsOf[feature] = {"mode", "version"}
        /\ Bound[feature] = [mode |-> 2, version |-> 1]
    BY <1>11 DEF Values!CopiesOf, FieldsOf, Bound
  <2> QED BY <1>11, <2>1 DEF Copied, Span, Values!IgmpGlobalCopies
<1>12. CASE feature = "igmpvlan"
  <2>1. /\ Values!CopiesOf[feature] = Values!IgmpVlanCopies /\ FieldsOf[feature] = {"mode", "version"}
        /\ Bound[feature] = [mode |-> 3, version |-> 1]
    BY <1>12 DEF Values!CopiesOf, FieldsOf, Bound
  <2> QED BY <1>12, <2>1 DEF Copied, Span, Values!IgmpVlanCopies
<1>13. CASE feature = "storm"
  <2>1. /\ Values!CopiesOf[feature] = Values!StormCopies /\ FieldsOf[feature] = {"broadcast", "multicast"}
        /\ Bound[feature] = [broadcast |-> 3, multicast |-> 1]
    BY <1>13 DEF Values!CopiesOf, FieldsOf, Bound
  <2> QED BY <1>13, <2>1 DEF Copied, Span, Values!StormCopies
<1> QED BY FeaturesAre, <1>1, <1>2, <1>3, <1>4, <1>5, <1>6, <1>7, <1>8, <1>9, <1>10, <1>11, <1>12, <1>13

LEMMA ValuesFirmInit == Values!Init => ValuesFirm
<1> SUFFICES ASSUME Values!Init PROVE ValuesFirm
  OBVIOUS
<1>1. /\ feature \in Values!Features /\ native \in Values!SettingsOf[feature] \union {Gone}
      /\ cache \in Values!CopiesOf[feature] /\ call = NoCall
  BY ValuesSame DEF Values!Init
<1>a. unowned \in Rest
  <2>1. (feature \in {"dscptrust", "storm"}) \in BOOLEAN OBVIOUS
  <2>2. [Untouched EXCEPT !.near = feature \in {"dscptrust", "storm"}] \in Rest
    BY <2>1, UntouchedRests, Zenon
  <2> QED BY <2>2, ValuesSame, UntouchedRests, Zenon DEF Values!Init
<1>2. ~Working BY <1>1 DEF Working
<1>3. Placed BY <1>1, <1>2, <1>a, SettingsFit, CopiesFit DEF Placed
<1> QED BY <1>1, <1>2, <1>3 DEF ValuesFirm, Firm

\* A step after which no request is under way.
LEMMA RestsFirmly ==
    ASSUME ValuesFirm, UNCHANGED <<feature, native, cache, unowned>>, ~Working', Firm' \/ Hopeless'
    PROVE  ValuesFirm'
<1>1. Placed' BY PlacedSame DEF ValuesFirm, Placed
<1> QED BY <1>1 DEF ValuesFirm

LEMMA StartFirmly ==
    ASSUME ValuesInv, ValuesFirm, Values!Start PROVE ValuesFirm'
<1>1. call # NoCall /\ call.pc = "read" /\ DOMAIN call = Fields /\ call.job \in Values!Wanted(feature)
  BY ValuesSame, NothingCalled DEF Values!Start, ValuesInv, LookedInv, Shaped
<1>2. Firm /\ native \in Box \union {Gone} /\ Copied(cache) /\ unowned \in Rest /\ feature \in Values!Features
  BY <1>1 DEF ValuesFirm, Hopeless, Placed, ValuesInv
<1>3. CASE Values!TimesOut
  <2>1. TimesOut BY <1>3, ValuesSame
  <2>2. /\ call' = [[call EXCEPT !.pc = "failed"] EXCEPT !.quiet = FALSE]
        /\ UNCHANGED <<feature, native, cache, unowned>>
    BY <2>1 DEF TimesOut, Fail, Faulty, switch
  <2>3. ~call'.quiet /\ call'.pc = "failed" BY <1>1, <2>2 DEF Fields
  <2> QED BY <2>2, <2>3, RestsFirmly DEF Firm, Working
<1>4. ASSUME NEW label, Values!Continue([Values!Observed EXCEPT !.pc = label])
      PROVE  /\ UNCHANGED <<feature, native, cache, unowned>>
             /\ call' # NoCall /\ call'.pc = label /\ call'.seen = native /\ call'.before = native
             /\ call'.cached = cache /\ unowned \in call'.others
             /\ call'.quiet = call.quiet /\ call'.failed = call.failed /\ call'.job = call.job
  <2> DEFINE c == [Values!Observed EXCEPT !.pc = label]
  <2>1. /\ DOMAIN c = Fields /\ c.pc = label /\ c.seen = native /\ c.before = native /\ c.cached = cache
        /\ c.others = Values!Preserved /\ c.quiet = call.quiet /\ c.failed = call.failed /\ c.job = call.job
    BY <1>1 DEF Values!Observed, Fields
  <2>2. Continue(c) BY <1>4, ValuesSame
  <2>. HIDE DEF c
  <2>3. call' = c /\ UNCHANGED <<feature, native, cache, unowned>> BY <2>2, ContinueIs
  <2>4. unowned \in Values!Preserved BY <1>2, ValuesSame, PreservedHas
  <2> QED BY <2>1, <2>3, <2>4, NothingCalled
<1>5. CASE native = Gone /\ \E label \in {"done", "failed"} : Values!Continue([Values!Observed EXCEPT !.pc = label])
  <2>1. PICK label \in {"done", "failed"} : Values!Continue([Values!Observed EXCEPT !.pc = label])
    BY <1>5, Zenon
  <2> QED BY <1>4, <1>5, <2>1, RestsFirmly DEF Hopeless, Working
<1>6. CASE \E label \in {"done", "refused"} : Values!Continue([Values!Observed EXCEPT !.pc = label])
  <2>1. PICK label \in {"done", "refused"} : Values!Continue([Values!Observed EXCEPT !.pc = label])
    BY <1>6, Zenon
  <2>2. Firm' BY <1>1, <1>2, <1>4, <2>1 DEF Firm
  <2> QED BY <1>4, <2>1, <2>2, RestsFirmly DEF Working
<1>7. CASE /\ native # Gone /\ (feature = "lag" => native.members # 2)
           /\ ~(Values!Agrees(native, Values!want) /\ ~(feature = "stp" /\ call.job.remove))
           /\ Values!Continue([Values!Observed EXCEPT !.pc = "start"])
  <2>1. /\ UNCHANGED <<feature, native, cache, unowned>>
        /\ call' # NoCall /\ call'.pc = "start" /\ call'.seen = native /\ call'.before = native
        /\ call'.cached = cache /\ unowned \in call'.others
        /\ call'.quiet = call.quiet /\ call'.failed = call.failed /\ call'.job = call.job
    BY <1>4, <1>7
  <2>2. Firm' BY <1>1, <1>2, <2>1 DEF Firm
  <2>3. native \in Box BY <1>2, <1>7
  <2>4. Placed' BY <1>2, <2>1, <2>3, PlacedSame
  <2>5. Matches' => feature = "stp" /\ call.job.remove
    BY <1>7, <2>1 DEF Matches, Values!Agrees, Values!want
  <2>6. ValuesKnow'
    <3>1. \A y \in FieldsOf[feature] : Followed(y)' BY <2>1 DEF Followed
    <3>2. StartKnows' BY <1>7, <2>1, <2>5, <3>1 DEF StartKnows
    <3> QED BY <2>1, <3>2
            DEF ValuesKnow, DscpTrustKnows, StpKnows, LldpKnows, WriteKnows, LagKnows, LeafKnows,
            LimitsKnow, Toward
  <2> QED BY <2>2, <2>4, <2>6 DEF ValuesFirm
<1>8. CASE native # Gone
  <2>1. \/ Values!TimesOut
        \/ Values!Continue([Values!Observed EXCEPT !.pc = "refused"])
        \/ Values!Continue([Values!Observed EXCEPT !.pc = "done"])
        \/ /\ feature = "lag" => native.members # 2
           /\ ~(Values!Agrees(native, Values!want) /\ ~(feature = "stp" /\ call.job.remove))
           /\ Values!Continue([Values!Observed EXCEPT !.pc = "start"])
    BY <1>8, Zenon DEF Values!Start
  <2> QED BY <1>3, <1>6, <1>7, <1>8, <2>1
<1>9. CASE native = Gone
  <2>1. \/ Values!TimesOut
        \/ Values!Continue([Values!Observed EXCEPT !.pc = "done"])
        \/ Values!Continue([Values!Observed EXCEPT !.pc = "failed"])
    BY <1>9, Zenon DEF Values!Start
  <2> QED BY <1>3, <1>5, <1>9, <2>1
<1> QED BY <1>8, <1>9

LEMMA ValuesReadbackFirmly ==
    ASSUME ValuesInv, ValuesFirm, Values!Readback PROVE ValuesFirm'
<1>1. Readback /\ call.pc = "readback" /\ call # NoCall BY ValuesSame, NothingCalled DEF Readback
<1>2. Working /\ Amid /\ DOMAIN call = Fields /\ Firm
  BY <1>1, AmidIs, AmidHas DEF Working, Amid
<1>3. call.quiet => call.then \notin {"failed", "read", "readback", "done"}
  BY <1>1, <1>2 DEF Amid, ValuesKnow
<1>4. /\ Firm'
      /\ call'.quiet => /\ call.quiet /\ call'.pc = call.then /\ call'.seen = native
                        /\ \A f \in Fields \ {"pc", "fresh", "seen"} : call'[f] = call[f]
                        /\ UNCHANGED <<feature, native, cache, unowned>>
  BY <1>1, <1>2, <1>3, ReadbackFirmly
<1>5. Placed'
  <2>1. UNCHANGED <<feature, native, cache, unowned>>
    BY <1>1 DEF Readback, Sound, Faulty, switch
  <2>2. call'.seen \in {native, call.seen} /\ call'.before = call.before /\ call'.cached = call.cached
    BY <1>1, <1>2 DEF Readback, Fail, Fields
  <2> QED BY <1>2, <2>1, <2>2, AmidHas, PlacedSame
<1>6. ASSUME call'.quiet PROVE ValuesKnow'
  <2>1. /\ call.quiet /\ ValuesKnow /\ call'.pc = call.then /\ call'.seen = native
        /\ call'.job = call.job /\ call'.before = call.before /\ call'.cached = call.cached
        /\ call'.todo = call.todo /\ UNCHANGED <<feature, native, cache, unowned>>
    BY <1>2, <1>4, <1>6 DEF Amid, Fields
  <2>2. call'.pc \notin {"failed", "read", "readback", "done"} BY <1>3, <2>1
  <2>3. \A l : Toward(l)' => Toward(l) BY <1>1, <2>1, <2>2 DEF Toward
  <2>4. Matches' <=> Matches BY <2>1, Matched
  <2>5. StartKnows'
    <3>1. \A y \in FieldsOf[feature] : Followed(y) => Followed(y)' BY <2>1 DEF Followed, Own, CopyTrue
    <3> QED BY <2>1, <2>3, <2>4, <3>1 DEF ValuesKnow, StartKnows
  <2>6. DscpTrustKnows' BY <2>1, <2>3 DEF ValuesKnow, DscpTrustKnows
  <2>7. StpKnows' BY <2>1, <2>3 DEF ValuesKnow, StpKnows
  <2>8. LldpKnows' BY <2>1, <2>3, <2>4 DEF ValuesKnow, LldpKnows, CopyTrue
  <2>9. WriteKnows' BY <2>1, <2>3 DEF ValuesKnow, WriteKnows, Unmasked
  <2>10. LagKnows' BY <2>1, <2>3 DEF ValuesKnow, LagKnows
  <2>11. LeafKnows'
    <3>1. Values!Expressible(feature, Head(call.todo))' = Values!Expressible(feature, Head(call.todo))
      BY <2>1 DEF Values!Expressible, Values!CopiesOf
    <3>2. Own(Head(call.todo)) => Own(Head(call.todo))' BY <2>1 DEF Own
    <3> QED BY <2>1, <2>3, <3>1, <3>2 DEF ValuesKnow, LeafKnows
  <2>12. LimitsKnow'
    <3>1. /\ Values!UnitOf(native)' = Values!UnitOf(native)
          /\ Values!UnitOf(call.job.value)' = Values!UnitOf(call.job.value)
      BY <2>1, Zenon DEF Values!UnitOf, Values!Limited, Values!Unit
    <3>2. Entered => Entered' BY <2>1 DEF Entered
    <3>3. Range(call.todo)' = Range(call.todo) BY <2>1, Zenon DEF Range
    <3> QED BY <2>1, <2>3, <3>1, <3>2, <3>3 DEF ValuesKnow, LimitsKnow
  <2> QED BY <2>1, <2>2, <2>3, <2>4, <2>5, <2>6, <2>7, <2>8, <2>9, <2>10, <2>11, <2>12 DEF ValuesKnow
<1> QED BY <1>4, <1>5, <1>6 DEF ValuesFirm

LEMMA ValuesOutsideFirmly ==
    ASSUME ValuesInv, ValuesFirm, Values!Outside PROVE ValuesFirm'
<1> DEFINE S == {s \in Values!SettingsOf[feature] :
                   native # Gone /\ \E x \in DOMAIN s : s = Values!Carried([native EXCEPT ![x] = s[x]])}
<1>1. Interference(S) BY ValuesSame DEF Values!Outside
<1>2. S \subseteq Box /\ (native = Gone => S = {}) BY SettingsFit DEF ValuesInv
<1>. HIDE DEF S
<1>3. /\ UNCHANGED <<feature, cache>> /\ unowned' \in Rest
      /\ native' = native \/ native' \in S
  BY <1>1 DEF Interference, Damages, ValuesFirm, Placed
<1>4. CASE call = NoCall
  <2>1. call' = NoCall BY <1>1, <1>4 DEF Interference, Idle
  <2>2. Placed' BY <1>2, <1>3, <2>1, PlacedSame DEF ValuesFirm, Placed, Working
  <2> QED BY <2>1, <2>2 DEF ValuesFirm, Firm, Working
<1>5. CASE call # NoCall
  <2>1. DOMAIN call = Fields BY <1>5 DEF ValuesInv, LookedInv, Shaped
  <2>2. call' # NoCall /\ ~call'.quiet BY <1>1, <2>1, InterferenceQuiet
  <2>3. /\ call'.seen = call.seen /\ call'.before = call.before /\ call'.cached = call.cached
        /\ Working' => Working
    <3>1. \A f \in Fields \ {"quiet", "fresh"} : call'[f] = call[f]
      BY <1>1, <1>5, InterferenceIs DEF ValuesInv
    <3> QED BY <1>5, <3>1 DEF Fields, Working
  <2>4. Placed' BY <1>2, <1>3, <2>3, PlacedSame DEF ValuesFirm, Placed
  <2> QED BY <2>2, <2>4 DEF ValuesFirm, Firm
<1> QED BY <1>4, <1>5

LEMMA ValuesFirmHolds ==
    ASSUME ValuesInv, ValuesFirm, Values!Next PROVE ValuesFirm'
<1>1. CASE \E job \in Values!Wanted(feature) : Values!Begin(job)
  <2>1. PICK job \in Values!Wanted(feature) : Begin(job) BY <1>1, ValuesSame
  <2>2. UNCHANGED <<feature, native, cache, unowned>> /\ call'.pc = "read" /\ Firm'
    BY <2>1, BeginIs, BeginFirmly DEF ValuesInv
  <2> QED BY <2>2, RestsFirmly DEF Working
<1>2. CASE Values!Start BY <1>2, StartFirmly
<1>3. CASE Values!Refuse \/ Values!Return
  <2>1. call' = NoCall /\ UNCHANGED <<feature, native, cache, unowned>> BY <1>3, ValuesSame, EndIs DEF ValuesInv
  <2> QED BY <2>1, RestsFirmly DEF Firm, Working
<1>4. CASE Values!Readback BY <1>4, ValuesReadbackFirmly
<1>5. CASE \/ Values!Check \/ Values!DscpTrust \/ Values!StpInterface \/ Values!Jumbo
           \/ Values!LldpPort \/ Values!LldpGlobal \/ Values!Poe \/ Values!Ethernet
           \/ Values!LagInterface \/ Values!VoiceVlan \/ Values!ProtectedPort
           \/ Values!IgmpGlobal \/ Values!IgmpVlan \/ Values!StormControl
  <2>1. Amid BY <1>5, RequestsWork, AmidIs
  <2>2. KnowsOn
    BY <1>5, <2>1, CheckGoes, DscpTrustGoes, StpGoes, JumboGoes, LldpGoes, PoeGoes, EthernetGoes, LagGoes,
       LeavesGo, StormGoes
  <2> QED BY <2>2 DEF KnowsOn, Goes, ValuesFirm
<1>6. CASE Values!CacheSyncs BY <1>6, SyncFirmly
<1>7. CASE Values!Outside BY <1>7, ValuesOutsideFirmly
<1>8. CASE Values!Finished
  <2>1. call' = NoCall /\ UNCHANGED <<feature, native, cache, unowned>>
    BY <1>8, ValuesSame DEF Finished, Idle, vars, switch
  <2> QED BY <2>1, RestsFirmly DEF Firm, Working
<1> QED BY <1>1, <1>2, <1>3, <1>4, <1>5, <1>6, <1>7, <1>8 DEF Values!Next, Values!Apply

LEMMA ValuesSucceed == ASSUME ValuesFirm PROVE Values!QuietCallSucceeds
<1>1. Fails => call # NoCall /\ (call.pc = "failed" \/ (call.pc = "done" /\ call.failed))
  BY NothingCalled DEF Fails
<1> QED BY <1>1, ValuesSame DEF ValuesFirm, Firm, Hopeless, Values!QuietCallSucceeds, Values!before

-----------------------------------------------------------------------------
(* Every call that nothing disturbs succeeds.                              *)

FirmInv ==
    /\ feature \in Values!Features => ValuesFirm
    /\ feature \in Listed!Features => ListedFirm
    /\ feature \in Access!Features => AccessFirm
    /\ feature \in Accounts!Features => AccountsFirm

LEMMA FirmInitHolds == Init => FirmInv
<1>1. CASE Values!Init
  <2>1. feature \in Values!Features BY <1>1, ValuesSame DEF Values!Init
  <2> QED BY <1>1, <2>1, GroupsApart, ValuesFirmInit DEF FirmInv
<1>2. CASE Listed!Init
  <2>1. feature \in Listed!Features BY <1>2, ListedSame DEF Listed!Init
  <2> QED BY <1>2, <2>1, GroupsApart, ListedFirmInit DEF FirmInv
<1>3. CASE Access!Init
  <2>1. feature \in Access!Features BY <1>3, AccessSame DEF Access!Init
  <2> QED BY <1>3, <2>1, GroupsApart, AccessFirmInit DEF FirmInv
<1>4. CASE Accounts!Init
  <2>1. feature \in Accounts!Features /\ call = NoCall BY <1>4, AccountsSame DEF Accounts!Init
  <2> QED BY <1>4, <2>1, GroupsApart DEF FirmInv, AccountsFirm, Firm
<1> QED BY <1>1, <1>2, <1>3, <1>4 DEF Init

\* While nothing happens every call knows what it knew.
LEMMA ValuesRestFirmly ==
    ASSUME ValuesFirm, UNCHANGED <<feature, native, cache, unowned, call>> PROVE ValuesFirm'
<1>1. Working' <=> Working BY DEF Working
<1>2. \A l : Toward(l)' <=> Toward(l) BY DEF Toward
<1>3. Placed' BY <1>1, PlacedSame DEF ValuesFirm, Placed
<1>4. (Firm \/ Hopeless)' BY DEF ValuesFirm, Firm, Hopeless
<1>5. ASSUME Working, call.quiet PROVE ValuesKnow'
  <2>1. ValuesKnow BY <1>5 DEF ValuesFirm
  <2>2. Matches' <=> Matches BY Matched
  <2>3. StartKnows'
    <3>1. \A y \in FieldsOf[feature] : Followed(y) => Followed(y)' BY DEF Followed, Own, CopyTrue
    <3> QED BY <1>2, <2>1, <2>2, <3>1 DEF ValuesKnow, StartKnows
  <2>4. DscpTrustKnows' BY <1>2, <2>1 DEF ValuesKnow, DscpTrustKnows
  <2>5. StpKnows' BY <1>2, <2>1 DEF ValuesKnow, StpKnows
  <2>6. LldpKnows' BY <1>2, <2>1, <2>2 DEF ValuesKnow, LldpKnows, CopyTrue
  <2>7. WriteKnows' BY <1>2, <2>1 DEF ValuesKnow, WriteKnows, Unmasked
  <2>8. LagKnows' BY <1>2, <2>1 DEF ValuesKnow, LagKnows
  <2>9. LeafKnows'
    <3>1. Values!Expressible(feature, Head(call.todo))' = Values!Expressible(feature, Head(call.todo))
      BY DEF Values!Expressible, Values!CopiesOf
    <3>2. Own(Head(call.todo)) => Own(Head(call.todo))' BY DEF Own
    <3> QED BY <1>2, <2>1, <3>1, <3>2 DEF ValuesKnow, LeafKnows
  <2>10. LimitsKnow'
    <3>1. /\ Values!UnitOf(native)' = Values!UnitOf(native)
          /\ Values!UnitOf(call.job.value)' = Values!UnitOf(call.job.value)
      BY Zenon DEF Values!UnitOf, Values!Limited, Values!Unit
    <3>2. Entered => Entered' BY DEF Entered
    <3>3. Range(call.todo)' = Range(call.todo) BY Zenon DEF Range
    <3> QED BY <1>2, <2>1, <3>1, <3>2, <3>3 DEF ValuesKnow, LimitsKnow
  <2> QED BY <1>2, <2>1, <2>2, <2>3, <2>4, <2>5, <2>6, <2>7, <2>8, <2>9, <2>10 DEF ValuesKnow
<1> QED BY <1>1, <1>3, <1>4, <1>5 DEF ValuesFirm

LEMMA ListedRestFirmly ==
    ASSUME ListedFirm, UNCHANGED <<feature, native, cache, unowned, call>> PROVE ListedFirm'
<1>1. Sure' <=> Sure BY SureStays
<1>2. Firm' <=> Firm BY DEF Firm
<1>3. Tracked' <=> Tracked BY DEF Tracked, Listed!Agree
<1>4. \A l : Heading(l)' <=> Heading(l) BY DEF Heading
<1>5. Range(call.todo)' = Range(call.todo) BY Zenon DEF Range
<1>6. MedFirm' <=> MedFirm BY <1>4, <1>5 DEF MedFirm
<1>7. VeFirm' <=> VeFirm BY <1>1 DEF VeFirm, Reaches
<1>8. StpVlanFirm' <=> StpVlanFirm BY DEF StpVlanFirm
<1>9. Onward' <=> Onward BY <1>3, <1>6, <1>7, <1>8 DEF Onward
<1>10. (MedTyped' <=> MedTyped) /\ (Asked' <=> Asked) /\ (Plain(native.entry)' <=> Plain(native.entry))
  BY DEF MedTyped, Asked, Plain
<1> QED BY <1>1, <1>2, <1>9, <1>10 DEF ListedFirm

LEMMA AccessRestFirmly ==
    ASSUME AccessFirm, UNCHANGED <<feature, native, cache, unowned, call>> PROVE AccessFirm'
<1>1. Firm' <=> Firm BY DEF Firm
<1>2. GlobalFirm' <=> GlobalFirm BY DEF GlobalFirm, Done, Achieved
<1>3. PortFirm' <=> PortFirm BY DEF PortFirm, Access!GlobalOf
<1>4. Whole(native)' <=> Whole(native) BY DEF Whole
<1> QED BY <1>1, <1>2, <1>3, <1>4 DEF AccessFirm

LEMMA FirmNextHolds == QuietInv /\ FirmInv /\ [Next]_vars => FirmInv'
<1> SUFFICES ASSUME QuietInv, FirmInv, [Next]_vars PROVE FirmInv'
  OBVIOUS
<1>1. CASE UNCHANGED vars
  <2>1. UNCHANGED <<feature, native, cache, unowned, call>> BY <1>1 DEF vars, switch
  <2>2. AccountsFirm => AccountsFirm' BY <2>1 DEF AccountsFirm, Firm, Accounts!Agrees
  <2>3. ValuesFirm => ValuesFirm' BY <2>1, ValuesRestFirmly
  <2>4. ListedFirm => ListedFirm' BY <2>1, ListedRestFirmly
  <2>5. AccessFirm => AccessFirm' BY <2>1, AccessRestFirmly
  <2> QED BY <2>1, <2>2, <2>3, <2>4, <2>5 DEF FirmInv
<1>2. ASSUME Next, feature' \in Values!Features PROVE ValuesFirm'
  <2>1. feature \in Values!Features BY <1>2, FeatureStays DEF QuietInv
  <2>2. Values!Next BY <1>2, <2>1, GroupsApart DEF Next
  <2> QED BY <2>1, <2>2, ValuesFirmHolds DEF FirmInv, QuietInv, FeaturesInv
<1>3. ASSUME Next, feature' \in Listed!Features PROVE ListedFirm'
  <2>1. feature \in Listed!Features BY <1>3, FeatureStays DEF QuietInv
  <2>2. Listed!Next BY <1>3, <2>1, GroupsApart DEF Next
  <2> QED BY <2>1, <2>2, ListedFirmHolds DEF FirmInv, QuietInv, FeaturesInv
<1>4. ASSUME Next, feature' \in Access!Features PROVE AccessFirm'
  <2>1. feature \in Access!Features BY <1>4, FeatureStays DEF QuietInv
  <2>2. Access!Next BY <1>4, <2>1, GroupsApart DEF Next
  <2> QED BY <2>1, <2>2, AccessFirmHolds DEF FirmInv, QuietInv, FeaturesInv
<1>5. ASSUME Next, feature' \in Accounts!Features PROVE AccountsFirm'
  <2>1. feature \in Accounts!Features BY <1>5, FeatureStays DEF QuietInv
  <2>2. Accounts!Next BY <1>5, <2>1, GroupsApart DEF Next
  <2> QED BY <2>1, <2>2, AccountsFirmHolds DEF FirmInv, QuietInv, FeaturesInv
<1> QED BY <1>1, <1>2, <1>3, <1>4, <1>5 DEF FirmInv

\* A call that is not refused before its first request and that nothing
\* disturbs succeeds, and a routed interface's waits for nothing in vain: what
\* the apply has read, aligned and written so far is always enough for its next
\* request to be carried out, and for its last readback to show what was asked
\* for, whatever an earlier call left half done.  This holds of every copy
\* RESTCONF may have, except for DNS servers, areas, bindings, routes and the
\* removal of a routed interface, which do not align it: theirs succeed if
\* RESTCONF lists the entry just when the switch has it.
THEOREM QuietCallsSucceed == Spec => []QuietCallSucceeds
<1>1. QuietInv /\ FirmInv => QuietCallSucceeds
  BY ValuesSucceed, ListedSucceed, AccessSucceed, AccountsSucceed DEF FirmInv, QuietCallSucceeds
<1> QED BY <1>1, FirmInitHolds, FirmNextHolds, QuietAlways, PTL DEF Spec
=============================================================================
