---------------------------- MODULE FeatureProofs ----------------------------
(* What the small features have in common holds for any number of calls and *)
(* of requests that go wrong.                                                *)
EXTENDS FeatureCalls, Sequences, TLAPS

-----------------------------------------------------------------------------
(* A call under way.                                                       *)

Fields == {"pc", "job", "before", "seen", "cached", "others", "failed", "expect", "then", "todo",
           "fresh", "quiet"}

\* Labels reached without a look at what the last request left.
Unlooked ==
    {"read", "readback", "failed", "refused", "create", "rename", "admin", "disable"}
        \union (IF feature = "lag" THEN {"poll"} ELSE {})
        \union (IF feature = "stpvlan" THEN {"wait"} ELSE {})

Shaped == call # NoCall => DOMAIN call = Fields

Looking == call # NoCall /\ call.fresh /\ ~call.failed /\ call.pc \notin Unlooked
Accounted == unowned \in call.others

\* What the code has looked at is what the switch holds, and nothing else was
\* changed behind its back.
LookedInv == Shaped /\ unowned \in Rest /\ (Looking => call.seen = native /\ Accounted)

\* A step of a call that sends nothing.
Moves ==
    /\ UNCHANGED <<feature, native, unowned>>
    /\ DOMAIN call' = Fields /\ call.pc \notin Unlooked
    /\ call'.seen = call.seen /\ call'.others = call.others /\ call'.job = call.job
    /\ call'.fresh = call.fresh /\ call'.failed = call.failed

\* A step after which the code is yet to look.
Pends ==
    /\ UNCHANGED feature /\ unowned' \in Rest \union {unowned}
    /\ DOMAIN call' = Fields /\ call'.pc \in Unlooked
    /\ call'.job = call.job

\* A step that looks.
Looks ==
    /\ UNCHANGED <<feature, native, unowned>>
    /\ DOMAIN call' = Fields /\ call'.job = call.job
    /\ call'.seen = native
    /\ ~call'.failed => call'.pc = "failed" \/ Accounted'

LEMMA MovesKeeps == ASSUME LookedInv, call # NoCall, Moves PROVE LookedInv'
<1>1. Unlooked' = Unlooked BY DEF Moves, Unlooked
<1> QED BY <1>1 DEF LookedInv, Shaped, Looking, Accounted, Moves

LEMMA PendsKeeps == ASSUME LookedInv, Pends PROVE LookedInv'
<1>1. Unlooked' = Unlooked BY DEF Pends, Unlooked
<1> QED BY <1>1 DEF LookedInv, Shaped, Looking, Accounted, Pends

LEMMA LooksKeeps == ASSUME LookedInv, Looks PROVE LookedInv'
BY DEF LookedInv, Shaped, Looking, Accounted, Looks, Unlooked

-----------------------------------------------------------------------------
(* The steps that every feature's calls are made of.                       *)

LEMMA ContinueIs ==
    ASSUME NEW c, Continue(c)
    PROVE  call' = c /\ UNCHANGED <<feature, native, cache, unowned, reported, calls, troubles>>
BY DEF Continue, switch, bounds

LEMMA GotoIs ==
    ASSUME NEW label, Goto(label), DOMAIN call = Fields
    PROVE  /\ call' = [call EXCEPT !.pc = label] /\ call'.pc = label
           /\ UNCHANGED <<feature, native, cache, unowned, reported, calls, troubles>>
           /\ call.pc \notin Unlooked => Moves
<1>1. /\ call' = [call EXCEPT !.pc = label]
      /\ UNCHANGED <<feature, native, cache, unowned, reported, calls, troubles>>
  BY ContinueIs DEF Goto
<1> QED BY <1>1 DEF Moves, Fields

LEMMA SendIs ==
    ASSUME NEW S, NEW x, NEW c, Send(S, x, c), DOMAIN call = Fields, DOMAIN c = Fields
    PROVE  /\ UNCHANGED <<feature, reported, calls>> /\ unowned' \in Rest \union {unowned}
           /\ native' \in S \union {native} /\ cache' \in {cache, x}
           /\ DOMAIN call' = Fields
           /\ \A f \in Fields \ {"failed", "quiet"} : call'[f] = c[f]
BY DEF Send, Damages, Sound, Faulty, bounds, switch, Fields

LEMMA RequestIs ==
    ASSUME NEW S, NEW x, NEW label, NEW expected, Request(S, x, label, expected), DOMAIN call = Fields
    PROVE  /\ Pends /\ UNCHANGED reported
           /\ native' \in S \union {native} /\ cache' \in {cache, x}
           /\ call'.pc = "readback" /\ call'.then = label /\ call'.expect = expected
           /\ \A f \in Fields \ {"pc", "then", "expect", "failed", "quiet"} : call'[f] = call[f]
<1> DEFINE c == [call EXCEPT !.pc = "readback", !.then = label, !.expect = expected]
<1>1. /\ DOMAIN c = Fields /\ c.pc = "readback" /\ c.then = label /\ c.expect = expected
      /\ \A f \in Fields \ {"pc", "then", "expect"} : c[f] = call[f]
  BY DEF Fields
<1>2. Send(S, x, c) BY DEF Request
<1>. HIDE DEF c
<1>3. /\ UNCHANGED <<feature, reported>> /\ DOMAIN call' = Fields
      /\ unowned' \in Rest \union {unowned}
      /\ native' \in S \union {native} /\ cache' \in {cache, x}
      /\ \A f \in Fields \ {"failed", "quiet"} : call'[f] = c[f]
  BY <1>1, <1>2, SendIs
<1>4. /\ call'.pc = "readback" /\ call'.then = label /\ call'.expect = expected
      /\ \A f \in Fields \ {"pc", "then", "expect", "failed", "quiet"} : call'[f] = call[f]
  BY <1>1, <1>3 DEF Fields
<1>5. call'.job = call.job BY <1>4 DEF Fields
<1> QED BY <1>3, <1>4, <1>5 DEF Pends, Unlooked

LEMMA TimesOutIs ==
    ASSUME TimesOut, DOMAIN call = Fields
    PROVE  Pends /\ UNCHANGED reported /\ call'.pc = "failed"
<1>1. /\ call' = [[call EXCEPT !.pc = "failed"] EXCEPT !.quiet = FALSE]
      /\ UNCHANGED <<feature, reported, unowned>>
  BY DEF TimesOut, Fail, Faulty, switch
<1>2. DOMAIN call' = Fields /\ call'.pc = "failed" /\ call'.job = call.job
  BY <1>1 DEF Fields
<1> QED BY <1>1, <1>2 DEF Pends, Unlooked

\* A readback takes the call on only if it saw what was expected.
LEMMA ReadbackIs ==
    ASSUME Readback, DOMAIN call = Fields
    PROVE  /\ UNCHANGED reported /\ At("readback")
           /\ \/ Pends /\ call'.pc = "failed"
              \/ Looks /\ call'.pc = "failed" /\ UNCHANGED cache
              \/ Looks /\ call'.pc = call.then /\ Confirmed /\ UNCHANGED cache
<1>1. /\ At("readback") /\ UNCHANGED <<feature, reported, native, cache, unowned>>
      /\ \/ call' = [[call EXCEPT !.pc = "failed"] EXCEPT !.quiet = FALSE]
         \/ ~Confirmed /\ call' = [[call EXCEPT !.pc = "failed"] EXCEPT !.seen = native, !.fresh = TRUE]
         \/ Confirmed /\ call' = [[call EXCEPT !.pc = call.then] EXCEPT !.seen = native, !.fresh = TRUE]
  BY DEF Readback, Fail, Faulty, Sound, switch
<1>2. CASE call' = [[call EXCEPT !.pc = "failed"] EXCEPT !.quiet = FALSE]
  <2>1. DOMAIN call' = Fields /\ call'.pc = "failed" /\ call'.job = call.job BY <1>2 DEF Fields
  <2> QED BY <1>1, <2>1 DEF Pends, Unlooked
<1>3. CASE ~Confirmed /\ call' = [[call EXCEPT !.pc = "failed"] EXCEPT !.seen = native, !.fresh = TRUE]
  <2>1. DOMAIN call' = Fields /\ call'.pc = "failed" /\ call'.job = call.job /\ call'.seen = native
    BY <1>3 DEF Fields
  <2> QED BY <1>1, <2>1 DEF Looks
<1>4. CASE Confirmed /\ call' = [[call EXCEPT !.pc = call.then] EXCEPT !.seen = native, !.fresh = TRUE]
  <2>1. /\ DOMAIN call' = Fields /\ call'.pc = call.then /\ call'.job = call.job
        /\ call'.seen = native /\ call'.others = call.others
    BY <1>4 DEF Fields
  <2> QED BY <1>1, <1>4, <2>1 DEF Looks, Accounted, Confirmed
<1> QED BY <1>1, <1>2, <1>3, <1>4

LEMMA NothingCalled ==
    /\ NoCall.pc = "idle" /\ DOMAIN NoCall # Fields
    /\ \A label : call # NoCall => (At(label) <=> call.pc = label)
    /\ \A label : At(label) /\ label # "idle" => call # NoCall
BY DEF NoCall, Fields, At

\* A call begins, ends, or is interfered with.
LEMMA BeginIs ==
    ASSUME NEW job, Begin(job), LookedInv
    PROVE  /\ LookedInv' /\ reported' = {} /\ call = NoCall /\ call' # NoCall
           /\ UNCHANGED <<feature, native, cache, unowned>>
           /\ call'.pc = "read" /\ call'.job = job
<1>1. /\ DOMAIN call' = Fields /\ call'.pc = "read" /\ call'.job = job /\ reported' = {}
      /\ UNCHANGED <<feature, native, cache, unowned>> /\ call = NoCall
  BY DEF Begin, Fields, Idle, switch
<1> QED BY <1>1, NothingCalled DEF LookedInv, Shaped, Looking, Unlooked

LEMMA EndIs ==
    ASSUME Return \/ Refuse, LookedInv
    PROVE  /\ LookedInv' /\ call' = NoCall /\ UNCHANGED <<feature, native, cache, unowned>>
           /\ reported' = {} \/ (reported' = {call.job} /\ Succeeds /\ call.fresh)
BY DEF Return, Refuse, LookedInv, Shaped, Looking, switch

LEMMA InterferenceIs ==
    ASSUME NEW S, Interference(S), LookedInv
    PROVE  /\ LookedInv' /\ reported' = {} /\ UNCHANGED feature
           /\ native' = native \/ native' \in S
           /\ \/ call = NoCall /\ call' = NoCall
              \/ /\ call # NoCall /\ call' # NoCall
                 /\ \A f \in Fields \ {"quiet", "fresh"} : call'[f] = call[f]
                 /\ ~call'.fresh
<1>1. /\ reported' = {} /\ UNCHANGED feature
      /\ native' = native \/ native' \in S
      /\ unowned' \in Rest
      /\ call' = IF call = NoCall THEN NoCall ELSE [call EXCEPT !.quiet = FALSE, !.fresh = FALSE]
  BY DEF Interference, Damages, Idle, LookedInv
<1>2. CASE call = NoCall
  BY <1>1, <1>2 DEF LookedInv, Shaped, Looking
<1>3. CASE call # NoCall
  <2>1. /\ DOMAIN call' = Fields /\ ~call'.fresh
        /\ \A f \in Fields \ {"quiet", "fresh"} : call'[f] = call[f]
    BY <1>1, <1>3 DEF Fields, LookedInv, Shaped
  <2> QED BY <1>1, <1>3, <2>1, NothingCalled DEF LookedInv, Shaped, Looking
<1> QED BY <1>2, <1>3

-----------------------------------------------------------------------------
\* Whatever a feature's readbacks compare, they find it when nothing changed.
LEMMA PreservedHas == unowned \in Rest => unowned \in Preserved
BY DEF Preserved

LEMMA UntouchedRests == Untouched \in Rest /\ \A b \in BOOLEAN : [Untouched EXCEPT !.near = b] \in Rest
BY DEF Untouched, Rest

-----------------------------------------------------------------------------
(* Every feature has its own Workflow, which is this one.                  *)

LEMMA ValuesSame ==
    /\ \A x : Values!Goto(x) <=> Goto(x)
    /\ \A x : Values!Continue(x) <=> Continue(x)
    /\ \A x : Values!At(x) <=> At(x)
    /\ \A S, x, c : Values!Send(S, x, c) <=> Send(S, x, c)
    /\ \A S, x, l, e : Values!Request(S, x, l, e) <=> Request(S, x, l, e)
    /\ \A job : Values!Begin(job) <=> Begin(job)
    /\ \A S : Values!Interference(S) <=> Interference(S)
    /\ (Values!TimesOut <=> TimesOut) /\ (Values!Readback <=> Readback)
    /\ (Values!Return <=> Return) /\ (Values!Refuse <=> Refuse) /\ (Values!Finished <=> Finished)
    /\ Values!NoCall = NoCall /\ Values!Fail = Fail /\ (Values!Idle <=> Idle)
    /\ (Values!Succeeds <=> Succeeds) /\ (Values!Fails <=> Fails)
    /\ Values!Preserved = Preserved /\ Values!Untouched = Untouched
BY DEF Values!ComparedInPart, ComparedInPart, Values!Damages, Damages,
   Values!Preserved, Preserved, Values!Rest, Rest, Values!Untouched, Untouched,
   Values!Goto, Goto, Values!Continue, Continue, Values!At, At, Values!Send, Send, Values!Request,
   Request, Values!TimesOut, TimesOut, Values!Fail, Fail, Values!switch, switch, Values!bounds, bounds,
   Values!Faulty, Faulty, Values!Sound, Sound, Values!Begin, Begin, Values!Idle, Idle, Values!NoCall,
   NoCall, Values!Interference, Interference, Values!Readback, Readback, Values!Confirmed, Confirmed,
   Values!Return, Return, Values!Succeeds, Succeeds, Values!Fails, Fails, Values!Refuse, Refuse,
   Values!Finished, Finished, Values!vars, vars

LEMMA ListedSame ==
    /\ \A x : Listed!Goto(x) <=> Goto(x)
    /\ \A x : Listed!Continue(x) <=> Continue(x)
    /\ \A x : Listed!At(x) <=> At(x)
    /\ \A S, x, c : Listed!Send(S, x, c) <=> Send(S, x, c)
    /\ \A S, x, l, e : Listed!Request(S, x, l, e) <=> Request(S, x, l, e)
    /\ \A job : Listed!Begin(job) <=> Begin(job)
    /\ \A S : Listed!Interference(S) <=> Interference(S)
    /\ (Listed!TimesOut <=> TimesOut) /\ (Listed!Readback <=> Readback)
    /\ (Listed!Return <=> Return) /\ (Listed!Refuse <=> Refuse) /\ (Listed!Finished <=> Finished)
    /\ Listed!NoCall = NoCall /\ Listed!Fail = Fail /\ (Listed!Idle <=> Idle)
    /\ (Listed!Succeeds <=> Succeeds) /\ (Listed!Fails <=> Fails)
    /\ Listed!Preserved = Preserved /\ Listed!Untouched = Untouched
BY DEF Listed!ComparedInPart, ComparedInPart, Listed!Damages, Damages,
   Listed!Preserved, Preserved, Listed!Rest, Rest, Listed!Untouched, Untouched,
   Listed!Goto, Goto, Listed!Continue, Continue, Listed!At, At, Listed!Send, Send, Listed!Request,
   Request, Listed!TimesOut, TimesOut, Listed!Fail, Fail, Listed!switch, switch, Listed!bounds, bounds,
   Listed!Faulty, Faulty, Listed!Sound, Sound, Listed!Begin, Begin, Listed!Idle, Idle, Listed!NoCall,
   NoCall, Listed!Interference, Interference, Listed!Readback, Readback, Listed!Confirmed, Confirmed,
   Listed!Return, Return, Listed!Succeeds, Succeeds, Listed!Fails, Fails, Listed!Refuse, Refuse,
   Listed!Finished, Finished, Listed!vars, vars

LEMMA AccessSame ==
    /\ \A x : Access!Goto(x) <=> Goto(x)
    /\ \A x : Access!Continue(x) <=> Continue(x)
    /\ \A x : Access!At(x) <=> At(x)
    /\ \A S, x, c : Access!Send(S, x, c) <=> Send(S, x, c)
    /\ \A S, x, l, e : Access!Request(S, x, l, e) <=> Request(S, x, l, e)
    /\ \A job : Access!Begin(job) <=> Begin(job)
    /\ \A S : Access!Interference(S) <=> Interference(S)
    /\ (Access!TimesOut <=> TimesOut) /\ (Access!Readback <=> Readback)
    /\ (Access!Return <=> Return) /\ (Access!Refuse <=> Refuse) /\ (Access!Finished <=> Finished)
    /\ Access!NoCall = NoCall /\ Access!Fail = Fail /\ (Access!Idle <=> Idle)
    /\ (Access!Succeeds <=> Succeeds) /\ (Access!Fails <=> Fails)
    /\ Access!Preserved = Preserved /\ Access!Untouched = Untouched
BY DEF Access!ComparedInPart, ComparedInPart, Access!Damages, Damages,
   Access!Preserved, Preserved, Access!Rest, Rest, Access!Untouched, Untouched,
   Access!Goto, Goto, Access!Continue, Continue, Access!At, At, Access!Send, Send, Access!Request,
   Request, Access!TimesOut, TimesOut, Access!Fail, Fail, Access!switch, switch, Access!bounds, bounds,
   Access!Faulty, Faulty, Access!Sound, Sound, Access!Begin, Begin, Access!Idle, Idle, Access!NoCall,
   NoCall, Access!Interference, Interference, Access!Readback, Readback, Access!Confirmed, Confirmed,
   Access!Return, Return, Access!Succeeds, Succeeds, Access!Fails, Fails, Access!Refuse, Refuse,
   Access!Finished, Finished, Access!vars, vars

LEMMA AccountsSame ==
    /\ \A x : Accounts!Goto(x) <=> Goto(x)
    /\ \A x : Accounts!Continue(x) <=> Continue(x)
    /\ \A x : Accounts!At(x) <=> At(x)
    /\ \A S, x, c : Accounts!Send(S, x, c) <=> Send(S, x, c)
    /\ \A S, x, l, e : Accounts!Request(S, x, l, e) <=> Request(S, x, l, e)
    /\ \A job : Accounts!Begin(job) <=> Begin(job)
    /\ \A S : Accounts!Interference(S) <=> Interference(S)
    /\ (Accounts!TimesOut <=> TimesOut) /\ (Accounts!Readback <=> Readback)
    /\ (Accounts!Return <=> Return) /\ (Accounts!Refuse <=> Refuse) /\ (Accounts!Finished <=> Finished)
    /\ Accounts!NoCall = NoCall /\ Accounts!Fail = Fail /\ (Accounts!Idle <=> Idle)
    /\ (Accounts!Succeeds <=> Succeeds) /\ (Accounts!Fails <=> Fails)
    /\ Accounts!Preserved = Preserved /\ Accounts!Untouched = Untouched
BY DEF Accounts!ComparedInPart, ComparedInPart, Accounts!Damages, Damages,
   Accounts!Preserved, Preserved, Accounts!Rest, Rest, Accounts!Untouched, Untouched,
   Accounts!Goto, Goto, Accounts!Continue, Continue, Accounts!At, At, Accounts!Send, Send,
   Accounts!Request, Request, Accounts!TimesOut, TimesOut, Accounts!Fail, Fail, Accounts!switch, switch,
   Accounts!bounds, bounds, Accounts!Faulty, Faulty, Accounts!Sound, Sound, Accounts!Begin, Begin,
   Accounts!Idle, Idle, Accounts!NoCall, NoCall, Accounts!Interference, Interference, Accounts!Readback,
   Readback, Accounts!Confirmed, Confirmed, Accounts!Return, Return, Accounts!Succeeds, Succeeds,
   Accounts!Fails, Fails, Accounts!Refuse, Refuse, Accounts!Finished, Finished, Accounts!vars, vars

-----------------------------------------------------------------------------
(* Settings: what each feature reads is a number for each of its fields.   *)

FieldsOf ==
    [dscptrust |-> {"value"},
     protectedport |-> {"value"},
     jumbo |-> {"value"},
     poe |-> {"value"},
     voicevlan |-> {"value"},
     lldp |-> {"value"},
     lldpglobal |-> {"value"},
     ethernet |-> {"name", "enabled"},
     lag |-> {"name", "enabled", "members"},
     stp |-> {"edge", "guard"},
     igmpglobal |-> {"mode", "version"},
     igmpvlan |-> {"mode", "version"},
     storm |-> {"broadcast", "multicast"}]

\* Whatever the requests leave behind, units of storm control included.
Raw == [FieldsOf[feature] -> 0..3]

LEMMA FieldsAre ==
    ASSUME NEW f \in Values!Features
    PROVE  /\ f \in DOMAIN FieldsOf
           /\ Values!SettingsOf[f] \subseteq [FieldsOf[f] -> 0..3]
           /\ Values!Fields(f) = FieldsOf[f]
<1> DEFINE Fitting(F, S) == S \subseteq [F -> 0..3] /\ S # {}
<1>1. /\ Values!Features = {"dscptrust", "protectedport", "jumbo", "poe", "voicevlan", "lldp", "lldpglobal",
                            "ethernet", "lag", "stp", "igmpglobal", "igmpvlan", "storm"}
      /\ Values!Features = DOMAIN FieldsOf
  BY DEF Values!Features, Values!SettingsOf, FieldsOf
<1>2. Fitting(FieldsOf["dscptrust"], Values!SettingsOf["dscptrust"])
  <2>1. FieldsOf["dscptrust"] = {"value"} /\ Values!SettingsOf["dscptrust"] = Values!DscpTrustSettings
    BY DEF FieldsOf, Values!SettingsOf
  <2>2. [value |-> 0] \in Values!DscpTrustSettings
    BY DEF Values!DscpTrustSettings
  <2>3. Values!DscpTrustSettings \subseteq [{"value"} -> 0..3]
    BY DEF Values!DscpTrustSettings
  <2> QED BY <2>1, <2>2, <2>3
<1>3. Fitting(FieldsOf["protectedport"], Values!SettingsOf["protectedport"])
  <2>1. FieldsOf["protectedport"] = {"value"} /\ Values!SettingsOf["protectedport"] = Values!ProtectedPortSettings
    BY DEF FieldsOf, Values!SettingsOf
  <2>2. [value |-> 0] \in Values!ProtectedPortSettings
    BY DEF Values!ProtectedPortSettings
  <2>3. Values!ProtectedPortSettings \subseteq [{"value"} -> 0..3]
    BY DEF Values!ProtectedPortSettings
  <2> QED BY <2>1, <2>2, <2>3
<1>4. Fitting(FieldsOf["jumbo"], Values!SettingsOf["jumbo"])
  <2>1. FieldsOf["jumbo"] = {"value"} /\ Values!SettingsOf["jumbo"] = Values!JumboSettings
    BY DEF FieldsOf, Values!SettingsOf
  <2>2. [value |-> 0] \in Values!JumboSettings
    BY DEF Values!JumboSettings
  <2>3. Values!JumboSettings \subseteq [{"value"} -> 0..3]
    BY DEF Values!JumboSettings
  <2> QED BY <2>1, <2>2, <2>3
<1>5. Fitting(FieldsOf["poe"], Values!SettingsOf["poe"])
  <2>1. FieldsOf["poe"] = {"value"} /\ Values!SettingsOf["poe"] = Values!PoeSettings
    BY DEF FieldsOf, Values!SettingsOf
  <2>2. [value |-> 0] \in Values!PoeSettings
    BY DEF Values!PoeSettings
  <2>3. Values!PoeSettings \subseteq [{"value"} -> 0..3]
    BY DEF Values!PoeSettings
  <2> QED BY <2>1, <2>2, <2>3
<1>6. Fitting(FieldsOf["voicevlan"], Values!SettingsOf["voicevlan"])
  <2>1. FieldsOf["voicevlan"] = {"value"} /\ Values!SettingsOf["voicevlan"] = Values!VoiceVlanSettings
    BY DEF FieldsOf, Values!SettingsOf
  <2>2. [value |-> 0] \in Values!VoiceVlanSettings
    BY DEF Values!VoiceVlanSettings
  <2>3. Values!VoiceVlanSettings \subseteq [{"value"} -> 0..3]
    BY DEF Values!VoiceVlanSettings
  <2> QED BY <2>1, <2>2, <2>3
<1>7. Fitting(FieldsOf["lldp"], Values!SettingsOf["lldp"])
  <2>1. FieldsOf["lldp"] = {"value"} /\ Values!SettingsOf["lldp"] = Values!LldpSettings
    BY DEF FieldsOf, Values!SettingsOf
  <2>2. [value |-> 0] \in Values!LldpSettings
    BY DEF Values!LldpSettings
  <2>3. Values!LldpSettings \subseteq [{"value"} -> 0..3]
    BY DEF Values!LldpSettings
  <2> QED BY <2>1, <2>2, <2>3
<1>8. Fitting(FieldsOf["lldpglobal"], Values!SettingsOf["lldpglobal"])
  <2>1. FieldsOf["lldpglobal"] = {"value"} /\ Values!SettingsOf["lldpglobal"] = Values!LldpGlobalSettings
    BY DEF FieldsOf, Values!SettingsOf
  <2>2. [value |-> 0] \in Values!LldpGlobalSettings
    BY DEF Values!LldpGlobalSettings
  <2>3. Values!LldpGlobalSettings \subseteq [{"value"} -> 0..3]
    BY DEF Values!LldpGlobalSettings
  <2> QED BY <2>1, <2>2, <2>3
<1>9. Fitting(FieldsOf["ethernet"], Values!SettingsOf["ethernet"])
  <2>1. FieldsOf["ethernet"] = {"name", "enabled"} /\ Values!SettingsOf["ethernet"] = Values!EthernetSettings
    BY DEF FieldsOf, Values!SettingsOf
  <2>2. [name |-> 0, enabled |-> 0] \in Values!EthernetSettings
    BY DEF Values!EthernetSettings
  <2>3. Values!EthernetSettings \subseteq [{"name", "enabled"} -> 0..3]
    BY DEF Values!EthernetSettings
  <2> QED BY <2>1, <2>2, <2>3
<1>10. Fitting(FieldsOf["lag"], Values!SettingsOf["lag"])
  <2>1. FieldsOf["lag"] = {"name", "enabled", "members"} /\ Values!SettingsOf["lag"] = Values!LagInterfaceSettings
    BY DEF FieldsOf, Values!SettingsOf
  <2>2. [name |-> 0, enabled |-> 0, members |-> 0] \in Values!LagInterfaceSettings
    BY DEF Values!LagInterfaceSettings
  <2>3. Values!LagInterfaceSettings \subseteq [{"name", "enabled", "members"} -> 0..3]
    BY DEF Values!LagInterfaceSettings
  <2> QED BY <2>1, <2>2, <2>3
<1>11. Fitting(FieldsOf["stp"], Values!SettingsOf["stp"])
  <2>1. FieldsOf["stp"] = {"edge", "guard"} /\ Values!SettingsOf["stp"] = Values!StpInterfaceSettings
    BY DEF FieldsOf, Values!SettingsOf
  <2>2. [edge |-> 0, guard |-> 0] \in Values!StpInterfaceSettings
    BY DEF Values!StpInterfaceSettings
  <2>3. Values!StpInterfaceSettings \subseteq [{"edge", "guard"} -> 0..3]
    BY DEF Values!StpInterfaceSettings
  <2> QED BY <2>1, <2>2, <2>3
<1>12. Fitting(FieldsOf["igmpglobal"], Values!SettingsOf["igmpglobal"])
  <2>1. FieldsOf["igmpglobal"] = {"mode", "version"} /\ Values!SettingsOf["igmpglobal"] = Values!IgmpGlobalSettings
    BY DEF FieldsOf, Values!SettingsOf
  <2>2. [mode |-> 0, version |-> 0] \in Values!IgmpGlobalSettings
    BY DEF Values!IgmpGlobalSettings
  <2>3. Values!IgmpGlobalSettings \subseteq [{"mode", "version"} -> 0..3]
    BY DEF Values!IgmpGlobalSettings
  <2> QED BY <2>1, <2>2, <2>3
<1>13. Fitting(FieldsOf["igmpvlan"], Values!SettingsOf["igmpvlan"])
  <2>1. FieldsOf["igmpvlan"] = {"mode", "version"} /\ Values!SettingsOf["igmpvlan"] = Values!IgmpVlanSettings
    BY DEF FieldsOf, Values!SettingsOf
  <2>2. [mode |-> 0, version |-> 0] \in Values!IgmpVlanSettings
    BY DEF Values!IgmpVlanSettings
  <2>3. Values!IgmpVlanSettings \subseteq [{"mode", "version"} -> 0..3]
    BY DEF Values!IgmpVlanSettings
  <2> QED BY <2>1, <2>2, <2>3
<1>14. Fitting(FieldsOf["storm"], Values!SettingsOf["storm"])
  <2>1. FieldsOf["storm"] = {"broadcast", "multicast"} /\ Values!SettingsOf["storm"] = Values!StormSettings
    BY DEF FieldsOf, Values!SettingsOf
  <2>. DEFINE One(s) == {Values!Unit(s.broadcast), Values!Unit(s.multicast)} \ {""} # {"pps", "kbps"}
  <2>4. Values!StormSettings = {s \in [broadcast : 0..3, multicast : 0..1] : One(s)}
    BY DEF Values!StormSettings
  <2>5. One([broadcast |-> 0, multicast |-> 0])
    BY DEF Values!Unit
  <2>. HIDE DEF One
  <2>2. [broadcast |-> 0, multicast |-> 0] \in Values!StormSettings
    BY <2>4, <2>5
  <2>3. Values!StormSettings \subseteq [{"broadcast", "multicast"} -> 0..3]
    BY <2>4
  <2> QED BY <2>1, <2>2, <2>3
<1>15. Fitting(FieldsOf[f], Values!SettingsOf[f])
  BY <1>1, <1>2, <1>3, <1>4, <1>5, <1>6, <1>7, <1>8, <1>9, <1>10, <1>11, <1>12, <1>13, <1>14
<1>16. Values!Fields(f) = FieldsOf[f]
  <2>1. PICK s \in Values!SettingsOf[f] : s = CHOOSE t \in Values!SettingsOf[f] : TRUE
    BY <1>15
  <2> QED BY <2>1, <1>15 DEF Values!Fields
<1> QED BY <1>1, <1>15, <1>16

-----------------------------------------------------------------------------
(* Settings: the requests of a call leave numbers, and the call remembers   *)
(* what it saw.                                                            *)

Working == call # NoCall /\ call.pc \notin {"read", "done", "failed", "refused"}

\* The call knows what is configured and what it is to be.
Typed ==
    /\ feature \in Values!Features /\ DOMAIN call = Fields
    /\ native \in Raw /\ call.seen \in Raw /\ call.before \in Raw
    /\ call.job \in Values!Wanted(feature)

\* One step of a call that neither completes it nor looks at the switch.
Progress ==
    /\ UNCHANGED <<feature, reported>>
    /\ native' \in Raw /\ call'.seen = call.seen /\ call'.before = call.before
    /\ \/ Moves /\ call'.pc \notin {"readback", "done", "forgotten"}
       \/ /\ Pends /\ call'.pc # "done"
          /\ call'.pc = "readback" => call'.then \notin {"readback", "done", "forgotten"}

LEMMA WantIsRaw ==
    ASSUME feature \in Values!Features, NEW job \in Values!Wanted(feature)
    PROVE  job.value \in Raw
<1>1. Values!SettingsOf[feature] \subseteq Raw BY FieldsAre DEF Raw
<1>2. Values!Default(feature) \in Raw BY FieldsAre DEF Values!Default, Raw
<1>3. job.value \in Values!SettingsOf[feature] \/ job.value = Values!Default(feature)
  <2> DEFINE fit(v) == CASE feature = "lldp" -> v.value # 2
                         [] feature = "lag" -> v.members = v.enabled
                         [] feature = "igmpvlan" -> v.mode # 3
                         [] OTHER -> TRUE
  <2>1. Values!Wanted(feature) =
           [value : {v \in Values!SettingsOf[feature] : fit(v)}, remove : {FALSE}]
             \union (IF feature \in Values!Parented
                     THEN {[value |-> Values!Default(feature), remove |-> TRUE]} ELSE {})
    BY DEF Values!Wanted
  <2>. HIDE DEF fit
  <2>2. CASE job \in [value : {v \in Values!SettingsOf[feature] : fit(v)}, remove : {FALSE}]
    BY <2>2
  <2>3. CASE job = [value |-> Values!Default(feature), remove |-> TRUE]
    BY <2>3
  <2> QED BY <2>1, <2>2, <2>3
<1> QED BY <1>1, <1>2, <1>3

\* A value that each request writes is one of the values it may take.
LEMMA CarriedIsRaw ==
    ASSUME feature \in Values!Features, NEW s \in Raw
    PROVE  Values!Carried(s) \in Raw
<1>1. CASE feature = "lag"
  <2>1. Raw = [{"name", "enabled", "members"} -> 0..3] BY <1>1 DEF Raw, FieldsOf
  <2> QED BY <2>1 DEF Values!Carried
<1>2. CASE feature # "lag"
  BY <1>2 DEF Values!Carried
<1> QED BY <1>1, <1>2

LEMMA WrittenIsRaw ==
    ASSUME Typed, NEW values, \A x \in DOMAIN values \intersect FieldsOf[feature] : values[x] \in 0..3
    PROVE  Values!Written(values) \subseteq Raw
<1> SUFFICES ASSUME NEW s \in Values!Written(values) PROVE s \in Raw
  OBVIOUS
<1>1. PICK skipped : s = Values!Carried([x \in DOMAIN native |->
                        IF x \in DOMAIN values \ skipped THEN values[x] ELSE native[x]])
  BY DEF Values!Written
<1>2. [x \in DOMAIN native |-> IF x \in DOMAIN values \ skipped THEN values[x] ELSE native[x]] \in Raw
  BY DEF Typed, Raw
<1> QED BY <1>1, <1>2, CarriedIsRaw DEF Typed

LEMMA ResetIsRaw ==
    ASSUME Typed, NEW fields
    PROVE  Values!Reset(fields) \subseteq Raw
<1>1. [x \in DOMAIN native |-> IF x \in fields /\ cache[x] # None THEN 0 ELSE native[x]] \in Raw
  BY DEF Typed, Raw
<1> QED BY <1>1, CarriedIsRaw DEF Values!Reset, Typed

LEMMA RequestProgress ==
    ASSUME Typed, NEW S, S \subseteq Raw, NEW x, NEW label, NEW expected,
           Request(S, x, label, expected), label \notin {"readback", "done", "forgotten"}
    PROVE  Progress
BY RequestIs DEF Progress, Typed, Fields, Pends

LEMMA SendProgress ==
    ASSUME Typed, NEW S, S \subseteq Raw, NEW x, NEW c, Send(S, x, c),
           DOMAIN c = Fields, c.pc \in Unlooked \ {"done"}, c.job = call.job,
           c.seen = call.seen, c.before = call.before,
           c.pc = "readback" => c.then \notin {"readback", "done", "forgotten"}
    PROVE  Progress
<1>1. /\ UNCHANGED <<feature, reported>> /\ DOMAIN call' = Fields /\ native' \in Raw
      /\ unowned' \in Rest \union {unowned}
      /\ \A f \in Fields \ {"failed", "quiet"} : call'[f] = c[f]
  BY SendIs DEF Typed
<1>2. /\ call'.pc = c.pc /\ call'.job = c.job /\ call'.seen = c.seen
      /\ call'.before = c.before /\ call'.then = c.then
  BY <1>1 DEF Fields
<1> QED BY <1>1, <1>2 DEF Progress, Pends

LEMMA ContinueProgress ==
    ASSUME Typed, NEW c, Continue(c), DOMAIN c = Fields, call.pc \notin Unlooked,
           \A f \in {"job", "seen", "before", "others", "fresh", "failed"} : c[f] = call[f],
           c.pc \notin {"readback", "done", "forgotten"}
    PROVE  Progress
<1>1. call' = c /\ UNCHANGED <<feature, native, unowned, reported>>
  BY ContinueIs
<1> QED BY <1>1 DEF Progress, Moves, Typed, Raw

LEMMA GotoProgress ==
    ASSUME Typed, NEW label, Goto(label), call.pc \notin Unlooked,
           label \notin {"readback", "done", "forgotten"}
    PROVE  Progress
BY GotoIs DEF Progress, Typed, Moves, Fields, Raw

LEMMA FailsProgress ==
    ASSUME Typed, TimesOut
    PROVE  Progress
<1>1. /\ call' = [[call EXCEPT !.pc = "failed"] EXCEPT !.quiet = FALSE]
      /\ UNCHANGED <<feature, native, reported>>
  BY DEF TimesOut, Fail, Faulty, switch
<1> QED BY <1>1, TimesOutIs DEF Progress, Typed, Fields, Raw

\* The same for the operators the features use.
LEMMA PatchProgress ==
    ASSUME Typed, NEW values, \A x \in DOMAIN values \intersect FieldsOf[feature] : values[x] \in 0..3,
           NEW label, NEW expected, Values!Patch(values, label, expected),
           label \notin {"readback", "done", "forgotten"}
    PROVE  Progress
BY WrittenIsRaw, RequestProgress, ValuesSame DEF Values!Patch

LEMMA DeleteProgress ==
    ASSUME Typed, NEW fields, NEW label, NEW expected, Values!Delete(fields, label, expected),
           label \notin {"readback", "done", "forgotten"}
    PROVE  Progress
BY ResetIsRaw, RequestProgress, ValuesSame DEF Values!Delete

-----------------------------------------------------------------------------
(* Every request of every feature of Settings is such a step.              *)

\* A call that completes has compared what the switch holds.
Completes ==
    /\ UNCHANGED <<feature, reported>> /\ native' \in Raw
    /\ call'.seen = call.seen /\ call'.before = call.before
    /\ Moves /\ call'.pc = "done"
    /\ Looking => Values!Agrees(native, call.job.value)

\* Removing spanning tree also clears RESTCONF's entry.
Forgets ==
    /\ UNCHANGED <<feature, reported>> /\ native' \in Raw
    /\ call'.seen = call.seen /\ call'.before = call.before
    /\ Pends /\ call'.pc = "readback" /\ call'.then = "forgotten"
    /\ feature = "stp" /\ call'.expect = {call.job.value}

LEMMA Remembered ==
    ASSUME Typed
    PROVE  /\ Values!want = call.job.value /\ Values!seen = call.seen /\ Values!before = call.before
           /\ \A x \in DOMAIN Values!want : Values!want[x] \in 0..3
           /\ \A x \in DOMAIN Values!seen : Values!seen[x] \in 0..3
           /\ \A x \in DOMAIN Values!before : Values!before[x] \in 0..3
           /\ DOMAIN Values!want = FieldsOf[feature] /\ DOMAIN Values!seen = FieldsOf[feature]
           /\ DOMAIN Values!before = FieldsOf[feature]
BY WantIsRaw DEF Typed, Raw, Values!want, Values!seen, Values!before

\* Labels from which a step is taken.
LEMMA AtIs ==
    \A label : Values!At(label) =>
        /\ call.pc = label
        /\ label \notin {"read", "readback", "failed", "refused", "create", "rename", "admin",
                         "disable", "poll", "wait"} => call.pc \notin Unlooked
        /\ label = "wait" /\ feature # "stpvlan" => call.pc \notin Unlooked
BY ValuesSame DEF At, Unlooked

LEMMA DscpTrustSteps == ASSUME Typed, Values!DscpTrust PROVE Progress
BY Remembered, PatchProgress DEF Values!DscpTrust

LEMMA AcceptSteps ==
    ASSUME Typed, NEW ok \in BOOLEAN, Values!Accept(ok), call.pc \notin Unlooked
    PROVE  \/ Progress
           \/ /\ UNCHANGED <<feature, reported>> /\ native' \in Raw
              /\ call'.seen = call.seen /\ call'.before = call.before
              /\ Moves /\ call'.pc = "done" /\ ok
<1>1. CASE ok
  <2>1. Goto("done") BY <1>1, ValuesSame DEF Values!Accept
  <2> QED BY <1>1, <2>1, GotoIs DEF Typed, Fields, Raw
<1>2. CASE ~ok
  <2>1. Goto("failed") BY <1>2, ValuesSame DEF Values!Accept
  <2> QED BY <2>1, GotoProgress
<1> QED BY <1>1, <1>2

LEMMA CheckSteps == ASSUME Typed, LookedInv, Values!Check PROVE Progress \/ Completes
<1> DEFINE ok == Values!Converged
<1>1. Values!Accept(ok) /\ call.pc \notin Unlooked
  BY AtIs DEF Values!Check
<1>2. ok \in BOOLEAN BY DEF Values!Converged, Values!Agrees
<1>3. Looking /\ ok => Values!Agrees(native, call.job.value)
  BY Remembered DEF LookedInv, Values!Converged, Values!Agrees
<1>. HIDE DEF ok
<1> QED BY <1>1, <1>2, <1>3, AcceptSteps DEF Completes

LEMMA StpSteps ==
    ASSUME Typed, Values!StpInterface, call.pc = "forgotten" /\ Looking => native = call.job.value
    PROVE  Progress \/ Completes \/ Forgets
<1>0. feature = "stp" BY DEF Values!StpInterface
<1>1. CASE /\ Values!At("start") /\ Values!seen # Values!want
           /\ IF Values!CopyAgrees(call.cached) THEN Values!Patch(Values!want, "entry", {Values!want})
              ELSE Values!Patch(Values!seen, "wait", {Values!seen})
  BY <1>1, Remembered, PatchProgress
<1>2. CASE Values!At("start") /\ Values!seen = Values!want /\ Values!Goto("entry")
  BY <1>2, AtIs, GotoProgress, ValuesSame
<1>3. CASE Values!At("wait") /\ IF Values!CopyAgrees(cache)
                                THEN Values!Patch(Values!want, "entry", {Values!want}) ELSE Values!TimesOut
  BY <1>3, Remembered, PatchProgress, FailsProgress, ValuesSame
<1>4. CASE Values!At("entry") /\ ~call.job.remove /\ Values!Goto("check")
  BY <1>4, AtIs, GotoProgress, ValuesSame
<1>5. CASE Values!At("entry") /\ call.job.remove
             /\ Values!Delete(DOMAIN cache, "forgotten", {Values!want})
  <2>1. Request(Values!Reset(DOMAIN cache), Values!Emptied(DOMAIN cache), "forgotten", {Values!want})
    BY <1>5, ValuesSame DEF Values!Delete
  <2> QED BY <1>0, <2>1, RequestIs, ResetIsRaw, Remembered DEF Forgets, Typed, Fields, Pends
<1>6. CASE Values!At("forgotten") /\ Values!Accept(\A x \in DOMAIN cache : cache[x] = None)
  <2>1. call.pc = "forgotten" /\ call.pc \notin Unlooked BY <1>6, AtIs
  <2>2. Looking => Values!Agrees(native, call.job.value)
    BY <1>0, <2>1 DEF Values!Agrees
  <2> QED BY <1>6, <2>1, <2>2, AcceptSteps DEF Completes
<1> QED BY <1>1, <1>2, <1>3, <1>4, <1>5, <1>6 DEF Values!StpInterface

LEMMA JumboSteps == ASSUME Typed, Values!Jumbo PROVE Progress \/ Completes
<1>0. feature = "jumbo" /\ call.pc = "start" /\ call.pc \notin Unlooked
  BY AtIs DEF Values!Jumbo
<1>1. CASE Values!Goto("failed")
  BY <1>0, <1>1, GotoProgress, ValuesSame
<1>2. CASE native = Values!want /\ Values!Goto("done")
  <2>1. Goto("done") BY <1>2, ValuesSame
  <2>2. Values!Agrees(native, call.job.value)
    BY <1>0, <1>2, Remembered DEF Values!Agrees
  <2> QED BY <1>0, <2>1, <2>2, GotoIs DEF Completes, Typed, Fields, Raw
<1>3. CASE Values!Patch(Values!want, "check", Values!AnyValue)
  BY <1>3, Remembered, PatchProgress
<1>4. CASE Values!TimesOut
  BY <1>4, FailsProgress, ValuesSame
<1> QED BY <1>1, <1>2, <1>3, <1>4 DEF Values!Jumbo

LEMMA PrimeSteps == ASSUME Typed, Values!PrimeAndFollow PROVE Progress
<1> DEFINE primer == [value |-> IF Values!seen.value = 1 THEN 1 ELSE 0]
<1>1. CASE Values!ThenWanted
  BY <1>1, Remembered, PatchProgress DEF Values!ThenWanted
<1>2. CASE Values!Patch(primer, "primed", Values!SameAs(Values!seen))
  <2>1. \A x \in DOMAIN primer : primer[x] \in 0..3
    OBVIOUS
  <2>. HIDE DEF primer
  <2> QED BY <1>2, <2>1, PatchProgress
<1>3. CASE Values!At("primed") /\ Values!Following("aligned")
  BY <1>3, AtIs, GotoProgress, ValuesSame DEF Values!Following
<1>4. CASE Values!At("follow") /\ Values!Following("check")
  BY <1>4, AtIs, GotoProgress, ValuesSame DEF Values!Following
<1> QED BY <1>1, <1>2, <1>3, <1>4 DEF Values!PrimeAndFollow

LEMMA PoeSteps == ASSUME Typed, Values!Poe PROVE Progress
<1>1. Request({Values!want}, Values!want, "check", Values!AnyValue)
  BY ValuesSame DEF Values!Poe
<1>2. Values!want \in Raw BY WantIsRaw DEF Typed, Values!want
<1> QED BY <1>1, <1>2, RequestProgress

LEMMA EthernetSteps == ASSUME Typed, Values!Ethernet PROVE Progress
<1>1. CASE Values!At("start") /\ Values!Masked = {} /\ Values!Goto("write")
  BY <1>1, AtIs, GotoProgress, ValuesSame
<1>2. CASE Values!Patch([x \in Values!Masked |-> Values!seen[x]], "write", {Values!before})
  <2>1. Values!Masked \subseteq DOMAIN Values!seen BY DEF Values!Masked, Values!Changed
  <2>2. \A y \in DOMAIN [x \in Values!Masked |-> Values!seen[x]] :
           [x \in Values!Masked |-> Values!seen[x]][y] \in 0..3
    BY <2>1, Remembered
  <2> QED BY <1>2, <2>2, PatchProgress
<1>3. CASE Values!Patch([x \in Values!Changed |-> Values!want[x]], "check", {Values!want})
  <2>1. Values!Changed \subseteq DOMAIN Values!want BY Remembered DEF Values!Changed
  <2>2. \A y \in DOMAIN [x \in Values!Changed |-> Values!want[x]] :
           [x \in Values!Changed |-> Values!want[x]][y] \in 0..3
    BY <2>1, Remembered
  <2> QED BY <1>3, <2>2, PatchProgress
<1> QED BY <1>1, <1>2, <1>3 DEF Values!Ethernet

\* An aggregate's interface: one request follows another without a read.
LEMMA LagRequests ==
    ASSUME Typed, feature = "lag", NEW S, S \subseteq Raw, NEW x, NEW label,
           label \in {"rename", "admin", "disable", "poll"},
           Values!Send(S, x, [call EXCEPT !.pc = label])
    PROVE  Progress
<1> DEFINE c == [call EXCEPT !.pc = label]
<1>1. Send(S, x, c) BY ValuesSame
<1>2. /\ DOMAIN c = Fields /\ c.pc = label /\ c.job = call.job
      /\ c.seen = call.seen /\ c.before = call.before
  BY DEF Typed, Fields
<1>3. c.pc \in Unlooked \ {"done"} /\ c.pc # "readback" BY <1>2 DEF Unlooked
<1>. HIDE DEF c
<1> QED BY <1>1, <1>2, <1>3, SendProgress

LEMMA LagSteps == ASSUME Typed, Values!LagInterface PROVE Progress
<1> DEFINE admin == IF Values!before.enabled = Values!want.enabled THEN "poll" ELSE "admin"
<1> DEFINE name(s) == [name |-> s.name]
<1>0. feature = "lag" BY DEF Values!LagInterface
<1>1. /\ Values!before.name \in 0..3 /\ Values!want.name \in 0..3
  BY <1>0, Remembered DEF FieldsOf
<1>2. /\ Values!Written(name(Values!before)) \subseteq Raw
      /\ Values!Written(name(Values!want)) \subseteq Raw
      /\ Values!Written([enabled |-> 0]) \subseteq Raw
      /\ Values!Written([enabled |-> 1]) \subseteq Raw
  <2>1. /\ \A x \in DOMAIN name(Values!before) : name(Values!before)[x] \in 0..3
        /\ \A x \in DOMAIN name(Values!want) : name(Values!want)[x] \in 0..3
        /\ \A x \in DOMAIN [enabled |-> 0] : [enabled |-> 0][x] \in 0..3
        /\ \A x \in DOMAIN [enabled |-> 1] : [enabled |-> 1][x] \in 0..3
    BY <1>1
  <2>. HIDE DEF name
  <2> QED BY <2>1, WrittenIsRaw
<1>3. CASE \E x : Values!Send(Values!Written(name(Values!before)), x, [call EXCEPT !.pc = "rename"])
  BY <1>0, <1>2, <1>3, LagRequests
<1>4. CASE Values!At("start") /\ Values!Goto(admin)
  BY <1>4, AtIs, GotoProgress, ValuesSame
<1>5. CASE \E x : Values!Send(Values!Written(name(Values!want)), x, [call EXCEPT !.pc = admin])
  <2>1. admin \in {"rename", "admin", "disable", "poll"} OBVIOUS
  <2> QED BY <1>0, <1>2, <1>5, <2>1, LagRequests
<1>6. CASE Values!Send(Values!Reset({"enabled"}), Values!Emptied({"enabled"}), [call EXCEPT !.pc = "poll"])
  BY <1>0, <1>6, ResetIsRaw, LagRequests
<1>7. CASE \E x : Values!Send(Values!Written([enabled |-> 0]), x, [call EXCEPT !.pc = "disable"])
  BY <1>0, <1>2, <1>7, LagRequests
<1>8. CASE \E x : Values!Send(Values!Written([enabled |-> 1]), x, [call EXCEPT !.pc = "poll"])
  BY <1>0, <1>2, <1>8, LagRequests
<1>9. CASE Values!Continue([call EXCEPT !.pc = "readback", !.then = "check", !.expect = Values!AnyValue])
  <2>1. /\ call' = [call EXCEPT !.pc = "readback", !.then = "check", !.expect = Values!AnyValue]
        /\ UNCHANGED <<feature, native, unowned, reported>>
    BY <1>9, ValuesSame, ContinueIs
  <2>2. /\ DOMAIN call' = Fields /\ call'.pc = "readback" /\ call'.then = "check"
        /\ call'.job = call.job /\ call'.seen = call.seen /\ call'.before = call.before
    BY <2>1 DEF Typed, Fields
  <2>3. call'.pc \in Unlooked BY <2>2 DEF Unlooked
  <2> QED BY <2>1, <2>2, <2>3 DEF Progress, Pends, Typed, Raw
<1> QED BY <1>3, <1>4, <1>5, <1>6, <1>7, <1>8, <1>9 DEF Values!LagInterface

\* One leaf after the other.
LEMMA LeafSteps == ASSUME Typed, Values!ReplaceLeaf PROVE Progress
<1> DEFINE Leaf == Values!Leaf
<1> DEFINE next(rest) == [call EXCEPT !.todo = rest]
<1> DEFINE clear(rest) == [call EXCEPT !.pc = "clear", !.todo = rest]
<1>1. CASE Values!At("clear") /\ Values!Goto("check")
  BY <1>1, AtIs, GotoProgress, ValuesSame
<1>2. CASE Values!Delete({Leaf}, "set", Values!AnyValue)
  BY <1>2, DeleteProgress
<1>3. CASE Values!At("clear") /\ \E rest : Values!Continue(next(rest))
  <2> PICK rest : Values!Continue(next(rest)) BY <1>3
  <2>1. /\ DOMAIN next(rest) = Fields /\ next(rest).pc = call.pc
        /\ \A f \in {"job", "seen", "before", "others", "fresh", "failed"} : next(rest)[f] = call[f]
    BY DEF Typed, Fields
  <2>2. Continue(next(rest)) /\ call.pc = "clear" /\ call.pc \notin Unlooked BY <1>3, AtIs, ValuesSame
  <2>. HIDE DEF next
  <2> QED BY <2>1, <2>2, ContinueProgress
<1>4. CASE Values!At("set") /\ Values!Goto("unset")
  BY <1>4, AtIs, GotoProgress, ValuesSame
<1>5. CASE Values!Patch([x \in {Leaf} |-> Values!Set(Leaf)], "unset", Values!AnyValue)
  <2>1. Leaf \in FieldsOf[feature] => Values!Set(Leaf) \in 0..3
    BY Remembered DEF Values!Set, Values!Materialised, Values!StandIn
  <2> QED BY <1>5, <2>1, PatchProgress
<1>6. CASE Values!At("unset") /\ \E rest : Values!Continue(clear(rest))
  <2> PICK rest : Values!Continue(clear(rest)) BY <1>6
  <2>1. /\ DOMAIN clear(rest) = Fields /\ clear(rest).pc = "clear"
        /\ \A f \in {"job", "seen", "before", "others", "fresh", "failed"} : clear(rest)[f] = call[f]
    BY DEF Typed, Fields
  <2>2. Continue(clear(rest)) /\ call.pc \notin Unlooked BY <1>6, AtIs, ValuesSame
  <2>. HIDE DEF clear
  <2> QED BY <2>1, <2>2, ContinueProgress
<1>7. CASE Values!Send(Values!Reset({Leaf}), Values!Emptied({Leaf}), Values!NextLeaf(call))
  <2>1. /\ DOMAIN Values!NextLeaf(call) = Fields /\ Values!NextLeaf(call).pc = "readback"
        /\ Values!NextLeaf(call).then = "clear" /\ Values!NextLeaf(call).job = call.job
        /\ Values!NextLeaf(call).seen = call.seen /\ Values!NextLeaf(call).before = call.before
    BY DEF Typed, Fields, Values!NextLeaf
  <2>2. Send(Values!Reset({Leaf}), Values!Emptied({Leaf}), Values!NextLeaf(call))
    BY <1>7, ValuesSame
  <2>3. "readback" \in Unlooked \ {"done"} BY DEF Unlooked
  <2> QED BY <2>1, <2>2, <2>3, ResetIsRaw, SendProgress
<1> QED BY <1>1, <1>2, <1>3, <1>4, <1>5, <1>6, <1>7 DEF Values!ReplaceLeaf

\* Storm control: its requests write numbers it saw or is to have.
LEMMA StormSteps == ASSUME Typed, Values!StormControl PROVE Progress
<1> DEFINE drop(rest) == [call EXCEPT !.pc = "invalidate", !.todo = rest]
<1> DEFINE reset(e, rest) == [call EXCEPT !.pc = "readback", !.then = "invalidate", !.expect = e, !.todo = rest]
<1>1. CASE Values!At("start") /\ Values!Goto("reset")
  BY <1>1, AtIs, GotoProgress, ValuesSame
<1>2. CASE Values!Patch([x \in Values!Seeded |-> Values!seen[x]], "reset", {Values!before})
  BY <1>2, Remembered, PatchProgress
<1>3. CASE Values!Delete(DOMAIN Values!seen, "drop", {Values!Default("storm")})
  BY <1>3, DeleteProgress
<1>4. CASE Values!At("reset") /\ Values!Goto("drop")
  BY <1>4, AtIs, GotoProgress, ValuesSame
<1>5. CASE \E x \in Values!Dropped : Values!Delete({x}, "drop", {Values!Without(Values!seen, x)})
  BY <1>5, DeleteProgress
<1>6. CASE Values!At("drop") /\ \E rest : Values!Continue(drop(rest))
  <2> PICK rest : Values!Continue(drop(rest)) BY <1>6
  <2>1. /\ DOMAIN drop(rest) = Fields /\ drop(rest).pc = "invalidate"
        /\ \A f \in {"job", "seen", "before", "others", "fresh", "failed"} : drop(rest)[f] = call[f]
    BY DEF Typed, Fields
  <2>2. Continue(drop(rest)) /\ call.pc \notin Unlooked BY <1>6, AtIs, ValuesSame
  <2>. HIDE DEF drop
  <2> QED BY <2>1, <2>2, ContinueProgress
<1>7. CASE \E f, x, e, rest : Values!Send(Values!Reset(f), x, reset(e, rest))
  <2> PICK f, x, e, rest : Values!Send(Values!Reset(f), x, reset(e, rest)) BY <1>7
  <2>1. /\ DOMAIN reset(e, rest) = Fields /\ reset(e, rest).pc = "readback"
        /\ reset(e, rest).then = "invalidate" /\ reset(e, rest).job = call.job
        /\ reset(e, rest).seen = call.seen /\ reset(e, rest).before = call.before
    BY DEF Typed, Fields
  <2>2. Send(Values!Reset(f), x, reset(e, rest)) BY ValuesSame
  <2>3. "readback" \in Unlooked \ {"done"} BY DEF Unlooked
  <2>. HIDE DEF reset
  <2> QED BY <2>1, <2>2, <2>3, ResetIsRaw, SendProgress
<1>8. CASE Values!At("invalidate") /\ Values!Goto("write")
  BY <1>8, AtIs, GotoProgress, ValuesSame
<1>9. CASE Values!At("write") /\ Values!Goto("check")
  BY <1>9, AtIs, GotoProgress, ValuesSame
<1>10. CASE Values!Patch([x \in Values!Changed |-> Values!want[x]], "check", Values!AnyValue)
  BY <1>10, Remembered, PatchProgress
<1>11. Values!StormSeed => Progress BY <1>1, <1>2 DEF Values!StormSeed
<1>12. Values!StormReset => Progress BY <1>3, <1>4 DEF Values!StormReset
<1>13. Values!StormDrop => Progress BY <1>5, <1>6 DEF Values!StormDrop
<1>14. Values!StormInvalidate => Progress BY <1>7, <1>8 DEF Values!StormInvalidate
<1>15. Values!StormWrite => Progress BY <1>9, <1>10 DEF Values!StormWrite
<1> QED BY <1>11, <1>12, <1>13, <1>14, <1>15 DEF Values!StormControl

LEMMA ReplaceSteps == ASSUME Typed, NEW leaves, Values!Replace(leaves) PROVE Progress
<1> DEFINE c == [call EXCEPT !.pc = "clear", !.todo = leaves]
<1>1. /\ DOMAIN c = Fields /\ c.pc = "clear"
      /\ \A f \in {"job", "seen", "before", "others", "fresh", "failed"} : c[f] = call[f]
  BY DEF Typed, Fields
<1>2. Continue(c) /\ call.pc \notin Unlooked BY AtIs, ValuesSame DEF Values!Replace
<1>. HIDE DEF c
<1> QED BY <1>1, <1>2, ContinueProgress

LEMMA RequestSteps ==
    ASSUME Typed, LookedInv,
           call.pc = "forgotten" /\ Looking => native = call.job.value,
           \/ Values!Check \/ Values!DscpTrust \/ Values!StpInterface \/ Values!Jumbo
           \/ Values!LldpPort \/ Values!LldpGlobal \/ Values!Poe \/ Values!Ethernet
           \/ Values!LagInterface \/ Values!VoiceVlan \/ Values!ProtectedPort
           \/ Values!IgmpGlobal \/ Values!IgmpVlan \/ Values!StormControl
    PROVE  Progress \/ Completes \/ Forgets
<1>1. CASE Values!LldpPort \/ Values!LldpGlobal
  BY <1>1, PrimeSteps DEF Values!LldpPort, Values!LldpGlobal
<1>2. CASE Values!VoiceVlan \/ Values!ProtectedPort \/ Values!IgmpGlobal \/ Values!IgmpVlan
  BY <1>2, ReplaceSteps, LeafSteps
     DEF Values!VoiceVlan, Values!ProtectedPort, Values!IgmpGlobal, Values!IgmpVlan
<1> QED BY <1>1, <1>2, CheckSteps, DscpTrustSteps, StpSteps, JumboSteps, PoeSteps, EthernetSteps,
           LagSteps, StormSteps

-----------------------------------------------------------------------------
(* Settings: what a call reported stands.                                  *)

\* What was asked for is there, or is to be removed with a parent that is gone.
Stood(job) ==
    IF native = Gone THEN job.value = Values!Default(feature) ELSE Values!Agrees(native, job.value)

ValuesInv ==
    /\ feature \in Values!Features /\ native \in Raw \union {Gone}
    /\ LookedInv
    /\ call # NoCall => call.job \in Values!Wanted(feature) /\ reported = {}
    /\ Working => Typed
    /\ Working /\ call.pc = "readback" =>
         call.then \notin {"readback", "done"} /\ (call.then = "forgotten" => feature = "stp" /\ call.expect = {call.job.value})
    /\ call.pc = "forgotten" /\ Looking => native = call.job.value
    /\ call.pc = "done" /\ Looking => Stood(call.job)
    /\ \A job \in reported : Stood(job)

LEMMA RemovalIsDefault ==
    ASSUME feature \in Values!Features, NEW job \in Values!Wanted(feature), job.remove
    PROVE  job.value = Values!Default(feature)
<1> DEFINE fit(v) == CASE feature = "lldp" -> v.value # 2
                       [] feature = "lag" -> v.members = v.enabled
                       [] feature = "igmpvlan" -> v.mode # 3
                       [] OTHER -> TRUE
<1>1. Values!Wanted(feature) =
         [value : {v \in Values!SettingsOf[feature] : fit(v)}, remove : {FALSE}]
           \union (IF feature \in Values!Parented
                   THEN {[value |-> Values!Default(feature), remove |-> TRUE]} ELSE {})
  BY DEF Values!Wanted
<1>. HIDE DEF fit
<1>2. job \notin [value : {v \in Values!SettingsOf[feature] : fit(v)}, remove : {FALSE}]
  OBVIOUS
<1>3. CASE feature \in Values!Parented
  <2>. DEFINE gone == [value |-> Values!Default(feature), remove |-> TRUE]
  <2>1. gone.value = Values!Default(feature) OBVIOUS
  <2>. HIDE DEF gone
  <2>2. job \in [value : {v \in Values!SettingsOf[feature] : fit(v)}, remove : {FALSE}] \union {gone}
    BY <1>1, <1>3 DEF gone
  <2> QED BY <1>2, <2>1, <2>2
<1>4. CASE feature \notin Values!Parented
  BY <1>1, <1>2, <1>4
<1> QED BY <1>3, <1>4

LEMMA StoodSame ==
    ASSUME UNCHANGED <<feature, native>>
    PROVE  \A job : Stood(job)' <=> Stood(job)
BY DEF Stood, Values!Default, Values!Fields, Values!Agrees

LEMMA ShowsInv ==
    ASSUME ValuesInv, LookedInv', UNCHANGED <<feature, reported>>, native' \in Raw \union {Gone},
           call # NoCall, call' # NoCall, call'.job = call.job,
           Working' => Typed',
           call'.pc = "readback" =>
             call'.then \notin {"readback", "done"} /\ (call'.then = "forgotten" => feature = "stp" /\ call'.expect = {call.job.value}),
           call'.pc = "forgotten" /\ Looking' => native' = call.job.value,
           call'.pc = "done" /\ Looking' => Stood(call.job)'
    PROVE  ValuesInv'
BY DEF ValuesInv, Raw

LEMMA ValuesInitHolds == ASSUME Values!Init PROVE ValuesInv
<1>1. /\ feature \in Values!Features /\ call = NoCall /\ reported = {}
      /\ native \in Values!SettingsOf[feature] \union {Gone}
  BY ValuesSame DEF Values!Init
<1>2. Values!SettingsOf[feature] \subseteq Raw BY <1>1, FieldsAre DEF Raw
<1>3. unowned \in Rest
  <2>1. (feature \in {"dscptrust", "storm"}) \in BOOLEAN OBVIOUS
  <2>2. [Untouched EXCEPT !.near = feature \in {"dscptrust", "storm"}] \in Rest
    BY <2>1, UntouchedRests, Zenon
  <2> QED BY <2>2, ValuesSame, UntouchedRests, Zenon DEF Values!Init
<1> QED BY <1>1, <1>2, <1>3, NothingCalled DEF ValuesInv, LookedInv, Shaped, Looking, Working

LEMMA StartSteps ==
    ASSUME ValuesInv, Values!Start
    PROVE  ValuesInv'
<1> DEFINE next == IF native = Gone THEN (IF Values!NothingLeft THEN "done" ELSE "failed")
                   ELSE IF Values!Unwritable THEN "refused"
                   ELSE IF Values!Agrees(native, Values!want) /\ ~(feature = "stp" /\ call.job.remove)
                   THEN "done"
                   ELSE IF feature = "lag" /\ native.members = 2 THEN "refused"
                   ELSE "start"
<1>1. call.pc = "read" /\ call # NoCall /\ DOMAIN call = Fields
  BY AtIs, NothingCalled DEF Values!Start, ValuesInv, LookedInv, Shaped
<1>2. CASE Values!TimesOut
  <2>1. /\ Pends /\ call'.pc = "failed" /\ UNCHANGED <<native, reported>>
    BY <1>1, <1>2, ValuesSame, TimesOutIs DEF TimesOut, switch
  <2>2. LookedInv' BY <2>1, PendsKeeps DEF ValuesInv
  <2>3. call' # NoCall BY <2>1, NothingCalled DEF Pends
  <2> QED BY <1>1, <2>1, <2>2, <2>3 DEF ValuesInv, Pends, Working, Raw
<1>3. CASE Values!Continue([Values!Observed EXCEPT !.pc = next])
  <2>1. /\ DOMAIN Values!Observed = Fields /\ Values!Observed.job = call.job
        /\ Values!Observed.seen = native /\ Values!Observed.before = native
        /\ Values!Observed.others = Values!Preserved
    BY <1>1 DEF Values!Observed, Fields
  <2>2. call' = [Values!Observed EXCEPT !.pc = next] /\ UNCHANGED <<feature, native, unowned, reported>>
    BY <1>3, ValuesSame, ContinueIs
  <2>3. /\ DOMAIN call' = Fields /\ call'.job = call.job /\ call'.pc = next
        /\ call'.seen = native /\ call'.before = native /\ call'.others = Values!Preserved
    BY <2>1, <2>2 DEF Fields
  <2>. HIDE DEF next
  <2>4. LookedInv'
    BY <2>2, <2>3, LooksKeeps, ValuesSame, PreservedHas DEF Looks, Accounted, ValuesInv, LookedInv
  <2>5. call' # NoCall BY <2>3, NothingCalled
  <2>6. next \in {"done", "failed", "refused", "start"} BY DEF next
  <2>7. next = "start" => native # Gone BY DEF next
  <2>8. next = "done" => Stood(call.job)
    <3>1. CASE native = Gone
      <4>1. next = "done" => Values!NothingLeft BY <3>1 DEF next
      <4> QED BY <1>1, <3>1, <4>1, RemovalIsDefault DEF Values!NothingLeft, Stood, ValuesInv, Values!want
    <3>2. CASE native # Gone
      BY <3>2 DEF next, Stood, Values!want
    <3> QED BY <3>1, <3>2
  <2>9. Working' => Typed'
    BY <1>1, <2>2, <2>3, <2>6, <2>7 DEF Working, Typed, ValuesInv, Raw
  <2>10. call'.pc = "done" => Stood(call.job)'
    BY <2>2, <2>3, <2>8, StoodSame
  <2> QED BY <1>1, <2>2, <2>3, <2>4, <2>5, <2>6, <2>9, <2>10, ShowsInv DEF ValuesInv, Raw
<1> QED BY <1>2, <1>3 DEF Values!Start

LEMMA ProgressHolds == ASSUME ValuesInv, Typed, call # NoCall, Progress PROVE ValuesInv'
<1>1. LookedInv' /\ DOMAIN call' = Fields /\ call'.job = call.job
  BY MovesKeeps, PendsKeeps DEF Progress, ValuesInv, Moves, Pends
<1>2. call' # NoCall BY <1>1, NothingCalled
<1>3. call'.pc \notin {"done", "forgotten"} BY DEF Progress, Pends, Unlooked
<1>4. call'.pc = "readback" => call'.then \notin {"readback", "done", "forgotten"} BY DEF Progress
<1>5. Typed' BY <1>1 DEF Typed, Progress, Raw
<1> QED BY <1>1, <1>2, <1>3, <1>4, <1>5, ShowsInv DEF Progress

LEMMA CompletesHolds == ASSUME ValuesInv, Typed, call # NoCall, Completes PROVE ValuesInv'
<1>1. LookedInv' /\ DOMAIN call' = Fields /\ call'.job = call.job
  BY MovesKeeps DEF Completes, ValuesInv, Moves
<1>2. call' # NoCall BY <1>1, NothingCalled
<1>3. UNCHANGED <<feature, native, reported>> /\ native \in Raw BY DEF Completes, Moves, Typed
<1>4. Looking' => Stood(call.job)'
  <2>1. Gone \notin Raw BY FieldsAre, FeatureCallsAssumption DEF Typed, Raw
  <2>2. Looking' => Looking BY DEF Looking, Completes, Moves
  <2>3. Looking => Stood(call.job) BY <1>3, <2>1 DEF Stood, Completes
  <2> QED BY <1>1, <1>3, <2>2, <2>3, StoodSame
<1>5. call'.pc = "done" BY DEF Completes
<1>6. ~Working' BY <1>5 DEF Working
<1> QED BY <1>1, <1>2, <1>3, <1>4, <1>5, <1>6, ShowsInv

LEMMA ForgetsHolds == ASSUME ValuesInv, Typed, call # NoCall, Forgets PROVE ValuesInv'
<1>1. LookedInv' /\ DOMAIN call' = Fields /\ call'.job = call.job
  BY PendsKeeps DEF Forgets, Pends, ValuesInv
<1>2. call' # NoCall BY <1>1, NothingCalled
<1>3. Typed' BY <1>1 DEF Typed, Forgets, Raw
<1> QED BY <1>1, <1>2, <1>3, ShowsInv DEF Forgets

LEMMA ReadbackHolds == ASSUME ValuesInv, Values!Readback PROVE ValuesInv'
<1>1. /\ call.pc = "readback" /\ call # NoCall /\ DOMAIN call = Fields /\ Typed
      /\ Readback
  BY ValuesSame, NothingCalled DEF Readback, At, ValuesInv, LookedInv, Shaped, Working
<1>2. UNCHANGED <<feature, native, reported>>
  BY <1>1 DEF Readback, Faulty, Sound, switch
<1>3. /\ LookedInv' /\ DOMAIN call' = Fields /\ call'.job = call.job
  BY <1>1, ReadbackIs, PendsKeeps, LooksKeeps DEF Pends, Looks, ValuesInv
<1>4. call' # NoCall BY <1>3, NothingCalled
<1>5. CASE call'.pc = "failed"
  BY <1>1, <1>2, <1>3, <1>4, <1>5, ShowsInv DEF Working, Typed
<1>6. CASE Looks /\ call'.pc = call.then /\ Confirmed
  <2>1. call'.seen = native /\ call'.before = call.before
    BY <1>1, <1>6, NothingCalled DEF Readback, Fail, Fields, Looks, Faulty
  <2>2. Typed' BY <1>1, <1>2, <1>3, <2>1 DEF Typed, Raw
  <2>3. call.then \notin {"readback", "done"} /\ (call.then = "forgotten" => native = call.job.value)
    BY <1>1, <1>6 DEF ValuesInv, Working, Confirmed
  <2> QED BY <1>1, <1>2, <1>3, <1>4, <1>6, <2>2, <2>3, ShowsInv DEF Typed
<1> QED BY <1>1, <1>5, <1>6, ReadbackIs

LEMMA EndHolds == ASSUME ValuesInv, Values!Return \/ Values!Refuse PROVE ValuesInv'
<1>1. /\ LookedInv' /\ call' = NoCall /\ UNCHANGED <<feature, native, cache, unowned>>
      /\ reported' = {} \/ (reported' = {call.job} /\ Succeeds /\ call.fresh)
  BY ValuesSame, EndIs DEF ValuesInv
<1>2. \A job \in reported' : Stood(job)
  <2>1. Succeeds /\ call.fresh => Looking /\ call.pc = "done"
    BY NothingCalled DEF Succeeds, Looking, At, Unlooked
  <2> QED BY <1>1, <2>1 DEF ValuesInv
<1>3. \A job \in reported' : Stood(job)' BY <1>1, <1>2, StoodSame
<1> QED BY <1>1, <1>3, NothingCalled DEF ValuesInv, Working, Looking, Raw

LEMMA BeginHolds ==
    ASSUME ValuesInv, NEW job \in Values!Wanted(feature), Values!Begin(job)
    PROVE  ValuesInv'
<1>1. /\ LookedInv' /\ reported' = {} /\ call' # NoCall
      /\ UNCHANGED <<feature, native, cache, unowned>> /\ call'.pc = "read" /\ call'.job = job
  BY ValuesSame, BeginIs DEF ValuesInv
<1> QED BY <1>1 DEF ValuesInv, Working, Looking, Raw, Unlooked

LEMMA SyncHolds == ASSUME ValuesInv, Values!CacheSyncs PROVE ValuesInv'
<1>1. UNCHANGED <<feature, native, unowned, call, reported>>
  BY DEF Values!CacheSyncs
<1> QED BY <1>1, StoodSame DEF ValuesInv, LookedInv, Shaped, Looking, Unlooked, Accounted, Working, Typed, Raw

LEMMA OutsideHolds == ASSUME ValuesInv, Values!Outside PROVE ValuesInv'
<1> DEFINE S == {s \in Values!SettingsOf[feature] :
                   native # Gone /\ \E x \in DOMAIN s : s = Values!Carried([native EXCEPT ![x] = s[x]])}
<1>1. Interference(S) BY ValuesSame DEF Values!Outside
<1>2. S \subseteq Raw /\ (native = Gone => S = {})
  BY FieldsAre DEF ValuesInv, Raw
<1>. HIDE DEF S
<1>3. /\ LookedInv' /\ reported' = {} /\ UNCHANGED feature
      /\ native' = native \/ native' \in S
      /\ \/ call = NoCall /\ call' = NoCall
         \/ /\ call # NoCall /\ call' # NoCall
            /\ \A f \in Fields \ {"quiet", "fresh"} : call'[f] = call[f]
            /\ ~call'.fresh
  BY <1>1, InterferenceIs DEF ValuesInv
<1>4. CASE call = NoCall
  BY <1>2, <1>3, <1>4 DEF ValuesInv, Working, Looking, Raw
<1>5. CASE call # NoCall
  <2>1. /\ call'.pc = call.pc /\ call'.job = call.job /\ call'.seen = call.seen
        /\ call'.before = call.before /\ call'.then = call.then /\ call'.expect = call.expect
        /\ call' # NoCall /\ ~Looking'
    BY <1>3, <1>5 DEF Fields, Looking
  <2>2. DOMAIN call' = Fields BY <1>3, <2>1 DEF LookedInv, Shaped
  <2>3. native' \in Raw \union {Gone} /\ (native \in Raw => native' \in Raw)
    BY <1>2, <1>3 DEF ValuesInv, Raw
  <2>4. Working' => Typed'
    BY <1>3, <1>5, <2>1, <2>2, <2>3 DEF ValuesInv, Working, Typed, Raw
  <2>5. reported' = reported BY <1>3, <1>5 DEF ValuesInv
  <2>6. Working' => Working BY <1>5, <2>1 DEF Working
  <2> QED BY <1>3, <1>5, <2>1, <2>3, <2>4, <2>5, <2>6, ShowsInv DEF ValuesInv, Working
<1> QED BY <1>4, <1>5

LEMMA RequestsWork ==
    ASSUME \/ Values!Check \/ Values!DscpTrust \/ Values!StpInterface \/ Values!Jumbo
           \/ Values!LldpPort \/ Values!LldpGlobal \/ Values!Poe \/ Values!Ethernet
           \/ Values!LagInterface \/ Values!VoiceVlan \/ Values!ProtectedPort
           \/ Values!IgmpGlobal \/ Values!IgmpVlan \/ Values!StormControl
    PROVE  Working
<1>1. \A label : Values!At(label) /\ label \notin {"idle", "read", "done", "failed", "refused"} => Working
  BY AtIs, NothingCalled DEF Working
<1>2. Values!ReplaceLeaf => Working BY <1>1 DEF Values!ReplaceLeaf
<1>3. \A leaves : Values!Replace(leaves) => Working BY <1>1 DEF Values!Replace
<1>4. Values!PrimeAndFollow => Working BY <1>1 DEF Values!PrimeAndFollow
<1>5. Values!StormControl => Working
  BY <1>1 DEF Values!StormControl, Values!StormSeed, Values!StormReset, Values!StormDrop,
              Values!StormInvalidate, Values!StormWrite
<1>6. Values!LagInterface => Working BY <1>1 DEF Values!LagInterface
<1>7. Values!StpInterface => Working BY <1>1 DEF Values!StpInterface
<1>8. Values!Ethernet \/ Values!Poe \/ Values!DscpTrust \/ Values!Check => Working
  BY <1>1 DEF Values!Ethernet, Values!Poe, Values!DscpTrust, Values!Check
<1>9. Values!Jumbo => Working BY <1>1 DEF Values!Jumbo
<1>10. Values!LldpPort \/ Values!LldpGlobal => Working BY <1>4 DEF Values!LldpPort, Values!LldpGlobal
<1>11. Values!VoiceVlan \/ Values!ProtectedPort \/ Values!IgmpGlobal \/ Values!IgmpVlan => Working
  BY <1>2, <1>3 DEF Values!VoiceVlan, Values!ProtectedPort, Values!IgmpGlobal, Values!IgmpVlan
<1> QED BY <1>5, <1>6, <1>7, <1>8, <1>9, <1>10, <1>11

LEMMA ValuesStutter == ASSUME ValuesInv, UNCHANGED vars PROVE ValuesInv'
<1>1. UNCHANGED <<feature, native, unowned, call, reported>> BY DEF vars, switch
<1> QED BY <1>1, StoodSame DEF ValuesInv, LookedInv, Shaped, Looking, Unlooked, Accounted, Working, Typed, Raw

LEMMA ValuesNextHolds == ASSUME ValuesInv, Values!Next PROVE ValuesInv'
<1>1. CASE \E job \in Values!Wanted(feature) : Values!Begin(job)
  BY <1>1, BeginHolds
<1>2. CASE Values!Apply
  <2>1. CASE Values!Start BY <2>1, StartSteps
  <2>2. CASE Values!Refuse \/ Values!Return BY <2>2, EndHolds
  <2>3. CASE Values!Readback BY <2>3, ReadbackHolds
  <2>4. CASE \/ Values!Check \/ Values!DscpTrust \/ Values!StpInterface \/ Values!Jumbo
             \/ Values!LldpPort \/ Values!LldpGlobal \/ Values!Poe \/ Values!Ethernet
             \/ Values!LagInterface \/ Values!VoiceVlan \/ Values!ProtectedPort
             \/ Values!IgmpGlobal \/ Values!IgmpVlan \/ Values!StormControl
    <3>1. Typed /\ call # NoCall BY <2>4, RequestsWork DEF ValuesInv, Working
    <3>2. call.pc = "forgotten" /\ Looking => native = call.job.value /\ LookedInv
      BY DEF ValuesInv
    <3> QED BY <2>4, <3>1, <3>2, RequestSteps, ProgressHolds, CompletesHolds, ForgetsHolds DEF ValuesInv
  <2> QED BY <1>2, <2>1, <2>2, <2>3, <2>4 DEF Values!Apply
<1>3. CASE Values!CacheSyncs BY <1>3, SyncHolds
<1>4. CASE Values!Outside BY <1>4, OutsideHolds
<1>5. CASE Values!Finished
  <2>1. UNCHANGED vars BY <1>5, ValuesSame DEF Finished
  <2> QED BY <2>1, ValuesStutter
<1> QED BY <1>1, <1>2, <1>3, <1>4, <1>5 DEF Values!Next

-----------------------------------------------------------------------------
(* Entries: what a call promises itself of a request, and finds.           *)

\* Removals that wait for RESTCONF's copy, too.
Awaited == {"ve", "stpvlan", "med"}

Good(s, job) == IF job.remove THEN ~Listed!Mine(s.entry) ELSE s.entry = job.value
Settled(job) == Good(native, job) /\ (job.remove /\ feature \in Awaited => cache.listed = {})
Promise(expect, job) ==
    /\ expect # {} /\ \A s \in expect : Good(s, job)
    /\ job.remove => feature \notin Awaited

EntryShaped(s) == DOMAIN s = {"entry", "parent", "child"} /\ (feature \in Listed!Childless => ~s.child)
ListShaped(c) == DOMAIN c = {"listed", "shape"}

ListedInv ==
    /\ feature \in Listed!Features /\ EntryShaped(native) /\ ListShaped(cache)
    /\ LookedInv
    /\ call # NoCall =>
         /\ reported = {} /\ call.then # "act"
         /\ call.then \in {"done", "check"} => Promise(call.expect, call.job)
    /\ Looking /\ call.pc \in {"done", "check"} => Settled(call.job)
    /\ Looking /\ call.pc = "act" => Listed!Agree(native.entry, cache.listed)
    /\ \A job \in reported : Settled(job)

\* What follows a request whose outcome completes the call.
Fit(label, expected) ==
    label # "act" /\ (label \in {"done", "check"} => Promise(expected, call.job))

\* One step of a call.
ListedStep ==
    /\ UNCHANGED <<feature, reported>> /\ EntryShaped(native)' /\ ListShaped(cache)'
    /\ Moves \/ Pends \/ Looks
    /\ UNCHANGED <<call.then, call.expect>> \/ Fit(call'.then, call'.expect)
    /\ Looking' /\ call'.pc \in {"done", "check"} => Settled(call.job)'
    /\ Looking' /\ call'.pc = "act" => Listed!Agree(native.entry, cache.listed)'

LEMMA ListedStepHolds == ASSUME ListedInv, call # NoCall, ListedStep PROVE ListedInv'
<1>1. LookedInv' /\ DOMAIN call' = Fields /\ call'.job = call.job
  BY MovesKeeps, PendsKeeps, LooksKeeps DEF ListedStep, ListedInv, Moves, Pends, Looks
<1>2. call' # NoCall BY <1>1, NothingCalled
<1>3. /\ call'.then # "act"
      /\ call'.then \in {"done", "check"} => Promise(call'.expect, call.job)
  BY DEF ListedStep, ListedInv, Fit
<1>4. Promise(call'.expect, call.job) => Promise(call.expect, call.job)'
  BY <1>1 DEF Promise, Good, Listed!Mine, ListedStep
<1>5. reported' = {} BY DEF ListedStep, ListedInv
<1> QED BY <1>1, <1>2, <1>3, <1>4, <1>5 DEF ListedStep, ListedInv

LEMMA NotMine == ~Listed!Mine(None)
BY FeatureCallsAssumption DEF Listed!Mine

LEMMA ListingShaped ==
    ASSUME ListedInv, NEW values
    PROVE  ListShaped(Listed!Listing(values)) /\ (feature # "address" => Listed!Listing(values).listed = values)
BY DEF ListedInv, ListShaped, Listed!Listing

LEMMA EntriesShaped ==
    ASSUME ListedInv
    PROVE  /\ \A v : EntryShaped(Listed!With(v)) /\ Listed!With(v).entry = v
           /\ EntryShaped(Listed!Erased) /\ Listed!Erased.entry = None
BY DEF ListedInv, EntryShaped, Listed!With, Listed!Erased

LEMMA ListedRequests ==
    ASSUME ListedInv, DOMAIN call = Fields, NEW S, \A s \in S : EntryShaped(s),
           NEW x, ListShaped(x), NEW label, NEW expected, Request(S, x, label, expected),
           Fit(label, expected)
    PROVE  ListedStep
<1>1. /\ Pends /\ UNCHANGED reported
      /\ native' \in S \union {native} /\ cache' \in {cache, x}
      /\ call'.pc = "readback" /\ call'.then = label /\ call'.expect = expected
  BY RequestIs
<1>2. UNCHANGED feature BY <1>1 DEF Pends
<1>3. EntryShaped(native)' /\ ListShaped(cache)'
  BY <1>1, <1>2 DEF ListedInv, EntryShaped, ListShaped, Listed!Childless
<1> QED BY <1>1, <1>2, <1>3 DEF ListedStep, Fit

LEMMA IgnoredSteps ==
    ASSUME ListedInv, DOMAIN call = Fields, NEW label, NEW expected, Listed!Ignored(label, expected),
           Fit(label, expected)
    PROVE  ListedStep
<1> DEFINE c == [call EXCEPT !.pc = "readback", !.then = label, !.expect = expected, !.failed = TRUE]
<1>1. CASE Listed!Request({native}, cache, label, expected)
  <2>1. \A s \in {native} : EntryShaped(s) BY DEF ListedInv
  <2> QED BY <1>1, <2>1, ListedSame, ListedRequests DEF ListedInv
<1>2. CASE Listed!Send({native}, cache, c)
  <2>1. /\ DOMAIN c = Fields /\ c.pc = "readback" /\ c.then = label /\ c.expect = expected
        /\ c.job = call.job
    BY DEF Fields
  <2>2. Send({native}, cache, c) BY <1>2, ListedSame
  <2>. HIDE DEF c
  <2>3. /\ UNCHANGED <<feature, reported, native, cache>> /\ DOMAIN call' = Fields
        /\ unowned' \in Rest \union {unowned}
        /\ call'.pc = "readback" /\ call'.then = label /\ call'.expect = expected /\ call'.job = call.job
    BY <2>1, <2>2, SendIs DEF Fields
  <2>4. Pends BY <2>3 DEF Pends, Unlooked
  <2>5. EntryShaped(native)' /\ ListShaped(cache)'
    BY <2>3 DEF ListedInv, EntryShaped, ListShaped, Listed!Childless
  <2> QED BY <2>3, <2>4, <2>5 DEF ListedStep, Fit
<1> QED BY <1>1, <1>2 DEF Listed!Ignored

LEMMA PutSteps ==
    ASSUME ListedInv, DOMAIN call = Fields, NEW value, NEW label, NEW expected,
           Listed!Put(value, label, expected) \/ Listed!Post(value, label, expected), Fit(label, expected)
    PROVE  ListedStep
<1>1. ASSUME Listed!Put(value, label, expected) PROVE ListedStep
  <2>1. PICK S, x : /\ Request(S, Listed!Listing(x), label, expected)
                    /\ S \subseteq {Listed!With(value), native}
    BY <1>1, ListedSame DEF Listed!Put
  <2>2. \A s \in S : EntryShaped(s) BY <2>1, EntriesShaped DEF ListedInv
  <2> QED BY <2>1, <2>2, ListingShaped, ListedRequests
<1> QED BY <1>1, IgnoredSteps DEF Listed!Post

LEMMA ListedDeleteSteps ==
    ASSUME ListedInv, DOMAIN call = Fields, NEW S, \A s \in S : EntryShaped(s),
           NEW label, NEW expected, Listed!Delete(S, label, expected), Fit(label, expected)
    PROVE  ListedStep
<1>1. CASE Listed!Request(S, Listed!Listing({}), label, expected)
  BY <1>1, ListedSame, ListingShaped, ListedRequests
<1> QED BY <1>1, IgnoredSteps DEF Listed!Delete

LEMMA ListedGotoSteps ==
    ASSUME ListedInv, DOMAIN call = Fields, NEW label, Listed!Goto(label), call.pc \notin Unlooked,
           label # "act", label \in {"done", "check"} /\ Looking => Settled(call.job)
    PROVE  ListedStep
<1>1. /\ Moves /\ call'.pc = label /\ UNCHANGED <<feature, native, cache, reported>>
      /\ call' = [call EXCEPT !.pc = label]
  BY ListedSame, GotoIs
<1>2. UNCHANGED <<call.then, call.expect>> BY <1>1 DEF Fields
<1>3. Looking' => Looking BY <1>1, NothingCalled DEF Looking, Moves
<1>4. Settled(call.job) => Settled(call.job)'
  BY <1>1 DEF Settled, Good, Listed!Mine, Moves
<1> QED BY <1>1, <1>2, <1>3, <1>4 DEF ListedStep, ListedInv, EntryShaped, ListShaped, Listed!Childless

LEMMA ListedContinueSteps ==
    ASSUME ListedInv, DOMAIN call = Fields, NEW c, Listed!Continue(c), DOMAIN c = Fields,
           call.pc \notin Unlooked,
           \A f \in {"job", "seen", "others", "fresh", "failed", "then", "expect"} : c[f] = call[f],
           c.pc \notin {"done", "check", "act"}
    PROVE  ListedStep
<1>1. call' = c /\ UNCHANGED <<feature, native, cache, unowned, reported>>
  BY ListedSame, ContinueIs
<1> QED BY <1>1 DEF ListedStep, Moves, ListedInv, EntryShaped, ListShaped, Listed!Childless

LEMMA ListedTimesOut ==
    ASSUME ListedInv, DOMAIN call = Fields, Listed!TimesOut
    PROVE  ListedStep
<1>1. /\ call' = [[call EXCEPT !.pc = "failed"] EXCEPT !.quiet = FALSE]
      /\ UNCHANGED <<feature, native, cache, reported>>
  BY ListedSame DEF TimesOut, Fail, Faulty, switch
<1>2. Pends /\ call'.pc = "failed" BY ListedSame, TimesOutIs
<1>3. UNCHANGED <<call.then, call.expect>> BY <1>1 DEF Fields
<1> QED BY <1>1, <1>2, <1>3 DEF ListedStep, ListedInv, EntryShaped, ListShaped, Listed!Childless

-----------------------------------------------------------------------------
(* Every action of every feature of Entries is such a step.                *)

LEMMA ListedAt ==
    \A label : Listed!At(label) =>
        /\ call.pc = label
        /\ label # "idle" => call # NoCall
        /\ label \in {"start", "act", "attached", "detach", "detached", "check"} => call.pc \notin Unlooked
        /\ label = "poll" /\ feature # "lag" => call.pc \notin Unlooked
BY ListedSame, NothingCalled DEF At, Unlooked

\* What the code knows is what is configured.
LEMMA ListedSees ==
    ASSUME ListedInv
    PROVE  /\ Listed!want = call.job.value /\ Listed!remove = call.job.remove
           /\ Looking => Listed!seen = native.entry
           /\ ~Listed!Differs /\ Looking => Good(native, call.job)
BY DEF ListedInv, LookedInv, Listed!want, Listed!remove, Listed!seen, Listed!Differs, Good

LEMMA WithIsGood ==
    ASSUME ListedInv, ~Listed!remove
    PROVE  Promise({Listed!With(Listed!want)}, call.job)
BY EntriesShaped DEF Promise, Good, Listed!want, Listed!remove

LEMMA ErasedIsGood ==
    ASSUME ListedInv, Listed!remove, feature \notin Awaited
    PROVE  Promise({Listed!Erased}, call.job)
BY EntriesShaped, NotMine DEF Promise, Good, Listed!remove

LEMMA CreateSteps ==
    ASSUME ListedInv, DOMAIN call = Fields, Listed!Create, ~Listed!remove
    PROVE  ListedStep
<1>1. Fit("done", {Listed!With(Listed!want)}) BY WithIsGood DEF Fit
<1>2. \/ Listed!Ignored("done", {Listed!With(Listed!want)})
      \/ Listed!Put(Listed!want, "done", {Listed!With(Listed!want)})
      \/ Listed!Post(Listed!want, "done", {Listed!With(Listed!want)})
  BY DEF Listed!Create
<1> QED BY <1>1, <1>2, IgnoredSteps, PutSteps

LEMMA OneRequestSteps ==
    ASSUME ListedInv, DOMAIN call = Fields, Listed!OneRequest, feature \notin Awaited
    PROVE  ListedStep
<1>1. call.pc = "start" /\ call # NoCall /\ call.pc \notin Unlooked
  BY ListedAt DEF Listed!OneRequest
<1>2. CASE ~Listed!Differs /\ Listed!Goto("done")
  <2>1. Looking => Settled(call.job) BY <1>2, ListedSees DEF Settled
  <2> QED BY <1>1, <1>2, <2>1, ListedGotoSteps
<1>3. CASE ~Listed!remove /\ Listed!Create
  BY <1>3, CreateSteps
<1>4. CASE Listed!remove /\ Listed!Delete({Listed!Erased}, "done", {Listed!Erased})
  BY <1>4, ErasedIsGood, EntriesShaped, ListedDeleteSteps DEF Fit
<1> QED BY <1>2, <1>3, <1>4 DEF Listed!OneRequest

LEMMA ObservationSteps ==
    ASSUME ListedInv, DOMAIN call = Fields, NEW c, Listed!Continue(c), DOMAIN c = Fields,
           \A f \in {"job", "then", "expect"} : c[f] = call[f],
           c.seen = native, ~c.failed => c.pc = "failed" \/ unowned \in c.others,
           c.pc \notin {"done", "check"},
           c.pc = "act" => Listed!Agree(native.entry, cache.listed)
    PROVE  ListedStep
<1>1. call' = c /\ UNCHANGED <<feature, native, cache, unowned, reported>>
  BY ListedSame, ContinueIs
<1>2. Looks BY <1>1 DEF Looks, Accounted
<1>3. EntryShaped(native)' /\ ListShaped(cache)'
  BY <1>1 DEF ListedInv, EntryShaped, ListShaped, Listed!Childless
<1>4. Listed!Agree(native.entry, cache.listed)' <=> Listed!Agree(native.entry, cache.listed)
  BY <1>1 DEF Listed!Agree
<1> QED BY <1>1, <1>2, <1>3, <1>4 DEF ListedStep

LEMMA VeSteps ==
    ASSUME ListedInv, DOMAIN call = Fields, Listed!RoutedInterface
    PROVE  ListedStep
<1>0. feature = "ve" BY DEF Listed!RoutedInterface
<1>f. Fit("poll", {}) BY DEF Fit
<1>1. CASE Listed!VeWrite
  <2>1. call.pc = "start" /\ call # NoCall /\ call.pc \notin Unlooked /\ ~Listed!remove
    BY <1>1, ListedAt DEF Listed!VeWrite
  <2>2. CASE ~Listed!Differs /\ Listed!Goto("done")
    <3>1. Looking => Settled(call.job) BY <2>1, <2>2, ListedSees DEF Settled
    <3> QED BY <2>1, <2>2, <3>1, ListedGotoSteps
  <2>3. CASE Listed!Post(Listed!want, "poll", {}) \/ Listed!Put(Listed!want, "poll", {})
    BY <1>f, <2>3, PutSteps
  <2>4. CASE Listed!Request({Listed!With(0)}, Listed!Listing({0}), "poll", {})
    <3>1. \A s \in {Listed!With(0)} : EntryShaped(s) BY EntriesShaped
    <3> QED BY <1>f, <2>4, <3>1, ListingShaped, ListedSame, ListedRequests
  <2>5. CASE unowned \in call.others /\ Listed!Continue(Listed!Again)
    <3>1. /\ DOMAIN Listed!Again = Fields /\ Listed!Again.seen = native /\ Listed!Again.pc = call.pc
          /\ Listed!Again.others = call.others
          /\ \A f \in {"job", "then", "expect"} : Listed!Again[f] = call[f]
      BY DEF Listed!Again, Fields
    <3> QED BY <2>1, <2>5, <3>1, ObservationSteps
  <2>6. CASE Listed!Continue(Listed!Fail)
    <3>1. Goto("failed") BY <2>6, ListedSame DEF Goto, Fail
    <3> QED BY <2>1, <3>1, ListedSame, ListedGotoSteps
  <2>7. CASE Listed!TimesOut
    BY <2>7, ListedTimesOut
  <2> QED BY <1>1, <2>2, <2>3, <2>4, <2>5, <2>6, <2>7 DEF Listed!VeWrite
<1>2. CASE Listed!VeRemove
  <2>1. CASE Listed!At("start") /\ Listed!Continue([call EXCEPT !.pc = "readback", !.then = "poll", !.expect = {}])
    <3>1. /\ call' = [call EXCEPT !.pc = "readback", !.then = "poll", !.expect = {}]
          /\ UNCHANGED <<feature, native, cache, unowned, reported>>
      BY <2>1, ListedSame, ContinueIs
    <3>2. /\ DOMAIN call' = Fields /\ call'.pc = "readback" /\ call'.then = "poll" /\ call'.expect = {}
          /\ call'.job = call.job
      BY <3>1 DEF Fields
    <3>3. Pends BY <3>1, <3>2 DEF Pends, Unlooked
    <3> QED BY <1>f, <3>1, <3>2, <3>3 DEF ListedStep, ListedInv, EntryShaped, ListShaped, Listed!Childless
  <2>2. CASE Listed!Delete({Listed!Erased}, "poll", {})
    <3>1. \A s \in {Listed!Erased} : EntryShaped(s) BY EntriesShaped
    <3> QED BY <1>f, <2>2, <3>1, ListedDeleteSteps
  <2> QED BY <1>2, <2>1, <2>2 DEF Listed!VeRemove
<1>3. CASE Listed!VePoll
  <2>1. call.pc = "poll" /\ call # NoCall /\ call.pc \notin Unlooked
    BY <1>0, <1>3, ListedAt DEF Listed!VePoll
  <2>2. CASE Listed!Goto("done") /\ IF Listed!remove THEN Listed!BothAbsent ELSE Listed!seen = Listed!want
    <3>1. Looking => Settled(call.job)
      BY <1>0, <2>2, ListedSees, NotMine DEF Settled, Good, Listed!BothAbsent
    <3> QED BY <2>1, <2>2, <3>1, ListedGotoSteps
  <2>3. CASE Listed!Goto("readback")
    BY <2>1, <2>3, ListedGotoSteps
  <2>4. CASE Listed!TimesOut
    BY <2>4, ListedTimesOut
  <2> QED BY <1>3, <2>2, <2>3, <2>4 DEF Listed!VePoll
<1> QED BY <1>1, <1>2, <1>3 DEF Listed!RoutedInterface

\* Spanning tree of a VLAN looks at both views before it acts.
LEMMA StpVlanSteps ==
    ASSUME ListedInv, DOMAIN call = Fields, Listed!VlanSpanningTree
    PROVE  ListedStep
<1>0. feature = "stpvlan" BY DEF Listed!VlanSpanningTree
<1>1. CASE Listed!StpBegin
  <2>1. call.pc = "start" /\ call # NoCall /\ call.pc \notin Unlooked
    BY <1>1, ListedAt DEF Listed!StpBegin
  <2>2. CASE ~Listed!remove /\ ~Listed!Differs /\ Listed!Goto("done")
    <3>1. Looking => Settled(call.job) BY <2>2, ListedSees DEF Settled
    <3> QED BY <2>1, <2>2, <3>1, ListedGotoSteps
  <2>3. CASE Listed!Goto("wait")
    BY <2>1, <2>3, ListedGotoSteps
  <2> QED BY <1>1, <2>2, <2>3 DEF Listed!StpBegin
<1>2. CASE Listed!StpWait
  <2>1. call.pc = "wait" BY <1>2, ListedAt DEF Listed!StpWait
  <2>2. CASE Listed!ViewsAgree /\ Listed!Continue([Listed!Observed EXCEPT !.pc = "act"])
    <3>. DEFINE c == [Listed!Observed EXCEPT !.pc = "act"]
    <3>1. /\ DOMAIN c = Fields /\ c.pc = "act" /\ c.seen = native /\ unowned \in c.others
          /\ \A f \in {"job", "then", "expect"} : c[f] = call[f]
      BY ListedSame, PreservedHas DEF Listed!Observed, Fields, ListedInv, LookedInv
    <3>. HIDE DEF c
    <3> QED BY <2>2, <3>1, ObservationSteps DEF c, Listed!ViewsAgree
  <2>3. CASE /\ Listed!ViewsAgree /\ unowned \in call.others
             /\ Listed!Continue([Listed!Again EXCEPT !.pc = "act"])
    <3>. DEFINE c == [Listed!Again EXCEPT !.pc = "act"]
    <3>1. /\ DOMAIN c = Fields /\ c.pc = "act" /\ c.seen = native /\ c.others = call.others
          /\ \A f \in {"job", "then", "expect"} : c[f] = call[f]
      BY DEF Listed!Again, Fields
    <3>. HIDE DEF c
    <3> QED BY <2>3, <3>1, ObservationSteps DEF c, Listed!ViewsAgree
  <2>4. CASE Listed!Continue([Listed!Fail EXCEPT !.seen = native, !.fresh = TRUE])
    <3>. DEFINE c == [Listed!Fail EXCEPT !.seen = native, !.fresh = TRUE]
    <3>1. /\ DOMAIN c = Fields /\ c.pc = "failed" /\ c.seen = native
          /\ \A f \in {"job", "then", "expect"} : c[f] = call[f]
      BY ListedSame DEF Fail, Fields
    <3>. HIDE DEF c
    <3> QED BY <2>4, <3>1, ObservationSteps DEF c
  <2>5. CASE Listed!TimesOut
    BY <2>5, ListedTimesOut
  <2> QED BY <1>2, <2>2, <2>3, <2>4, <2>5 DEF Listed!StpWait
<1>3. CASE Listed!StpWrite
  <2>1. call.pc = "act" /\ call # NoCall /\ call.pc \notin Unlooked /\ ~Listed!remove
    BY <1>3, ListedAt DEF Listed!StpWrite
  <2>2. CASE ~Listed!Differs /\ Listed!Goto("done")
    <3>1. Looking => Settled(call.job) BY <2>1, <2>2, ListedSees DEF Settled
    <3> QED BY <2>1, <2>2, <3>1, ListedGotoSteps
  <2>3. CASE Listed!Goto("refused")
    BY <2>1, <2>3, ListedGotoSteps
  <2>4. CASE \/ Listed!Post(Listed!want, "done", {Listed!With(Listed!want)})
             \/ Listed!Put(Listed!want, "done", {Listed!With(Listed!want)})
    <3>1. Fit("done", {Listed!With(Listed!want)}) BY <2>1, WithIsGood DEF Fit
    <3> QED BY <2>4, <3>1, PutSteps
  <2> QED BY <1>3, <2>2, <2>3, <2>4 DEF Listed!StpWrite
<1>4. CASE Listed!StpRemove
  <2>1. call.pc = "act" /\ call # NoCall /\ call.pc \notin Unlooked /\ Listed!remove
    BY <1>4, ListedAt DEF Listed!StpRemove
  <2>2. CASE Listed!seen = None /\ Listed!Goto("done")
    <3>1. Looking => Settled(call.job)
      BY <2>1, <2>2, ListedSees, NotMine DEF Settled, Good, ListedInv, Listed!Agree
    <3> QED BY <2>1, <2>2, <3>1, ListedGotoSteps
  <2>3. CASE Listed!Goto("failed")
    BY <2>1, <2>3, ListedGotoSteps
  <2>4. CASE \E todo :
               LET c == [call EXCEPT !.pc = "wait", !.todo = todo]
               IN  \/ Listed!Send(IF native.entry = None THEN {native} ELSE Listed!StpLeft,
                                  Listed!Listing({}), c)
                   \/ Listed!Send({native}, cache, [c EXCEPT !.failed = TRUE])
    <3> PICK todo :
               LET c == [call EXCEPT !.pc = "wait", !.todo = todo]
               IN  \/ Listed!Send(IF native.entry = None THEN {native} ELSE Listed!StpLeft,
                                  Listed!Listing({}), c)
                   \/ Listed!Send({native}, cache, [c EXCEPT !.failed = TRUE])
      BY <2>4
    <3>1. PICK S, x, c :
            /\ Send(S, x, c) /\ \A s \in S : EntryShaped(s)
            /\ ListShaped(x) /\ DOMAIN c = Fields /\ c.pc = "wait"
            /\ c.job = call.job /\ c.then = call.then /\ c.expect = call.expect
      <4>. DEFINE c == [call EXCEPT !.pc = "wait", !.todo = todo]
      <4>. DEFINE d == [c EXCEPT !.failed = TRUE]
      <4>1. /\ DOMAIN c = Fields /\ c.pc = "wait"
            /\ c.job = call.job /\ c.then = call.then /\ c.expect = call.expect
            /\ DOMAIN d = Fields /\ d.pc = "wait"
            /\ d.job = call.job /\ d.then = call.then /\ d.expect = call.expect
        BY DEF Fields
      <4>2. \/ Send(IF native.entry = None THEN {native} ELSE Listed!StpLeft, Listed!Listing({}), c)
            \/ Send({native}, cache, d)
        BY ListedSame
      <4>. HIDE DEF c, d
      <4>3. \A s \in IF native.entry = None THEN {native} ELSE Listed!StpLeft : EntryShaped(s)
        BY EntriesShaped DEF ListedInv, Listed!StpLeft
      <4>4. \A s \in {native} : EntryShaped(s) BY DEF ListedInv
      <4>5. ListShaped(Listed!Listing({})) /\ ListShaped(cache) BY ListingShaped DEF ListedInv
      <4> QED BY <4>1, <4>2, <4>3, <4>4, <4>5
    <3>2. /\ UNCHANGED <<feature, reported>> /\ native' \in S \union {native} /\ cache' \in {cache, x}
          /\ unowned' \in Rest \union {unowned}
          /\ DOMAIN call' = Fields /\ call'.pc = "wait"
          /\ call'.job = call.job /\ UNCHANGED <<call.then, call.expect>>
      BY <3>1, SendIs DEF Fields
    <3>3. Pends BY <1>0, <3>2 DEF Pends, Unlooked
    <3>4. EntryShaped(native)' /\ ListShaped(cache)'
      BY <3>1, <3>2 DEF ListedInv, EntryShaped, ListShaped, Listed!Childless
    <3> QED BY <3>2, <3>3, <3>4 DEF ListedStep
  <2> QED BY <1>4, <2>2, <2>3, <2>4 DEF Listed!StpRemove
<1> QED BY <1>1, <1>2, <1>3, <1>4 DEF Listed!VlanSpanningTree

LEMMA MedSteps ==
    ASSUME ListedInv, DOMAIN call = Fields, Listed!MedPolicy
    PROVE  ListedStep
<1>0. feature = "med" BY DEF Listed!MedPolicy
<1>k. ASSUME call.pc \notin Unlooked, Listed!Continue(Listed!Fail) PROVE ListedStep
  <2>1. Goto("failed") BY <1>k, ListedSame DEF Goto, Fail
  <2> QED BY <1>k, <2>1, ListedSame, ListedGotoSteps
<1>c. ASSUME call.pc \notin Unlooked, NEW c, DOMAIN c = Fields, c.pc = "detach", Listed!Continue(c),
             \A f \in {"job", "seen", "others", "fresh", "failed", "then", "expect"} : c[f] = call[f]
      PROVE  ListedStep
  BY <1>c, ListedContinueSteps
<1>d. ASSUME call.pc \notin Unlooked, NEW cached, NEW todo,
             Listed!Continue([call EXCEPT !.pc = "detach", !.cached = cached, !.todo = todo])
      PROVE  ListedStep
  <2>. DEFINE c == [call EXCEPT !.pc = "detach", !.cached = cached, !.todo = todo]
  <2>1. /\ DOMAIN c = Fields /\ c.pc = "detach"
        /\ \A f \in {"job", "seen", "others", "fresh", "failed", "then", "expect"} : c[f] = call[f]
    BY DEF Fields
  <2>. HIDE DEF c
  <2> QED BY <1>c, <1>d, <2>1 DEF c
<1>e. ASSUME call.pc \notin Unlooked, NEW todo,
             Listed!Continue([call EXCEPT !.pc = "detach", !.todo = todo])
      PROVE  ListedStep
  <2>. DEFINE c == [call EXCEPT !.pc = "detach", !.todo = todo]
  <2>1. /\ DOMAIN c = Fields /\ c.pc = "detach"
        /\ \A f \in {"job", "seen", "others", "fresh", "failed", "then", "expect"} : c[f] = call[f]
    BY DEF Fields
  <2>. HIDE DEF c
  <2> QED BY <1>c, <1>e, <2>1 DEF c
<1>1. CASE Listed!MedBegin
  <2>1. call.pc = "start" /\ call # NoCall /\ call.pc \notin Unlooked
    <3>1. Listed!At("start") BY <1>1, Zenon DEF Listed!MedBegin
    <3> QED BY <3>1, ListedAt
  <2>2. CASE ~Listed!remove /\ ~Listed!Differs /\ Listed!Goto("done")
    <3>1. Looking => Settled(call.job) BY <2>2, ListedSees DEF Settled
    <3> QED BY <2>1, <2>2, <3>1, ListedGotoSteps
  <2>3. CASE Listed!Put(Listed!seen, "attached", {call.seen})
    BY <2>3, PutSteps DEF Fit
  <2>4. CASE \E todo : Listed!Continue([call EXCEPT !.pc = "detach", !.todo = todo])
    BY <1>e, <2>1, <2>4
  <2> QED BY <1>1, <2>2, <2>3, <2>4 DEF Listed!MedBegin
<1>2. CASE Listed!MedAttached
  <2>1. call.pc = "attached" /\ call # NoCall /\ call.pc \notin Unlooked
    <3>1. Listed!At("attached") BY <1>2, Zenon DEF Listed!MedAttached
    <3> QED BY <3>1, ListedAt
  <2>2. CASE \E todo : Listed!Continue([call EXCEPT !.pc = "detach", !.cached = cache, !.todo = todo])
    BY <1>d, <2>1, <2>2
  <2> QED BY <1>2, <1>k, <2>1, <2>2 DEF Listed!MedAttached
<1>3. CASE Listed!MedDetach
  <2>1. call.pc = "detach" /\ call # NoCall /\ call.pc \notin Unlooked
    BY <1>3, ListedAt DEF Listed!MedDetach
  <2>2. CASE \E todo : Listed!Continue([call EXCEPT !.todo = todo])
    <3> PICK todo : Listed!Continue([call EXCEPT !.todo = todo]) BY <2>2
    <3>. DEFINE c == [call EXCEPT !.todo = todo]
    <3>1. /\ DOMAIN c = Fields /\ c.pc = "detach"
          /\ \A f \in {"job", "seen", "others", "fresh", "failed", "then", "expect"} : c[f] = call[f]
      BY <2>1 DEF Fields
    <3>. HIDE DEF c
    <3> QED BY <1>c, <2>1, <3>1 DEF c
  <2>3. CASE \E l : Listed!Request({Listed!Erased}, Listed!Listing(l), "detached", {})
    BY <2>3, EntriesShaped, ListingShaped, ListedSame, ListedRequests DEF Fit
  <2>4. CASE Listed!Ignored("detached", {})
    BY <2>4, IgnoredSteps DEF Fit
  <2>5. CASE Listed!Goto("failed")
    BY <2>1, <2>5, ListedGotoSteps
  <2>6. CASE /\ Listed!seen = None /\ cache.listed = {} /\ Listed!remove
             /\ Listed!Goto("done")
    <3>1. Looking => Settled(call.job)
      BY <2>6, ListedSees, NotMine DEF Settled, Good
    <3> QED BY <2>1, <2>6, <3>1, ListedGotoSteps
  <2>7. CASE ~Listed!remove /\ Listed!Put(Listed!want, "check", {Listed!With(Listed!want)})
    <3>1. Fit("check", {Listed!With(Listed!want)}) BY <2>7, WithIsGood DEF Fit
    <3> QED BY <2>7, <3>1, PutSteps
  <2> QED BY <1>3, <2>2, <2>3, <2>4, <2>5, <2>6, <2>7 DEF Listed!MedDetach
<1>4. CASE Listed!MedDetached
  <2>1. call.pc = "detached" /\ call # NoCall /\ call.pc \notin Unlooked
    BY <1>4, ListedAt DEF Listed!MedDetached
  <2>2. CASE \E todo : Listed!Continue([call EXCEPT !.pc = "detach", !.cached = cache, !.todo = todo])
    BY <1>d, <2>1, <2>2
  <2> QED BY <1>4, <1>k, <2>1, <2>2 DEF Listed!MedDetached
<1>5. CASE Listed!MedCheck
  <2>1. call.pc = "check" /\ call # NoCall /\ call.pc \notin Unlooked
    BY <1>5, ListedAt DEF Listed!MedCheck
  <2>2. Looking => Settled(call.job) BY <2>1 DEF ListedInv
  <2>3. Listed!Goto("done") \/ Listed!Goto("failed")
    BY <1>5 DEF Listed!MedCheck, Listed!Accept
  <2> QED BY <2>1, <2>2, <2>3, ListedGotoSteps
<1> QED BY <1>1, <1>2, <1>3, <1>4, <1>5 DEF Listed!MedPolicy

-----------------------------------------------------------------------------
(* Entries: what a call reported stands, and leaves no listing behind.     *)

LEMMA SettledSame ==
    ASSUME UNCHANGED <<feature, native, cache>>
    PROVE  \A job : Settled(job)' <=> Settled(job)
BY DEF Settled, Good, Listed!Mine

LEMMA ListedUntouched ==
    ASSUME ListedInv, UNCHANGED <<feature, native, cache>>
    PROVE  EntryShaped(native)' /\ ListShaped(cache)'
BY DEF ListedInv, EntryShaped, ListShaped, Listed!Childless

LEMMA ListedInitHolds == ASSUME Listed!Init PROVE ListedInv
<1>1. /\ feature \in Listed!Features /\ call = NoCall /\ reported = {} /\ unowned \in Rest
      /\ native \in Listed!Settings(feature) /\ cache \in Listed!Copies(feature)
  BY ListedSame, UntouchedRests DEF Listed!Init
<1>2. EntryShaped(native)
  <2> DEFINE All == {Listed!Entry(v, p, c) : v \in Listed!ValuesOf[feature] \union {None},
                                            p \in BOOLEAN, c \in BOOLEAN}
  <2>1. native \in All /\ (feature \in Listed!Childless => ~native.child)
    BY <1>1 DEF Listed!Settings
  <2>2. DOMAIN native = {"entry", "parent", "child"}
    BY <2>1 DEF Listed!Entry
  <2> QED BY <2>1, <2>2 DEF EntryShaped
<1>3. ListShaped(cache)
  BY <1>1 DEF Listed!Copies, ListShaped
<1> QED BY <1>1, <1>2, <1>3, NothingCalled DEF ListedInv, LookedInv, Shaped, Looking

LEMMA ListedStart ==
    ASSUME ListedInv, DOMAIN call = Fields, Listed!Start
    PROVE  ListedStep
<1>1. CASE Listed!TimesOut BY <1>1, ListedTimesOut
<1>2. CASE Listed!Continue([Listed!Observed EXCEPT !.pc = "start"])
  <2>. DEFINE c == [Listed!Observed EXCEPT !.pc = "start"]
  <2>1. /\ DOMAIN c = Fields /\ c.pc = "start" /\ c.seen = native /\ unowned \in c.others
        /\ \A f \in {"job", "then", "expect"} : c[f] = call[f]
    BY ListedSame, PreservedHas DEF Listed!Observed, Fields, ListedInv, LookedInv
  <2>. HIDE DEF c
  <2> QED BY <1>2, <2>1, ObservationSteps DEF c
<1> QED BY <1>1, <1>2 DEF Listed!Start

LEMMA ListedReadback ==
    ASSUME ListedInv, DOMAIN call = Fields, call # NoCall, Listed!Readback
    PROVE  ListedStep
<1>1. Readback BY ListedSame
<1>2. /\ UNCHANGED <<feature, native, cache, reported>> /\ UNCHANGED <<call.then, call.expect>>
  BY <1>1 DEF Readback, Faulty, Sound, switch, Fail, Fields
<1>3. EntryShaped(native)' /\ ListShaped(cache)' BY <1>2, ListedUntouched
<1>4. CASE call'.pc = "failed"
  BY <1>1, <1>2, <1>3, <1>4, ReadbackIs DEF ListedStep
<1>5. CASE Looks /\ call'.pc = call.then /\ Confirmed
  <2>1. call.then \in {"done", "check"} => Settled(call.job)
    BY <1>5 DEF ListedInv, Promise, Settled, Confirmed
  <2>2. Settled(call.job) => Settled(call.job)' BY <1>2, <1>5, SettledSame DEF Looks
  <2>3. call'.pc # "act" BY <1>5 DEF ListedInv
  <2> QED BY <1>2, <1>3, <1>5, <2>1, <2>2, <2>3 DEF ListedStep
<1> QED BY <1>1, <1>4, <1>5, ReadbackIs

LEMMA ListedEnd == ASSUME ListedInv, Listed!Return \/ Listed!Refuse PROVE ListedInv'
<1>1. /\ LookedInv' /\ call' = NoCall /\ UNCHANGED <<feature, native, cache, unowned>>
      /\ reported' = {} \/ (reported' = {call.job} /\ Succeeds /\ call.fresh)
  BY ListedSame, EndIs DEF ListedInv
<1>2. \A job \in reported' : Settled(job)
  <2>1. Succeeds /\ call.fresh => Looking /\ call.pc = "done"
    BY NothingCalled DEF Succeeds, Looking, At, Unlooked
  <2> QED BY <1>1, <2>1 DEF ListedInv
<1>3. \A job \in reported' : Settled(job)' BY <1>1, <1>2, SettledSame
<1>4. EntryShaped(native)' /\ ListShaped(cache)' BY <1>1, ListedUntouched
<1> QED BY <1>1, <1>3, <1>4 DEF ListedInv, Looking

LEMMA ListedBegin ==
    ASSUME ListedInv, NEW job, Listed!Begin(job)
    PROVE  ListedInv'
<1>1. /\ LookedInv' /\ reported' = {} /\ call' # NoCall
      /\ UNCHANGED <<feature, native, cache, unowned>> /\ call'.pc = "read" /\ call'.job = job
  BY ListedSame, BeginIs DEF ListedInv
<1>2. call'.then = "idle" BY ListedSame DEF Begin
<1>3. EntryShaped(native)' /\ ListShaped(cache)' BY <1>1, ListedUntouched
<1> QED BY <1>1, <1>2, <1>3 DEF ListedInv

\* A listing that the switch rebuilds is true.
LEMMA ListedSync == ASSUME ListedInv, Listed!CacheSyncs PROVE ListedInv'
<1> DEFINE values == IF native.entry = None THEN {} ELSE {native.entry}
<1>1. /\ feature # "address" /\ UNCHANGED <<feature, native, unowned, reported>>
      /\ cache' = Listed!Listing(values)
      /\ call' = IF feature = "med" /\ call # NoCall THEN [call EXCEPT !.quiet = FALSE] ELSE call
  BY ListedSame DEF Listed!CacheSyncs, Idle
<1>2. ListShaped(Listed!Listing(values)) /\ Listed!Listing(values).listed = values
  BY <1>1, ListingShaped
<1>3. EntryShaped(native)' /\ ListShaped(cache)'
  BY <1>1, <1>2 DEF ListedInv, EntryShaped, ListShaped, Listed!Childless
<1>4. \A job : Settled(job) => Settled(job)'
  <2>1. \A job : Good(native, job)' <=> Good(native, job)
    BY <1>1 DEF Good, Listed!Mine
  <2>2. \A job : Good(native, job) /\ job.remove /\ feature \in Awaited => native.entry = None
    BY DEF Good, Listed!Mine, Awaited
  <2> QED BY <1>1, <1>2, <2>1, <2>2 DEF Settled
<1>5. Listed!Agree(native.entry, cache.listed)'
  BY <1>1, <1>2 DEF Listed!Agree
<1>6. CASE call' = call
  <2>1. /\ LookedInv' /\ (Looking' <=> Looking)
    BY <1>1, <1>6 DEF ListedInv, LookedInv, Shaped, Looking, Unlooked, Accounted
  <2>2. call # NoCall /\ Promise(call.expect, call.job) => Promise(call.expect, call.job)'
    BY <1>1, <1>6 DEF Promise, Good, Listed!Mine
  <2> QED BY <1>1, <1>3, <1>4, <1>5, <1>6, <2>1, <2>2 DEF ListedInv
<1>7. CASE call # NoCall /\ call' = [call EXCEPT !.quiet = FALSE]
  <2>1. /\ DOMAIN call' = Fields
        /\ \A f \in Fields \ {"quiet"} : call'[f] = call[f]
    BY <1>7 DEF ListedInv, LookedInv, Shaped, Fields
  <2>2. /\ call'.pc = call.pc /\ call'.job = call.job /\ call'.then = call.then
        /\ call'.expect = call.expect /\ call'.seen = call.seen /\ call'.others = call.others
        /\ call'.fresh = call.fresh /\ call'.failed = call.failed
    BY <2>1 DEF Fields
  <2>3. LookedInv' /\ (Looking' => Looking)
    BY <1>1, <1>7, <2>1, <2>2 DEF ListedInv, LookedInv, Shaped, Looking, Unlooked, Accounted
  <2>4. Promise(call.expect, call.job) => Promise(call.expect, call.job)'
    BY <1>1, <2>2 DEF Promise, Good, Listed!Mine
  <2> QED BY <1>1, <1>3, <1>4, <1>5, <1>7, <2>2, <2>3, <2>4 DEF ListedInv
<1> QED BY <1>1, <1>6, <1>7

LEMMA ListedOutside == ASSUME ListedInv, Listed!Outside PROVE ListedInv'
<1>1. Interference(Listed!Settings(feature)) BY ListedSame DEF Listed!Outside
<1>2. /\ LookedInv' /\ reported' = {} /\ UNCHANGED feature
      /\ native' = native \/ native' \in Listed!Settings(feature)
      /\ \/ call = NoCall /\ call' = NoCall
         \/ /\ call # NoCall /\ call' # NoCall
            /\ \A f \in Fields \ {"quiet", "fresh"} : call'[f] = call[f]
            /\ ~call'.fresh
  BY <1>1, InterferenceIs DEF ListedInv
<1>3. UNCHANGED cache BY <1>1 DEF Interference
<1>4. \A s \in Listed!Settings(feature) : EntryShaped(s)
  <2> TAKE s \in Listed!Settings(feature)
  <2> DEFINE All == {Listed!Entry(v, p, c) : v \in Listed!ValuesOf[feature] \union {None},
                                            p \in BOOLEAN, c \in BOOLEAN}
  <2>1. s \in All /\ (feature \in Listed!Childless => ~s.child)
    BY DEF Listed!Settings
  <2>2. DOMAIN s = {"entry", "parent", "child"}
    BY <2>1 DEF Listed!Entry
  <2> QED BY <2>1, <2>2 DEF EntryShaped
<1>5. EntryShaped(native)' /\ ListShaped(cache)'
  BY <1>2, <1>3, <1>4 DEF ListedInv, EntryShaped, ListShaped, Listed!Childless
<1>6. CASE call = NoCall
  BY <1>2, <1>5, <1>6 DEF ListedInv, Looking
<1>7. CASE call # NoCall
  <2>1. /\ call' # NoCall /\ ~Looking' /\ call'.then = call.then /\ call'.expect = call.expect
        /\ call'.job = call.job
    BY <1>2, <1>7 DEF Fields, Looking
  <2>2. Promise(call.expect, call.job) => Promise(call.expect, call.job)'
    BY <1>2, <2>1 DEF Promise, Good, Listed!Mine
  <2> QED BY <1>2, <1>5, <1>7, <2>1, <2>2 DEF ListedInv
<1> QED BY <1>6, <1>7

LEMMA ListedStutter == ASSUME ListedInv, UNCHANGED vars PROVE ListedInv'
<1>1. UNCHANGED <<feature, native, cache, unowned, call, reported>> BY DEF vars, switch
<1>2. EntryShaped(native)' /\ ListShaped(cache)' BY <1>1, ListedUntouched
<1>3. LookedInv' BY <1>1 DEF ListedInv, LookedInv, Shaped, Looking, Unlooked, Accounted
<1>4. Promise(call.expect, call.job) => Promise(call.expect, call.job)'
  BY <1>1 DEF Promise, Good, Listed!Mine
<1>5. Listed!Agree(native.entry, cache.listed) => Listed!Agree(native.entry, cache.listed)'
  BY <1>1 DEF Listed!Agree
<1>6. Looking' => Looking BY <1>1 DEF Looking, Unlooked
<1> QED BY <1>1, <1>2, <1>3, <1>4, <1>5, <1>6, SettledSame DEF ListedInv

LEMMA ListedNextHolds == ASSUME ListedInv, Listed!Next PROVE ListedInv'
<1>a. ASSUME NEW label, Listed!At(label), label # "idle" PROVE call # NoCall /\ DOMAIN call = Fields
  BY <1>a, ListedAt DEF ListedInv, LookedInv, Shaped
<1>1. CASE \E job \in Listed!Wanted(feature) : Listed!Begin(job)
  BY <1>1, ListedBegin
<1>2. CASE Listed!Start \/ Listed!Readback
  <2>1. call # NoCall /\ DOMAIN call = Fields
    BY <1>2, <1>a, ListedSame DEF Listed!Start, Readback
  <2> QED BY <1>2, <2>1, ListedStart, ListedReadback, ListedStepHolds
<1>3. CASE Listed!Refuse \/ Listed!Return
  BY <1>3, ListedEnd
<1>4. CASE Listed!Reject
  <2>1. Listed!At("start") /\ Listed!Goto("refused") BY <1>4 DEF Listed!Reject
  <2>2. call # NoCall /\ DOMAIN call = Fields /\ call.pc \notin Unlooked BY <1>a, <2>1, ListedAt
  <2> QED BY <2>1, <2>2, ListedGotoSteps, ListedStepHolds
<1>5. CASE Listed!DnsServer \/ Listed!OspfArea \/ Listed!OspfBinding \/ Listed!StaticRoute
           \/ Listed!InterfaceAddress
  <2>1. Listed!OneRequest /\ feature \notin Awaited
    BY <1>5 DEF Listed!DnsServer, Listed!OspfArea, Listed!OspfBinding, Listed!StaticRoute,
                Listed!InterfaceAddress, Awaited
  <2>2. call # NoCall /\ DOMAIN call = Fields BY <1>a, <2>1 DEF Listed!OneRequest
  <2> QED BY <2>1, <2>2, OneRequestSteps, ListedStepHolds
<1>6. CASE Listed!RoutedInterface
  <2>1. call # NoCall /\ DOMAIN call = Fields
    BY <1>6, <1>a DEF Listed!RoutedInterface, Listed!VeWrite, Listed!VeRemove, Listed!VePoll
  <2> QED BY <1>6, <2>1, VeSteps, ListedStepHolds
<1>7. CASE Listed!VlanSpanningTree
  <2>1. call # NoCall /\ DOMAIN call = Fields
    BY <1>7, <1>a, Zenon DEF Listed!VlanSpanningTree, Listed!StpBegin, Listed!StpWait, Listed!StpWrite,
                      Listed!StpRemove
  <2> QED BY <1>7, <2>1, StpVlanSteps, ListedStepHolds
<1>8. CASE Listed!MedPolicy
  <2>1. call # NoCall /\ DOMAIN call = Fields
    BY <1>8, <1>a, Zenon DEF Listed!MedPolicy, Listed!MedBegin, Listed!MedAttached, Listed!MedDetach,
                      Listed!MedDetached, Listed!MedCheck
  <2> QED BY <1>8, <2>1, MedSteps, ListedStepHolds
<1>9. CASE Listed!CacheSyncs BY <1>9, ListedSync
<1>10. CASE Listed!Outside BY <1>10, ListedOutside
<1>11. CASE Listed!Finished
  <2>1. UNCHANGED vars BY <1>11, ListedSame DEF Finished
  <2> QED BY <2>1, ListedStutter
<1> QED BY <1>1, <1>2, <1>3, <1>4, <1>5, <1>6, <1>7, <1>8, <1>9, <1>10, <1>11
        DEF Listed!Next, Listed!Apply

-----------------------------------------------------------------------------
(* Authentication: how far a call has come.                                *)

AccessFields == {"vlan", "restricted", "action", "dot1x", "mac", "dot1xPort", "macPort", "control", "member"}
GlobalFields == {"vlan", "restricted", "action", "dot1x", "mac"}
PortFields == {"dot1xPort", "macPort", "control"}

\* A configuration the switch can run.
Runs(s) ==
    /\ DOMAIN s = AccessFields /\ Access!Valid(s)
    /\ \A f \in {"dot1x", "mac", "dot1xPort", "macPort", "member"} : s[f] \in 0..1

StepSet == {Access!GlobalSteps[i] : i \in DOMAIN Access!GlobalSteps}
Todo(c) == {c.todo[i] : i \in DOMAIN c.todo}

\* What a step is there for holds.
Achieved(step, s, job) ==
    LET is == Access!Present(s, step.field)
        to == job[step.field]
    IN  /\ step.kind = "clear" => is = 0 \/ is = to
        /\ step.kind = "set" => is = to
        /\ step.kind = "apply" => to = 0 \/ is = to

\* What call `c` may rely on at `label` if it sees `s`.
Reached(c, label, s) ==
    /\ label = "global" => \A step \in StepSet : step \in Todo(c) \/ Achieved(step, s, c.job)
    /\ label \in {"macPort", "actions", "mode", "modeset"} => s.dot1xPort = c.job.dot1xPort
    /\ label \in {"actions", "mode", "modeset"} => s.macPort = c.job.macPort
    /\ label = "done" => Access!Has(s, c.job)

\* Whatever a readback confirms lets the call go on.
Ready(c) == c.then # "readback" /\ c.expect # {} /\ \A s \in c.expect : Reached(c, c.then, s)

AccessInv ==
    /\ feature \in Access!Features /\ Runs(native)
    /\ LookedInv
    /\ call # NoCall =>
         /\ reported = {} /\ call.job \in Access!Wanted(feature)
         /\ Runs(call.seen) /\ call.todo \in Seq(StepSet)
         /\ Reached(call, call.pc, call.seen)
         /\ call.pc = "readback" => Ready(call)
    /\ \A job \in reported : Access!Has(native, job)

\* One step of a call.
AccessStep ==
    /\ UNCHANGED <<feature, reported>> /\ Runs(native')
    /\ Moves \/ Pends \/ Looks
    /\ Runs(call'.seen) /\ call'.todo \in Seq(StepSet)
    /\ Reached(call', call'.pc, call'.seen)
    /\ call'.pc = "readback" => Ready(call')

LEMMA WantedSame == UNCHANGED feature => Access!Wanted(feature)' = Access!Wanted(feature)
BY DEF Access!Wanted

LEMMA AccessStepHolds == ASSUME AccessInv, call # NoCall, AccessStep PROVE AccessInv'
<1>1. LookedInv' /\ DOMAIN call' = Fields /\ call'.job = call.job
  BY MovesKeeps, PendsKeeps, LooksKeeps DEF AccessStep, AccessInv, Moves, Pends, Looks
<1>2. call' # NoCall BY <1>1, NothingCalled
<1>3. Runs(native)' <=> Runs(native') BY DEF Runs, Access!Valid
<1>4. Runs(call.seen)' <=> Runs(call'.seen) BY DEF Runs, Access!Valid
<1>5. reported' = {} BY DEF AccessStep, AccessInv
<1>6. /\ Reached(call, call.pc, call.seen)' <=> Reached(call', call'.pc, call'.seen)
      /\ Ready(call)' <=> Ready(call')
  BY DEF Reached, Ready, Achieved, StepSet, Todo, Access!Has, Access!Present
<1>7. call'.job \in Access!Wanted(feature)'
  BY <1>1, WantedSame DEF AccessStep, AccessInv
<1>8. StepSet' = StepSet BY DEF StepSet
<1> QED BY <1>1, <1>2, <1>3, <1>4, <1>5, <1>6, <1>7, <1>8 DEF AccessStep, AccessInv

LEMMA AccessAt ==
    \A label : Access!At(label) =>
        /\ call.pc = label
        /\ label # "idle" => call # NoCall
        /\ label \in {"start", "global", "dot1xPort", "macPort", "actions", "mode", "modeset", "done"}
              => call.pc \notin Unlooked
BY AccessSame, NothingCalled DEF At, Unlooked

LEMMA AccessSees ==
    /\ Access!want = call.job /\ Access!seen = call.seen
    /\ LookedInv /\ Looking => call.seen = native
BY DEF Access!want, Access!seen, LookedInv

LEMMA AccessRequests ==
    ASSUME AccessInv, call # NoCall, NEW S, \A s \in S : Runs(s), NEW x, NEW c, Access!Send(S, x, c),
           DOMAIN c = Fields, c.job = call.job, c.seen = call.seen, c.todo \in Seq(StepSet),
           c.pc = "readback", Ready(c)
    PROVE  AccessStep
<1>1. DOMAIN call = Fields BY DEF AccessInv, LookedInv, Shaped
<1>2. /\ UNCHANGED <<feature, reported>> /\ native' \in S \union {native} /\ DOMAIN call' = Fields
      /\ unowned' \in Rest \union {unowned}
      /\ \A f \in Fields \ {"failed", "quiet"} : call'[f] = c[f]
  BY <1>1, AccessSame, SendIs
<1>3. /\ call'.pc = "readback" /\ call'.job = call.job /\ call'.seen = call.seen
      /\ call'.todo = c.todo /\ call'.then = c.then /\ call'.expect = c.expect
  BY <1>2 DEF Fields
<1>4. Pends BY <1>2, <1>3 DEF Pends, Unlooked
<1>5. Runs(native') BY <1>2 DEF AccessInv
<1>6. Reached(call', "readback", call.seen) BY DEF Reached
<1>7. Ready(call') BY <1>3 DEF Ready, Reached, Todo
<1> QED BY <1>2, <1>3, <1>4, <1>5, <1>6, <1>7 DEF AccessStep, AccessInv

LEMMA AccessWrites ==
    ASSUME AccessInv, call # NoCall, NEW s, Access!Valid(s) => Runs(s), NEW x, NEW c, NEW expected,
           Access!Write(s, x, c, expected),
           DOMAIN c = Fields, c.job = call.job, c.seen = call.seen, c.todo \in Seq(StepSet),
           c.then # "readback", expected # {}, \A e \in expected : Reached(c, c.then, e)
    PROVE  AccessStep
<1> DEFINE r == [c EXCEPT !.pc = "readback", !.expect = expected]
           f == [r EXCEPT !.failed = TRUE]
<1>1. /\ DOMAIN r = Fields /\ r.job = call.job /\ r.seen = call.seen /\ r.todo = c.todo
      /\ r.pc = "readback" /\ r.then = c.then /\ r.expect = expected
  BY DEF Fields
<1>2. /\ DOMAIN f = Fields /\ f.job = call.job /\ f.seen = call.seen /\ f.todo = c.todo
      /\ f.pc = "readback" /\ f.then = c.then /\ f.expect = expected
  BY DEF Fields
<1>3. IF Access!Valid(s) THEN Access!Send({s}, x, r) ELSE Access!Send({native}, cache, f)
  BY DEF Access!Write
<1>. HIDE DEF r, f
<1>4. Ready(r) /\ Ready(f) BY <1>1, <1>2 DEF Ready, Reached, Todo
<1>5. Runs(native) BY DEF AccessInv
<1> QED BY <1>1, <1>2, <1>3, <1>4, <1>5, AccessRequests

LEMMA AccessGotoSteps ==
    ASSUME AccessInv, call # NoCall, NEW label, Access!Goto(label), call.pc \notin Unlooked,
           label # "readback", Reached(call, label, call.seen)
    PROVE  AccessStep
<1>1. DOMAIN call = Fields BY DEF AccessInv, LookedInv, Shaped
<1>2. /\ Moves /\ call'.pc = label /\ UNCHANGED <<feature, native, cache, reported>>
      /\ call' = [call EXCEPT !.pc = label]
  BY <1>1, AccessSame, GotoIs
<1>3. call'.todo = call.todo /\ call'.job = call.job /\ call'.seen = call.seen
  BY <1>1, <1>2 DEF Fields
<1>4. Reached(call', call'.pc, call'.seen) BY <1>2, <1>3 DEF Reached, Todo
<1> QED BY <1>2, <1>3, <1>4 DEF AccessStep, AccessInv

\* Configurations that read the same have come equally far.
LEMMA Alike ==
    ASSUME NEW s, DOMAIN s = AccessFields
    PROVE  /\ Access!Indistinguishable(s) # {}
           /\ \A e \in Access!Indistinguishable(s) :
                /\ \A f \in AccessFields : Access!Present(e, f) = Access!Present(s, f)
                /\ \A f \in AccessFields \ {"action"} : e[f] = s[f]
<1>1. CASE s.action \in {1, 2}
  <2>1. Access!Indistinguishable(s) = {[s EXCEPT !.action = a] : a \in {1, 2}}
    BY <1>1 DEF Access!Indistinguishable
  <2>2. ASSUME NEW a \in {1, 2}
        PROVE  /\ \A f \in AccessFields : Access!Present([s EXCEPT !.action = a], f) = Access!Present(s, f)
               /\ \A f \in AccessFields \ {"action"} : [s EXCEPT !.action = a][f] = s[f]
    BY <1>1 DEF Access!Present, AccessFields
  <2> QED BY <2>1, <2>2
<1>2. CASE s.action \notin {1, 2}
  BY <1>2 DEF Access!Indistinguishable
<1> QED BY <1>1, <1>2

LEMMA AlikeReached ==
    ASSUME NEW s, DOMAIN s = AccessFields, NEW c, NEW label, Reached(c, label, s),
           DOMAIN c.job \subseteq AccessFields
    PROVE  \A e \in Access!Indistinguishable(s) : Reached(c, label, e)
<1> TAKE e \in Access!Indistinguishable(s)
<1>1. /\ \A f \in AccessFields : Access!Present(e, f) = Access!Present(s, f)
      /\ e.dot1xPort = s.dot1xPort /\ e.macPort = s.macPort
  BY Alike DEF AccessFields
<1>2. \A step \in StepSet : step.field \in AccessFields
  BY DEF StepSet, Access!GlobalSteps, Access!Step, AccessFields
<1>3. \A step \in StepSet : Achieved(step, s, c.job) => Achieved(step, e, c.job)
  BY <1>1, <1>2 DEF Achieved
<1>4. Access!Has(s, c.job) => Access!Has(e, c.job)
  BY <1>1 DEF Access!Has
<1> QED BY <1>1, <1>3, <1>4 DEF Reached

\* What a job asks for.
LEMMA JobsAre ==
    ASSUME NEW job
    PROVE  /\ job \in Access!GlobalJobs =>
                /\ DOMAIN job = GlobalFields /\ job.action \in 0..1
                /\ \A f \in GlobalFields \ {"action"} : job[f] \in 0..1
           /\ job \in Access!PortJobs =>
                /\ DOMAIN job = PortFields /\ job.dot1xPort \in 0..1 /\ job.macPort \in 0..1
                /\ job.control \in Access!Modes
                /\ job.dot1xPort = 0 => job.control = "force-authorized"
BY DEF Access!GlobalJobs, Access!Globals, Access!PortJobs, GlobalFields, PortFields

LEMMA StepsAre ==
    /\ \A step \in StepSet :
        /\ step.kind \in {"clear", "disable", "set", "apply"} /\ step.field \in GlobalFields
        /\ step.kind \in {"clear", "apply"} <=> step.field = "action"
        /\ step.kind = "disable" => step.field \in {"dot1x", "mac"}
    /\ \A f \in GlobalFields \ {"action"} : Access!Step("set", f) \in StepSet
    /\ Access!Step("clear", "action") \in StepSet /\ Access!Step("apply", "action") \in StepSet
    /\ Access!GlobalSteps \in Seq(StepSet)
<1> DEFINE all == Access!GlobalSteps
<1>1. /\ DOMAIN all = 1..8 /\ Len(all) = 8
      /\ all[1] = Access!Step("clear", "action") /\ all[2] = Access!Step("disable", "dot1x")
      /\ all[3] = Access!Step("disable", "mac") /\ all[4] = Access!Step("set", "vlan")
      /\ all[5] = Access!Step("set", "restricted") /\ all[6] = Access!Step("set", "dot1x")
      /\ all[7] = Access!Step("set", "mac") /\ all[8] = Access!Step("apply", "action")
  BY DEF Access!GlobalSteps
<1>2. all \in Seq(StepSet)
  BY DEF StepSet, Access!GlobalSteps
<1>. HIDE DEF all
<1>3. StepSet = {all[i] : i \in 1..8} BY <1>1 DEF StepSet, all
<1>4. \A i \in 1..8 :
        /\ all[i].kind \in {"clear", "disable", "set", "apply"} /\ all[i].field \in GlobalFields
        /\ all[i].kind \in {"clear", "apply"} <=> all[i].field = "action"
        /\ all[i].kind = "disable" => all[i].field \in {"dot1x", "mac"}
  BY <1>1 DEF Access!Step, GlobalFields
<1>5. \A f \in GlobalFields \ {"action"} : Access!Step("set", f) \in StepSet
  BY <1>1, <1>3 DEF GlobalFields
<1>6. Access!Step("clear", "action") \in StepSet /\ Access!Step("apply", "action") \in StepSet
  BY <1>1, <1>3
<1> QED BY <1>2, <1>3, <1>4, <1>5, <1>6 DEF all

\* A step that is not needed has achieved what it is there for; one that is
\* carried out does, and undoes no other.
LEMMA NotNeeded ==
    ASSUME NEW step \in StepSet, ~Access!Needed(step)
    PROVE  Achieved(step, Access!seen, Access!want)
BY StepsAre DEF Access!Needed, Achieved

LEMMA StepAchieves ==
    ASSUME NEW step \in StepSet, Access!Needed(step), DOMAIN Access!seen = AccessFields,
           Access!want \in Access!GlobalJobs,
           NEW value, value = IF step.kind \in {"clear", "disable"} THEN 0 ELSE Access!want[step.field]
    PROVE  /\ Achieved(step, [Access!seen EXCEPT ![step.field] = value], Access!want)
           /\ \A other \in StepSet : Achieved(other, Access!seen, Access!want)
                => Achieved(other, [Access!seen EXCEPT ![step.field] = value], Access!want)
<1> DEFINE s == [Access!seen EXCEPT ![step.field] = value]
<1>1. /\ step.field \in GlobalFields /\ GlobalFields \subseteq AccessFields
      /\ \A f \in GlobalFields : f # step.field => s[f] = Access!seen[f]
      /\ s[step.field] = value
  BY StepsAre DEF GlobalFields, AccessFields
<1>2. Access!want.action \in 0..1 BY JobsAre
<1>3. /\ \A f \in GlobalFields : f # step.field => Access!Present(s, f) = Access!Present(Access!seen, f)
      /\ Access!Present(s, step.field) = value
  <2>1. step.field = "action" => value \in 0..1 BY <1>2
  <2> QED BY <1>1, <2>1 DEF Access!Present
<1>4. step.kind = "disable" => Access!want[step.field] = 0
  BY StepsAre DEF Access!Needed
<1>5. step.kind = "clear" => Access!Present(Access!seen, "action") # Access!want.action
  BY StepsAre DEF Access!Needed
<1>6. ASSUME NEW other \in StepSet,
             other = step \/ Achieved(other, Access!seen, Access!want)
      PROVE  Achieved(other, s, Access!want)
  <2>1. CASE other.field # step.field
    BY <1>3, <1>6, <2>1, StepsAre DEF Achieved
  <2>2. CASE other.field = step.field
    <3>1. CASE step.kind \in {"set", "apply"}
      BY <1>3, <2>2, <3>1, StepsAre DEF Achieved
    <3>2. CASE step.kind = "disable"
      BY <1>3, <1>4, <2>2, <3>2, StepsAre DEF Achieved
    <3>3. CASE step.kind = "clear"
      <4>1. step.field = "action" /\ value = 0 BY <3>3, StepsAre
      <4>2. other.kind \in {"clear", "apply"} BY <2>2, <4>1, StepsAre
      <4>3. CASE other.kind = "clear" BY <1>3, <2>2, <4>1, <4>3 DEF Achieved
      <4>4. CASE other.kind = "apply"
        <5>1. other # step BY <3>3, <4>4
        <5>2. Access!want.action = 0
          BY <1>5, <1>6, <2>2, <3>3, <4>1, <4>4, <5>1 DEF Achieved
        <5> QED BY <1>3, <2>2, <4>1, <4>4, <5>2 DEF Achieved
      <4> QED BY <4>2, <4>3, <4>4
    <3> QED BY <3>1, <3>2, <3>3, StepsAre
  <2> QED BY <2>1, <2>2
<1> QED BY <1>6

\* The switch runs what a request leaves.
LEMMA WithGlobalRuns ==
    ASSUME Runs(native), NEW field \in GlobalFields, NEW value \in 0..1
    PROVE  Access!Valid(Access!WithGlobal(field, value)) => Runs(Access!WithGlobal(field, value))
<1> DEFINE v == IF field = "action" /\ value = 1 THEN 2 ELSE value
           s == [native EXCEPT ![field] = v]
<1>1. /\ DOMAIN s = AccessFields
      /\ \A f \in {"dot1xPort", "macPort", "member"} : s[f] = native[f]
      /\ \A f \in {"dot1x", "mac"} : s[f] \in {value, native[f]}
  BY DEF Runs, GlobalFields, AccessFields
<1>2. Access!WithGlobal(field, value) =
        CASE field = "dot1x" /\ value = 0 -> [s EXCEPT !.dot1xPort = 0, !.control = "force-authorized"]
          [] field = "mac" /\ value = 0 -> [s EXCEPT !.macPort = 0]
          [] OTHER -> s
  BY DEF Access!WithGlobal
<1>. HIDE DEF s
<1> DEFINE w == Access!WithGlobal(field, value)
<1>3. /\ DOMAIN w = AccessFields
      /\ w.dot1xPort \in {0, native.dot1xPort} /\ w.macPort \in {0, native.macPort}
      /\ w.member = native.member
      /\ w.dot1x \in {value, native.dot1x} /\ w.mac \in {value, native.mac}
  <2>1. CASE field = "dot1x" /\ value = 0 BY <1>1, <1>2, <2>1 DEF AccessFields
  <2>2. CASE field = "mac" /\ value = 0 BY <1>1, <1>2, <2>2 DEF AccessFields
  <2>3. CASE ~(field = "dot1x" /\ value = 0) /\ ~(field = "mac" /\ value = 0)
    BY <1>1, <1>2, <2>3 DEF AccessFields
  <2> QED BY <2>1, <2>2, <2>3
<1> QED BY <1>3 DEF Runs

LEMMA WithPortRuns ==
    ASSUME Runs(native), NEW field \in {"dot1xPort", "macPort"}, NEW value \in 0..1
    PROVE  /\ DOMAIN Access!WithPort(field, value) = AccessFields
           /\ Access!WithPort(field, value).member = IF value = 1 THEN 0 ELSE native.member
           /\ \A f \in {"vlan", "restricted", "dot1x", "mac"} : Access!WithPort(field, value)[f] = native[f]
           /\ Access!Valid(Access!WithPort(field, value)) => Runs(Access!WithPort(field, value))
<1> DEFINE a == IF native.action = 2 THEN 1 ELSE native.action
           m == IF value = 1 THEN 0 ELSE native.member
           c == IF field = "dot1xPort" /\ value = 0 THEN "force-authorized" ELSE native.control
           w == [native EXCEPT ![field] = value, !.action = a, !.member = m, !.control = c]
<1>1. Access!WithPort(field, value) = w BY DEF Access!WithPort
<1>2. m \in 0..1 BY DEF Runs
<1>. HIDE DEF a, m, c
<1>3. DOMAIN native = AccessFields BY DEF Runs
<1>4. CASE field = "dot1xPort"
  <2>1. /\ DOMAIN w = AccessFields /\ w.dot1xPort = value /\ w.macPort = native.macPort /\ w.member = m
        /\ w.vlan = native.vlan /\ w.restricted = native.restricted /\ w.dot1x = native.dot1x
        /\ w.mac = native.mac
    BY <1>3, <1>4 DEF AccessFields
  <2>. HIDE DEF w
  <2> QED BY <1>1, <1>2, <2>1 DEF Runs, m
<1>5. CASE field = "macPort"
  <2>1. /\ DOMAIN w = AccessFields /\ w.macPort = value /\ w.dot1xPort = native.dot1xPort /\ w.member = m
        /\ w.vlan = native.vlan /\ w.restricted = native.restricted /\ w.dot1x = native.dot1x
        /\ w.mac = native.mac
    BY <1>3, <1>5 DEF AccessFields
  <2>. HIDE DEF w
  <2> QED BY <1>1, <1>2, <2>1 DEF Runs, m
<1> QED BY <1>4, <1>5

LEMMA WithControlRuns ==
    ASSUME Runs(native), NEW mode
    PROVE  /\ Access!Valid(Access!WithControl(mode)) => Runs(Access!WithControl(mode))
           /\ Runs(Access!WithControl("force-authorized"))
<1>1. \A m : DOMAIN Access!WithControl(m) = AccessFields
        /\ \A f \in AccessFields \ {"control"} : Access!WithControl(m)[f] = native[f]
  BY DEF Runs, Access!WithControl, AccessFields
<1>2. Access!WithControl("force-authorized").control = "force-authorized"
  BY DEF Runs, Access!WithControl, AccessFields
<1>3. Access!Valid(Access!WithControl("force-authorized"))
  BY <1>1, <1>2 DEF Runs, Access!Valid, AccessFields
<1> QED BY <1>1, <1>3 DEF Runs, AccessFields

-----------------------------------------------------------------------------
(* Every action of authentication is such a step.                          *)

\* Sight of what every action starts from.
LEMMA AccessKnows ==
    ASSUME AccessInv, call # NoCall
    PROVE  /\ DOMAIN call = Fields /\ DOMAIN Access!seen = AccessFields /\ Runs(native)
           /\ Access!want = call.job /\ Access!seen = call.seen
           /\ feature = "authglobal" => Access!want \in Access!GlobalJobs
           /\ feature = "authport" => Access!want \in Access!PortJobs
           /\ DOMAIN Access!want \subseteq AccessFields
<1>1. /\ DOMAIN call = Fields /\ DOMAIN Access!seen = AccessFields /\ Runs(native)
      /\ Access!want = call.job /\ Access!seen = call.seen
      /\ feature = "authglobal" => Access!want \in Access!GlobalJobs
      /\ feature = "authport" => Access!want \in Access!PortJobs
      /\ feature \in {"authglobal", "authport"}
  BY DEF AccessInv, LookedInv, Shaped, Runs, Access!want, Access!seen, Access!Wanted, Access!Features
<1> QED BY <1>1, JobsAre DEF GlobalFields, PortFields, AccessFields

LEMMA GlobalBeginSteps == ASSUME AccessInv, call # NoCall, Access!GlobalBegin PROVE AccessStep
<1>1. call.pc = "start" /\ call.pc \notin Unlooked BY AccessAt DEF Access!GlobalBegin
<1>2. CASE Access!Goto("refused")
  <2>1. Reached(call, "refused", call.seen) BY DEF Reached
  <2> QED BY <1>1, <1>2, <2>1, AccessGotoSteps
<1>3. CASE Access!Continue([call EXCEPT !.pc = "global", !.todo = Access!GlobalSteps])
  <2>1. /\ call' = [call EXCEPT !.pc = "global", !.todo = Access!GlobalSteps]
        /\ UNCHANGED <<feature, native, cache, unowned, reported>>
    BY <1>3, AccessSame, ContinueIs
  <2>2. /\ DOMAIN call' = Fields /\ call'.pc = "global" /\ call'.todo = Access!GlobalSteps
        /\ \A f \in Fields \ {"pc", "todo"} : call'[f] = call[f]
    BY <2>1, AccessKnows DEF Fields
  <2>3. Moves BY <1>1, <2>1, <2>2 DEF Moves, Fields
  <2>4. call'.todo \in Seq(StepSet) BY <2>2, StepsAre
  <2>5. Reached(call', call'.pc, call'.seen) BY <2>2 DEF Reached, Todo, StepSet
  <2>6. call'.seen = call.seen BY <2>3 DEF Moves
  <2> QED BY <2>1, <2>2, <2>3, <2>4, <2>5, <2>6 DEF AccessStep, AccessInv
<1> QED BY <1>2, <1>3 DEF Access!GlobalBegin

\* What is left after the i-th step: those before it were not needed.
LEMMA TodoShrinks ==
    ASSUME NEW S, NEW s \in Seq(S), NEW i \in DOMAIN s
    PROVE  /\ SubSeq(s, i + 1, Len(s)) \in Seq(S)
           /\ \A j \in DOMAIN s : j > i => \E k \in DOMAIN SubSeq(s, i + 1, Len(s)) :
                                             SubSeq(s, i + 1, Len(s))[k] = s[j]
<1>1. Len(s) \in Nat /\ DOMAIN s = 1..Len(s) /\ i \in 1..Len(s) OBVIOUS
<1> DEFINE t == SubSeq(s, i + 1, Len(s))
<1>2. t \in Seq(S) /\ Len(t) = Len(s) - i /\ \A k \in 1..Len(t) : t[k] = s[i + k]
  <2>1. \A k \in (i + 1)..Len(s) : s[k] \in S BY <1>1
  <2>2. i + 1 \in Int /\ Len(s) \in Int BY <1>1
  <2>3. /\ t \in Seq(S) /\ Len(t) = IF i + 1 <= Len(s) THEN Len(s) - (i + 1) + 1 ELSE 0
        /\ \A k \in 1..(Len(s) - (i + 1) + 1) : t[k] = s[i + 1 + k - 1]
    BY <2>1, <2>2
  <2>. HIDE DEF t
  <2>4. Len(t) = Len(s) - i BY <1>1, <2>3
  <2>5. \A k \in 1..Len(t) : k \in 1..(Len(s) - (i + 1) + 1) /\ i + 1 + k - 1 = i + k BY <1>1, <2>4
  <2> QED BY <2>3, <2>4, <2>5
<1>3. DOMAIN t = 1..Len(t) BY <1>2
<1>. HIDE DEF t
<1>4. ASSUME NEW j \in DOMAIN s, j > i PROVE \E k \in DOMAIN t : t[k] = s[j]
  <2>1. j - i \in 1..Len(t) /\ i + (j - i) = j BY <1>1, <1>2, <1>4
  <2> QED BY <1>2, <1>3, <2>1
<1> QED BY <1>2, <1>4 DEF t

LEMMA GlobalWriteSteps ==
    ASSUME AccessInv, call # NoCall, feature = "authglobal", Access!GlobalWrite
    PROVE  AccessStep
<1>1. call.pc = "global" /\ call.pc \notin Unlooked
  <2>1. Access!At("global") BY Zenon DEF Access!GlobalWrite
  <2> QED BY <2>1, AccessAt
<1>2. Access!want \in Access!GlobalJobs BY AccessKnows
<1>3. \A step \in StepSet : step \in Todo(call) \/ Achieved(step, Access!seen, Access!want)
  BY <1>1, AccessKnows DEF AccessInv, Reached
<1>4. call.todo \in Seq(StepSet) BY DEF AccessInv
<1>5. CASE (\A i \in DOMAIN call.todo : ~Access!Needed(call.todo[i])) /\ Access!Goto("done")
  <2>1. \A step \in StepSet : Achieved(step, Access!seen, Access!want)
    <3>1. \A step \in Todo(call) : step \in StepSet /\ ~Access!Needed(step)
      BY <1>4, <1>5 DEF Todo
    <3> QED BY <1>3, <3>1, NotNeeded
  <2>2. \A f \in GlobalFields \ {"action"} : Access!Present(Access!seen, f) = Access!want[f]
    <3> TAKE f \in GlobalFields \ {"action"}
    <3>1. Achieved(Access!Step("set", f), Access!seen, Access!want) BY <2>1, StepsAre
    <3> QED BY <3>1 DEF Achieved, Access!Step
  <2>3. Access!Present(Access!seen, "action") = Access!want.action
    <3>1. /\ Achieved(Access!Step("clear", "action"), Access!seen, Access!want)
          /\ Achieved(Access!Step("apply", "action"), Access!seen, Access!want)
      BY <2>1, StepsAre
    <3> QED BY <3>1 DEF Achieved, Access!Step
  <2>4. Access!Has(Access!seen, Access!want)
    BY <1>2, <2>2, <2>3, JobsAre DEF Access!Has, GlobalFields
  <2>5. Reached(call, "done", call.seen) BY <2>4, AccessKnows DEF Reached
  <2> QED BY <1>1, <1>5, <2>5, AccessGotoSteps
<1>6. ASSUME NEW i \in DOMAIN call.todo, Access!Needed(call.todo[i]),
             \A j \in 1..(i - 1) : ~Access!Needed(call.todo[j]),
             NEW value, value = (IF call.todo[i].kind \in {"clear", "disable"} THEN 0
                                 ELSE Access!want[call.todo[i].field]),
             Access!Write(Access!WithGlobal(call.todo[i].field, value), cache,
                          [call EXCEPT !.then = "global", !.todo = SubSeq(@, i + 1, Len(@))],
                          Access!Indistinguishable([Access!seen EXCEPT ![call.todo[i].field] = value]))
      PROVE  AccessStep
  <2> DEFINE step == call.todo[i]
             rest == SubSeq(call.todo, i + 1, Len(call.todo))
             c == [call EXCEPT !.then = "global", !.todo = rest]
             s == [Access!seen EXCEPT ![step.field] = value]
             w == Access!WithGlobal(step.field, value)
  <2>1. step \in StepSet /\ DOMAIN call.todo = 1..Len(call.todo) /\ Len(call.todo) \in Nat BY <1>4
  <2>2. /\ DOMAIN c = Fields /\ c.job = call.job /\ c.seen = call.seen /\ c.todo = rest /\ c.then = "global"
    BY AccessKnows DEF Fields
  <2>3. /\ rest \in Seq(StepSet)
        /\ \A j \in DOMAIN call.todo : j > i => \E k \in DOMAIN rest : rest[k] = call.todo[j]
    BY <1>4, TodoShrinks
  <2>4. /\ Achieved(step, s, Access!want)
        /\ \A other \in StepSet : Achieved(other, Access!seen, Access!want) => Achieved(other, s, Access!want)
    BY <1>2, <1>6, <2>1, AccessKnows, StepAchieves
  <2>5. DOMAIN s = AccessFields BY AccessKnows
  <2>6. Access!Write(w, cache, c, Access!Indistinguishable(s)) BY <1>6, AccessKnows DEF Fields
  <2>7. Access!Valid(w) => Runs(w)
    <3>1. value \in 0..1 BY <1>2, <1>6, <2>1, JobsAre, StepsAre
    <3> QED BY <2>1, <3>1, AccessKnows, StepsAre, WithGlobalRuns
  <2>. HIDE DEF c, s, w, rest
  <2>8. Reached(c, "global", s)
    <3>1. ASSUME NEW other \in StepSet PROVE other \in Todo(c) \/ Achieved(other, s, Access!want)
      <4>1. CASE other \in Todo(call)
        <5>1. PICK j \in DOMAIN call.todo : other = call.todo[j] BY <4>1 DEF Todo
        <5>2. CASE j > i BY <2>2, <2>3, <5>1, <5>2 DEF Todo
        <5>3. CASE j = i BY <2>4, <5>1, <5>3
        <5>4. CASE j < i
          <6>1. ~Access!Needed(other) BY <1>6, <2>1, <5>1, <5>4
          <6> QED BY <2>4, <6>1, NotNeeded
        <5> QED BY <2>1, <5>2, <5>3, <5>4
      <4>2. CASE other \notin Todo(call) BY <1>3, <2>4, <4>2
      <4> QED BY <4>1, <4>2
    <3> QED BY <2>2, <3>1, AccessKnows DEF Reached
  <2>9. /\ Access!Indistinguishable(s) # {}
        /\ \A e \in Access!Indistinguishable(s) : Reached(c, c.then, e)
    BY <2>2, <2>5, <2>8, Alike, AlikeReached, AccessKnows
  <2> QED BY <2>2, <2>3, <2>6, <2>7, <2>9, AccessWrites
<1> QED BY <1>5, <1>6, Zenon DEF Access!GlobalWrite

LEMMA PortBeginSteps == ASSUME AccessInv, call # NoCall, Access!PortBegin PROVE AccessStep
<1> DEFINE label == IF Access!PortRefused THEN "refused" ELSE "dot1xPort"
<1>1. Access!At("start") /\ Access!Goto(label) BY Zenon DEF Access!PortBegin
<1>2. label \in {"refused", "dot1xPort"} OBVIOUS
<1>. HIDE DEF label
<1>3. Reached(call, label, call.seen) BY <1>2 DEF Reached
<1> QED BY <1>1, <1>2, <1>3, AccessAt, AccessGotoSteps

LEMMA PortFlagSteps ==
    ASSUME AccessInv, call # NoCall, feature = "authport", Access!PortFlag
    PROVE  AccessStep
<1> DEFINE label(x) == IF x = "dot1xPort" THEN "macPort" ELSE "actions"
           mode(x) == IF x = "dot1xPort" /\ Access!want[x] = 0 THEN "force-authorized" ELSE Access!seen.control
           expected(x) == [Access!seen EXCEPT ![x] = Access!want[x], !.control = mode(x)]
<1>1. PICK x \in {"dot1xPort", "macPort"} :
        /\ Access!At(x)
        /\ IF Access!seen[x] = Access!want[x] THEN Access!Goto(label(x))
           ELSE Access!Write(Access!WithPort(x, Access!want[x]), cache, Access!Then(label(x)),
                             Access!Indistinguishable(expected(x)))
  BY Zenon DEF Access!PortFlag, Access!Flags
<1>. HIDE DEF expected
<1>2. call.pc = x /\ call.pc \notin Unlooked
  <2>1. Access!At(x) BY <1>1
  <2> QED BY <2>1, AccessAt
<1>3. Access!want \in Access!PortJobs BY AccessKnows
<1>4. x = "macPort" => Access!seen.dot1xPort = Access!want.dot1xPort
  BY <1>2, AccessKnows DEF AccessInv, Reached
<1>5. CASE Access!seen[x] = Access!want[x] /\ Access!Goto(label(x))
  <2>1. Reached(call, label(x), call.seen)
    BY <1>4, <1>5, AccessKnows DEF Reached
  <2> QED BY <1>2, <1>5, <2>1, AccessGotoSteps
<1>6. CASE Access!seen[x] # Access!want[x]
  <2> DEFINE w == Access!WithPort(x, Access!want[x])
             c == Access!Then(label(x))
             s == expected(x)
  <2>1. /\ DOMAIN c = Fields /\ c.job = call.job /\ c.seen = call.seen /\ c.todo = call.todo
        /\ c.then = label(x)
    BY AccessKnows DEF Fields, Access!Then
  <2>2. Access!Valid(w) => Runs(w)
    BY <1>3, AccessKnows, JobsAre, WithPortRuns
  <2>3. Access!Write(w, cache, c, Access!Indistinguishable(s)) BY <1>1, <1>6
  <2>4. /\ DOMAIN s = AccessFields /\ s[x] = Access!want[x]
        /\ x = "macPort" => s.dot1xPort = Access!seen.dot1xPort
    <3> DEFINE m == mode(x)
               v == Access!want[x]
    <3>1. s = [Access!seen EXCEPT ![x] = v, !.control = m] BY Zenon DEF expected
    <3>. HIDE DEF s, m, v
    <3>2. CASE x = "dot1xPort"
      <4>1. s = [Access!seen EXCEPT !.dot1xPort = v, !.control = m] BY Zenon, <3>1, <3>2
      <4> QED BY <3>2, <4>1, AccessKnows DEF AccessFields, v
    <3>3. CASE x = "macPort"
      <4>1. s = [Access!seen EXCEPT !.macPort = v, !.control = m] BY Zenon, <3>1, <3>3
      <4> QED BY <3>3, <4>1, AccessKnows DEF AccessFields, v
    <3> QED BY <3>2, <3>3
  <2>. HIDE DEF w, c, s
  <2>5. Reached(c, label(x), s) BY <1>4, <2>1, <2>4, AccessKnows DEF Reached
  <2>6. /\ Access!Indistinguishable(s) # {}
        /\ \A e \in Access!Indistinguishable(s) : Reached(c, c.then, e)
    BY <2>1, <2>4, <2>5, Alike, AlikeReached, AccessKnows
  <2>7. c.then # "readback" /\ c.todo \in Seq(StepSet) BY <2>1 DEF AccessInv
  <2> QED BY <2>1, <2>2, <2>3, <2>6, <2>7, AccessWrites
<1> QED BY <1>1, <1>5, <1>6

LEMMA PortActionsSteps ==
    ASSUME AccessInv, call # NoCall, Access!PortActions
    PROVE  AccessStep
<1>1. call.pc = "actions" /\ call.pc \notin Unlooked
  <2>1. Access!At("actions") BY Zenon DEF Access!PortActions
  <2> QED BY <2>1, AccessAt
<1>2. Reached(call, "mode", Access!seen) BY <1>1, AccessKnows DEF AccessInv, Reached
<1>3. CASE Access!Goto("mode")
  BY <1>1, <1>2, <1>3, AccessKnows, AccessGotoSteps
<1>4. CASE Access!Write(Access!WithGlobal("action", 1), cache, Access!Then("mode"),
                        Access!Indistinguishable(Access!seen))
  <2> DEFINE c == Access!Then("mode")
  <2>1. /\ DOMAIN c = Fields /\ c.job = call.job /\ c.seen = call.seen /\ c.todo = call.todo
        /\ c.then = "mode"
    BY AccessKnows DEF Fields, Access!Then
  <2>. HIDE DEF c
  <2>2. Reached(c, "mode", Access!seen) BY <1>2, <2>1 DEF Reached
  <2>3. /\ Access!Indistinguishable(Access!seen) # {}
        /\ \A e \in Access!Indistinguishable(Access!seen) : Reached(c, c.then, e)
    BY <2>1, <2>2, Alike, AlikeReached, AccessKnows
  <2>4. "action" \in GlobalFields BY DEF GlobalFields
  <2>5. c.todo \in Seq(StepSet) /\ c.then # "readback" BY <2>1 DEF AccessInv
  <2> QED BY <1>4, <2>1, <2>3, <2>4, <2>5, AccessKnows, WithGlobalRuns, AccessWrites DEF c
<1> QED BY <1>3, <1>4 DEF Access!PortActions

LEMMA PortModeSteps ==
    ASSUME AccessInv, call # NoCall, feature = "authport", Access!PortMode
    PROVE  AccessStep
<1>1. call.pc = "mode" /\ call.pc \notin Unlooked BY AccessAt DEF Access!PortMode
<1>2. /\ Access!seen.dot1xPort = Access!want.dot1xPort /\ Access!seen.macPort = Access!want.macPort
  BY <1>1, AccessKnows DEF AccessInv, Reached
<1>3. CASE Access!seen.control = Access!want.control /\ Access!Goto("done")
  <2>1. Access!Has(Access!seen, Access!want)
    BY <1>2, <1>3, AccessKnows, JobsAre DEF Access!Has, Access!Present, PortFields
  <2>2. Reached(call, "done", call.seen) BY <2>1, AccessKnows DEF Reached
  <2> QED BY <1>1, <1>3, <2>2, AccessGotoSteps
<1>4. ASSUME NEW S, S \subseteq {native, Access!WithControl("force-authorized")}, NEW x,
             Access!Request(S, x, "modeset",
                 UNION {Access!Indistinguishable([Access!seen EXCEPT !.control = m]) : m \in Access!Modes})
      PROVE  AccessStep
  <2> DEFINE expected == UNION {Access!Indistinguishable([Access!seen EXCEPT !.control = m]) : m \in Access!Modes}
             c == [call EXCEPT !.pc = "readback", !.then = "modeset", !.expect = expected]
  <2>1. /\ DOMAIN c = Fields /\ c.job = call.job /\ c.seen = call.seen /\ c.todo = call.todo
        /\ c.then = "modeset" /\ c.pc = "readback" /\ c.expect = expected
    BY AccessKnows DEF Fields
  <2>2. Access!Send(S, x, c)
    <3>1. Request(S, x, "modeset", expected) BY <1>4, AccessSame
    <3>2. Send(S, x, c) BY <3>1 DEF Request
    <3> QED BY <3>2, AccessSame
  <2>. HIDE DEF c
  <2>3. expected # {} /\ \A e \in expected : Reached(c, "modeset", e)
    <3>1. ASSUME NEW m \in Access!Modes
          PROVE  /\ Access!Indistinguishable([Access!seen EXCEPT !.control = m]) # {}
                 /\ \A e \in Access!Indistinguishable([Access!seen EXCEPT !.control = m]) :
                      Reached(c, "modeset", e)
      <4> DEFINE s == [Access!seen EXCEPT !.control = m]
      <4>1. /\ DOMAIN s = AccessFields /\ s.dot1xPort = Access!want.dot1xPort
            /\ s.macPort = Access!want.macPort
        BY <1>2, AccessKnows DEF AccessFields
      <4>. HIDE DEF s
      <4>2. Reached(c, "modeset", s) BY <2>1, <4>1, AccessKnows DEF Reached
      <4>3. DOMAIN c.job \subseteq AccessFields BY <2>1, AccessKnows
      <4>4. /\ Access!Indistinguishable(s) # {}
            /\ \A e \in Access!Indistinguishable(s) : Reached(c, "modeset", e)
        BY <4>1, <4>2, <4>3, Alike, AlikeReached
      <4> QED BY <4>4 DEF s
    <3>2. "auto" \in Access!Modes BY DEF Access!Modes
    <3> QED BY <3>1, <3>2
  <2>. HIDE DEF expected
  <2>4. Ready(c) BY <2>1, <2>3 DEF Ready
  <2>5. \A s \in S : Runs(s) BY <1>4, AccessKnows, WithControlRuns
  <2>6. c.todo \in Seq(StepSet) BY <2>1 DEF AccessInv
  <2> QED BY <2>1, <2>2, <2>4, <2>5, <2>6, AccessRequests
<1>5. CASE Access!Request(IF Access!want.control \in cache
                          THEN {native, Access!WithControl("force-authorized")} ELSE {native},
                          cache \ {Access!want.control}, "modeset",
                 UNION {Access!Indistinguishable([Access!seen EXCEPT !.control = m]) : m \in Access!Modes})
  BY <1>4, <1>5
<1> QED BY <1>3, <1>5, Zenon DEF Access!PortMode

LEMMA PortModeSetSteps ==
    ASSUME AccessInv, call # NoCall, feature = "authport", Access!PortModeSet
    PROVE  AccessStep
<1> DEFINE s == [Access!seen EXCEPT !.control = Access!want.control]
           expected == Access!Indistinguishable(s)
<1>1. call.pc = "modeset" /\ call.pc \notin Unlooked
  <2>1. Access!At("modeset") BY Zenon DEF Access!PortModeSet
  <2> QED BY <2>1, AccessAt
<1>2. /\ Access!seen.dot1xPort = Access!want.dot1xPort /\ Access!seen.macPort = Access!want.macPort
  BY <1>1, AccessKnows DEF AccessInv, Reached
<1>3. DOMAIN s = AccessFields /\ Access!Has(s, Access!want)
  <2>1. /\ DOMAIN s = AccessFields /\ s.control = Access!want.control
        /\ s.dot1xPort = Access!want.dot1xPort /\ s.macPort = Access!want.macPort
    BY <1>2, AccessKnows DEF AccessFields
  <2>. HIDE DEF s
  <2> QED BY <2>1, AccessKnows, JobsAre DEF Access!Has, Access!Present, PortFields
<1>. HIDE DEF s
<1>4. ASSUME NEW c, c.job = call.job
      PROVE  expected # {} /\ \A e \in expected : Reached(c, "done", e)
  <2>1. Reached(c, "done", s) BY <1>3, <1>4, AccessKnows DEF Reached
  <2>2. DOMAIN c.job \subseteq AccessFields BY <1>4, AccessKnows
  <2> QED BY <1>3, <2>1, <2>2, Alike, AlikeReached
<1>5. CASE Access!Request({t \in {native, Access!WithControl(Access!want.control)} : Access!Valid(t)},
                          cache, "done", expected)
  <2> DEFINE S == {t \in {native, Access!WithControl(Access!want.control)} : Access!Valid(t)}
             c == [call EXCEPT !.pc = "readback", !.then = "done", !.expect = expected]
  <2>1. /\ DOMAIN c = Fields /\ c.job = call.job /\ c.seen = call.seen /\ c.todo = call.todo
        /\ c.then = "done" /\ c.pc = "readback" /\ c.expect = expected
    BY AccessKnows DEF Fields
  <2>2. Access!Send(S, cache, c)
    <3>1. Request(S, cache, "done", expected) BY <1>5, AccessSame
    <3>2. Send(S, cache, c) BY <3>1 DEF Request
    <3> QED BY <3>2, AccessSame
  <2>3. \A t \in S : Runs(t) BY AccessKnows, WithControlRuns
  <2>. HIDE DEF c, S, expected
  <2>4. Ready(c) BY <1>4, <2>1 DEF Ready
  <2>5. c.todo \in Seq(StepSet) BY <2>1 DEF AccessInv
  <2> QED BY <2>1, <2>2, <2>3, <2>4, <2>5, AccessRequests
<1>6. CASE Access!Write(Access!WithControl(Access!want.control), cache \union {Access!want.control},
                        Access!Then("done"), expected)
  <2> DEFINE c == Access!Then("done")
             w == Access!WithControl(Access!want.control)
  <2>1. /\ DOMAIN c = Fields /\ c.job = call.job /\ c.seen = call.seen /\ c.todo = call.todo
        /\ c.then = "done"
    BY AccessKnows DEF Fields, Access!Then
  <2>2. Access!Valid(w) => Runs(w) BY AccessKnows, WithControlRuns
  <2>3. Access!Write(w, cache \union {Access!want.control}, c, expected) BY <1>6
  <2>. HIDE DEF c, w, expected
  <2>4. c.todo \in Seq(StepSet) /\ c.then # "readback" BY <2>1 DEF AccessInv
  <2>5. expected # {} /\ \A e \in expected : Reached(c, c.then, e) BY <1>4, <2>1
  <2> QED BY <2>1, <2>2, <2>3, <2>4, <2>5, AccessWrites
<1> QED BY <1>5, <1>6 DEF Access!PortModeSet, s

-----------------------------------------------------------------------------
(* Authentication: what a call reported stands.                            *)

LEMMA ConfigurationsRun == \A s \in Access!Configurations : Runs(s)
BY DEF Access!Configurations, Runs, AccessFields

LEMMA AccessInitHolds == ASSUME Access!Init PROVE AccessInv
<1>1. /\ feature \in Access!Features /\ call = NoCall /\ reported = {} /\ unowned \in Rest
      /\ native \in Access!Configurations
  BY AccessSame, UntouchedRests DEF Access!Init
<1> QED BY <1>1, ConfigurationsRun, NothingCalled DEF AccessInv, LookedInv, Shaped, Looking

LEMMA AccessTimesOut == ASSUME AccessInv, call # NoCall, Access!TimesOut PROVE AccessStep
<1>1. /\ call' = [[call EXCEPT !.pc = "failed"] EXCEPT !.quiet = FALSE]
      /\ UNCHANGED <<feature, native, cache, reported>>
  BY AccessSame DEF TimesOut, Fail, Faulty, switch
<1>2. Pends /\ call'.pc = "failed" BY AccessSame, AccessKnows, TimesOutIs
<1>3. call'.seen = call.seen /\ call'.todo = call.todo BY <1>1, AccessKnows DEF Fields
<1>4. Reached(call', "failed", call.seen) BY DEF Reached
<1> QED BY <1>1, <1>2, <1>3, <1>4 DEF AccessStep, AccessInv

LEMMA AccessStart == ASSUME AccessInv, call # NoCall, Access!Start PROVE AccessStep
<1>1. CASE Access!TimesOut BY <1>1, AccessTimesOut
<1>2. CASE Access!Continue([Access!Observed EXCEPT !.pc = "start"])
  <2>. DEFINE c == [Access!Observed EXCEPT !.pc = "start"]
  <2>1. /\ DOMAIN c = Fields /\ c.pc = "start" /\ c.seen = native /\ unowned \in c.others
        /\ c.job = call.job /\ c.todo = call.todo
    BY AccessKnows, AccessSame, PreservedHas DEF Access!Observed, Fields, AccessInv, LookedInv
  <2>2. call' = c /\ UNCHANGED <<feature, native, cache, unowned, reported>>
    BY <1>2, AccessSame, ContinueIs
  <2>. HIDE DEF c
  <2>3. Looks BY <2>1, <2>2 DEF Looks, Accounted
  <2>4. Reached(call', "start", native) BY DEF Reached
  <2> QED BY <2>1, <2>2, <2>3, <2>4 DEF AccessStep, AccessInv
<1> QED BY <1>1, <1>2 DEF Access!Start

LEMMA AccessReadback == ASSUME AccessInv, call # NoCall, Access!Readback PROVE AccessStep
<1>1. Readback /\ call.pc = "readback" BY AccessSame, NothingCalled DEF Readback, At
<1>2. /\ UNCHANGED <<feature, native, cache, reported>> /\ call'.todo = call.todo /\ call'.job = call.job
      /\ call'.seen \in {native, call.seen}
  BY <1>1, AccessKnows DEF Readback, Faulty, Sound, switch, Fail, Fields
<1>3. CASE call'.pc = "failed"
  <2>1. Reached(call', "failed", call'.seen) BY DEF Reached
  <2> QED BY <1>1, <1>2, <1>3, <2>1, AccessKnows, ReadbackIs DEF AccessStep, AccessInv
<1>4. CASE Looks /\ call'.pc = call.then /\ Confirmed
  <2>1. Ready(call) BY <1>1 DEF AccessInv
  <2>2. Reached(call, call.then, native) BY <1>4, <2>1 DEF Ready, Confirmed
  <2>3. call'.seen = native BY <1>4 DEF Looks
  <2>4. Reached(call', call'.pc, call'.seen) BY <1>2, <1>4, <2>2, <2>3 DEF Reached, Todo
  <2>5. call'.pc # "readback" BY <1>4, <2>1 DEF Ready
  <2> QED BY <1>2, <1>4, <2>3, <2>4, <2>5 DEF AccessStep, AccessInv
<1> QED BY <1>1, <1>3, <1>4, AccessKnows, ReadbackIs

LEMMA AccessUntouched ==
    ASSUME AccessInv, UNCHANGED <<feature, native>>
    PROVE  Runs(native)' /\ feature' \in Access!Features /\ StepSet' = StepSet
BY DEF AccessInv, Runs, Access!Valid, StepSet

LEMMA AccessEnd == ASSUME AccessInv, Access!Return \/ Access!Refuse PROVE AccessInv'
<1>1. /\ LookedInv' /\ call' = NoCall /\ UNCHANGED <<feature, native, cache, unowned>>
      /\ reported' = {} \/ (reported' = {call.job} /\ Succeeds /\ call.fresh)
  BY AccessSame, EndIs DEF AccessInv
<1>2. \A job \in reported' : Access!Has(native, job)
  <2>1. Succeeds /\ call.fresh => Looking /\ call.pc = "done"
    BY NothingCalled DEF Succeeds, Looking, At, Unlooked
  <2>2. Looking /\ call.pc = "done" => Access!Has(native, call.job)
    BY DEF AccessInv, LookedInv, Looking, Reached
  <2> QED BY <1>1, <2>1, <2>2
<1>3. \A job \in reported' : Access!Has(native, job)' BY <1>1, <1>2 DEF Access!Has, Access!Present
<1> QED BY <1>1, <1>3, AccessUntouched DEF AccessInv

LEMMA AccessBegin ==
    ASSUME AccessInv, NEW job \in Access!Wanted(feature), Access!Begin(job)
    PROVE  AccessInv'
<1>1. /\ LookedInv' /\ reported' = {} /\ call' # NoCall
      /\ UNCHANGED <<feature, native, cache, unowned>> /\ call'.pc = "read" /\ call'.job = job
  BY AccessSame, BeginIs DEF AccessInv
<1>2. call'.seen = native /\ call'.todo = <<>>
  BY AccessSame DEF Begin
<1>3. call'.todo \in Seq(StepSet)' BY <1>2
<1>4. Runs(call.seen)' BY <1>1, <1>2 DEF Runs, Access!Valid, AccessInv
<1>5. Reached(call, call.pc, call.seen)' BY <1>1 DEF Reached
<1>6. call'.job \in Access!Wanted(feature)' BY <1>1, WantedSame
<1> QED BY <1>1, <1>3, <1>4, <1>5, <1>6, AccessUntouched DEF AccessInv

\* Nothing but the configuration, and how the call is remembered, changes.
LEMMA AccessBystander ==
    ASSUME AccessInv, LookedInv', reported' \subseteq reported, UNCHANGED feature, Runs(native)',
           \/ call = NoCall /\ call' = NoCall
           \/ call # NoCall /\ call' # NoCall /\ \A f \in Fields \ {"quiet", "fresh"} : call'[f] = call[f],
           reported' # {} => UNCHANGED native
    PROVE  AccessInv'
<1>1. StepSet' = StepSet /\ Access!Wanted(feature)' = Access!Wanted(feature)
  BY WantedSame DEF StepSet
<1>2. call # NoCall => /\ call'.job = call.job /\ call'.pc = call.pc /\ call'.seen = call.seen
                       /\ call'.todo = call.todo /\ call'.then = call.then /\ call'.expect = call.expect
  BY DEF Fields
<1>3. call # NoCall => Runs(call.seen)' BY <1>2 DEF AccessInv, Runs, Access!Valid
<1>4. call # NoCall => Reached(call, call.pc, call.seen)'
  BY <1>1, <1>2 DEF AccessInv, Reached, Todo, Achieved, Access!Has, Access!Present
<1>5. call # NoCall /\ call.pc = "readback" => Ready(call)'
  <2>1. call # NoCall =>
          \A label, s : Reached(call, label, s) => Reached(call', label, s)
    BY <1>2 DEF Reached, Todo
  <2>2. Ready(call') => Ready(call)'
    BY <1>1 DEF Ready, Reached, Todo, Achieved, Access!Has, Access!Present
  <2> QED BY <1>2, <2>1, <2>2 DEF AccessInv, Ready
<1>6. \A job \in reported' : Access!Has(native, job)'
  BY DEF AccessInv, Access!Has, Access!Present
<1>7. call' # NoCall => reported' = {} BY DEF AccessInv
<1>8. call' # NoCall => /\ call'.job \in Access!Wanted(feature)' /\ call'.todo \in Seq(StepSet)'
  BY <1>1, <1>2 DEF AccessInv
<1>9. call' # NoCall => call'.pc = call.pc BY <1>2
<1> QED BY <1>3, <1>4, <1>5, <1>6, <1>7, <1>8, <1>9 DEF AccessInv

LEMMA AccessOutside == ASSUME AccessInv, Access!Outside PROVE AccessInv'
<1> DEFINE one(x, v) == [native EXCEPT ![x] = v[x]]
           S == {s \in {one(x, v) : x \in DOMAIN native, v \in Access!Configurations} : Access!Valid(s)}
<1>1. Interference(S)
  <2>1. Access!Interference(S) BY DEF Access!Outside
  <2>. HIDE DEF S
  <2> QED BY <2>1, AccessSame
<1>2. \A s \in S : Runs(s)
  <2> TAKE s \in S
  <2>1. PICK x \in DOMAIN native, v \in Access!Configurations : s = [native EXCEPT ![x] = v[x]]
    OBVIOUS
  <2>2. Runs(v) BY ConfigurationsRun
  <2>3. /\ DOMAIN s = DOMAIN native /\ \A f \in DOMAIN native : s[f] \in {native[f], v[f]}
    <3> DEFINE u == v[x]
    <3>1. s = [native EXCEPT ![x] = u] BY <2>1
    <3>. HIDE DEF u, S
    <3>2. DOMAIN s = DOMAIN native BY <3>1
    <3>3. \A f \in DOMAIN native : s[f] = IF f = x THEN u ELSE native[f] BY <3>1
    <3> QED BY <3>2, <3>3 DEF u
  <2>4. Access!Valid(s) OBVIOUS
  <2>. HIDE DEF S
  <2> QED BY <2>2, <2>3, <2>4 DEF Runs, AccessInv, AccessFields
<1>. HIDE DEF S
<1>3. /\ LookedInv' /\ reported' = {} /\ UNCHANGED feature
      /\ native' = native \/ native' \in S
      /\ \/ call = NoCall /\ call' = NoCall
         \/ /\ call # NoCall /\ call' # NoCall
            /\ \A f \in Fields \ {"quiet", "fresh"} : call'[f] = call[f]
  BY <1>1, InterferenceIs DEF AccessInv
<1>4. Runs(native)'
  <2>1. Runs(native') BY <1>2, <1>3 DEF AccessInv
  <2> QED BY <2>1 DEF Runs, Access!Valid
<1> QED BY <1>3, <1>4, AccessBystander

LEMMA AccessStutter == ASSUME AccessInv, UNCHANGED vars PROVE AccessInv'
<1>1. UNCHANGED <<feature, native, cache, unowned, call, reported>> BY DEF vars, switch
<1>2. LookedInv' BY <1>1 DEF AccessInv, LookedInv, Shaped, Looking, Unlooked, Accounted
<1> QED BY <1>1, <1>2, AccessUntouched, AccessBystander DEF NoCall

LEMMA AccessNextHolds == ASSUME AccessInv, Access!Next PROVE AccessInv'
<1>1. CASE \E job \in Access!Wanted(feature) : Access!Begin(job)
  BY <1>1, AccessBegin
<1>2. CASE Access!Start \/ Access!Readback
  <2>1. call # NoCall BY <1>2, AccessAt, AccessSame, NothingCalled DEF Access!Start, Readback
  <2> QED BY <1>2, <2>1, AccessStart, AccessReadback, AccessStepHolds
<1>3. CASE Access!Refuse \/ Access!Return
  BY <1>3, AccessEnd
<1>4. CASE Access!Global
  <2>1. feature = "authglobal" /\ (Access!GlobalBegin \/ Access!GlobalWrite) BY <1>4 DEF Access!Global
  <2>2. Access!At("start") \/ Access!At("global")
    BY Zenon, <2>1 DEF Access!GlobalBegin, Access!GlobalWrite
  <2>3. call # NoCall BY <2>2, AccessAt
  <2> QED BY <2>1, <2>3, GlobalBeginSteps, GlobalWriteSteps, AccessStepHolds
<1>5. CASE Access!Port
  <2>1. /\ feature = "authport"
        /\ Access!PortBegin \/ Access!PortFlag \/ Access!PortActions \/ Access!PortMode \/ Access!PortModeSet
    BY <1>5 DEF Access!Port
  <2>2. \E label \in {"start", "dot1xPort", "macPort", "actions", "mode", "modeset"} : Access!At(label)
    BY Zenon, <2>1 DEF Access!PortBegin, Access!PortFlag, Access!Flags, Access!PortActions, Access!PortMode,
              Access!PortModeSet
  <2>3. call # NoCall BY <2>2, AccessAt
  <2> QED BY <2>1, <2>3, PortBeginSteps, PortFlagSteps, PortActionsSteps, PortModeSteps, PortModeSetSteps,
             AccessStepHolds
<1>6. CASE Access!Outside BY <1>6, AccessOutside
<1>7. CASE Access!Finished
  <2>1. UNCHANGED vars BY <1>7, AccessSame DEF Finished
  <2> QED BY <2>1, AccessStutter
<1> QED BY <1>1, <1>2, <1>3, <1>4, <1>5, <1>6, <1>7 DEF Access!Next, Access!Apply

-----------------------------------------------------------------------------
(* AAA: how far a call has come.                                           *)

PolicyFields == {"coa", "dot1x", "login"}
AccountFields == {"entry", "secret", "protected"}

\* What the switch can hold: an account that is absent has no secret.
Held(s) ==
    IF feature = "aaapolicy" THEN s \in [PolicyFields -> 0..2]
    ELSE s \in Accounts!ConfigurationsOf[feature] /\ DOMAIN s = AccountFields /\ (s.entry = 0 => s.secret = 0)

Remaining(c) == {c.todo[i] : i \in DOMAIN c.todo}
Lists == {<<>>, <<"login">>, <<"dot1x", "login">>, <<"coa", "dot1x", "login">>}

Fulfils(s, job) ==
    IF feature = "aaapolicy" THEN s = job
    ELSE s.entry = job.entry /\ (s.secret = 0 <=> job.secret = 0)

\* What is not left to do is done.
Advanced(c, s) ==
    IF feature = "aaapolicy" THEN \A x \in PolicyFields \ Remaining(c) : s[x] = c.job[x]
    ELSE Fulfils(s, c.job)

Commissioned(job) ==
    IF feature = "aaapolicy" THEN job \in [PolicyFields -> 0..2]
    ELSE {"entry", "secret"} \subseteq DOMAIN job /\ job.entry \in 0..2 /\ job.secret \in 0..2
         /\ (job.entry = 0 => job.secret = 0)

AccountsInv ==
    /\ feature \in Accounts!Features /\ Held(native)
    /\ LookedInv
    /\ call # NoCall =>
         /\ reported = {} /\ Commissioned(call.job) /\ Held(call.seen)
         /\ call.todo \in Lists
         /\ call.pc \in {"compare", "next", "create"} => Advanced(call, call.seen)
         /\ call.pc = "readback" =>
              call.then = "compare" /\ call.expect # {} /\ \A s \in call.expect : Advanced(call, s)
         /\ call.pc = "create" => call.todo # <<>> /\ Head(call.todo) = "dot1x"
         /\ call.pc = "done" => Fulfils(call.seen, call.job)
    /\ \A job \in reported : Fulfils(native, job)

\* One step of a call.
AccountsStep ==
    /\ UNCHANGED <<feature, reported>> /\ Held(native')
    /\ Moves \/ Pends \/ Looks
    /\ Held(call'.seen) /\ call'.todo \in Lists
    /\ call'.pc \in {"compare", "next", "create"} => Advanced(call', call'.seen)
    /\ call'.pc = "readback" =>
         call'.then = "compare" /\ call'.expect # {} /\ \A s \in call'.expect : Advanced(call', s)
    /\ call'.pc = "create" => call'.todo # <<>> /\ Head(call'.todo) = "dot1x"
    /\ call'.pc = "done" => Fulfils(call'.seen, call'.job)

LEMMA AccountsStepHolds == ASSUME AccountsInv, call # NoCall, AccountsStep PROVE AccountsInv'
<1>1. LookedInv' /\ DOMAIN call' = Fields /\ call'.job = call.job
  BY MovesKeeps, PendsKeeps, LooksKeeps DEF AccountsStep, AccountsInv, Moves, Pends, Looks
<1>2. call' # NoCall BY <1>1, NothingCalled
<1>3. feature' = feature BY DEF AccountsStep
<1>4. reported' = {} BY DEF AccountsStep, AccountsInv
<1>5. Held(native)' <=> Held(native') BY <1>3 DEF Held
<1>6. Held(call.seen)' <=> Held(call'.seen) BY <1>3 DEF Held
<1>7. \A s : Advanced(call, s)' <=> Advanced(call', s) BY <1>3 DEF Advanced, Fulfils, Remaining
<1>8. Advanced(call, call.seen)' <=> Advanced(call', call'.seen) BY <1>3 DEF Advanced, Fulfils, Remaining
<1>9. Fulfils(call.seen, call.job)' <=> Fulfils(call'.seen, call'.job) BY <1>3 DEF Fulfils
<1>10. Commissioned(call.job)' <=> Commissioned(call.job) BY <1>1, <1>3 DEF Commissioned
<1>11. feature' \in Accounts!Features BY <1>3 DEF AccountsInv
<1>12. call.pc' = call'.pc /\ call.todo' = call'.todo /\ call.then' = call'.then /\ call.expect' = call'.expect
  OBVIOUS
<1>13. call' # NoCall => /\ reported' = {} /\ Commissioned(call.job)' /\ Held(call.seen)' /\ call.todo' \in Lists
  BY <1>4, <1>6, <1>10, <1>12 DEF AccountsStep, AccountsInv
<1>14. call'.pc = "readback" =>
         call'.then = "compare" /\ call'.expect # {} /\ \A s \in call'.expect : Advanced(call, s)'
  BY <1>7 DEF AccountsStep
<1> QED BY <1>1, <1>2, <1>4, <1>5, <1>8, <1>9, <1>11, <1>13, <1>14 DEF AccountsStep, AccountsInv, Lists

LEMMA AccountsAt ==
    \A label : Accounts!At(label) =>
        /\ call.pc = label
        /\ label # "idle" => call # NoCall
        /\ label \in {"start", "compare", "next", "done"} => call.pc \notin Unlooked
BY AccountsSame, NothingCalled DEF At, Unlooked

LEMMA AccountsKnows ==
    ASSUME AccountsInv, call # NoCall
    PROVE  /\ DOMAIN call = Fields /\ Accounts!want = call.job /\ Accounts!seen = call.seen
           /\ Held(native) /\ Held(call.seen) /\ Commissioned(call.job)
BY DEF AccountsInv, LookedInv, Shaped, Accounts!want, Accounts!seen

\* The account that was asked for passes the readback, and whatever passes it
\* is in all that can be read what was asked for.
LEMMA LooksAre ==
    ASSUME feature \in {"aaaserver", "aaauser"}, NEW job, Commissioned(job), NEW s, Held(s)
    PROVE  /\ Held([s EXCEPT !.entry = job.entry, !.secret = job.secret])
           /\ [s EXCEPT !.entry = job.entry, !.secret = job.secret] \in Accounts!Looks(job.entry, job.secret)
           /\ \A a \in Accounts!Looks(job.entry, job.secret) : Fulfils(a, job)
<1> DEFINE w == [s EXCEPT !.entry = job.entry, !.secret = job.secret]
<1>1. Accounts!ConfigurationsOf[feature] =
          IF feature = "aaaserver" THEN Accounts!Servers ELSE Accounts!Accounts
  BY DEF Accounts!ConfigurationsOf, Accounts!Users
<1>2. s \in [entry : 0..2, secret : 0..2, protected : 0..1] /\ (feature = "aaaserver" => s.protected = 0)
  BY <1>1 DEF Held, Accounts!Servers, Accounts!Accounts
<1>3. job.entry \in 0..2 /\ job.secret \in 0..2 /\ (job.entry = 0 => job.secret = 0)
  BY DEF Commissioned
<1>4. /\ w \in [entry : 0..2, secret : 0..2, protected : 0..1] /\ w.protected = s.protected
      /\ w.entry = job.entry /\ w.secret = job.secret /\ DOMAIN w = AccountFields
  BY <1>2, <1>3 DEF AccountFields
<1>. HIDE DEF w
<1>5. w \in Accounts!ConfigurationsOf[feature]
  BY <1>1, <1>2, <1>3, <1>4 DEF Accounts!Servers, Accounts!Accounts
<1>6. Held(w) /\ w \in Accounts!Looks(job.entry, job.secret)
  BY <1>3, <1>4, <1>5 DEF Held, Accounts!Looks
<1>7. \A a \in Accounts!Looks(job.entry, job.secret) : Fulfils(a, job)
  BY DEF Accounts!Looks, Fulfils
<1> QED BY <1>6, <1>7 DEF w

\* What is left of a list once its first is done.
LEMMA ListsAre ==
    ASSUME NEW s \in Lists, s # <<>>
    PROVE  /\ Tail(s) \in Lists /\ Head(s) \in PolicyFields
           /\ {s[i] : i \in DOMAIN s} = {Head(s)} \union {Tail(s)[i] : i \in DOMAIN Tail(s)}
           /\ Head(s) = "login" => Tail(s) = <<>>
<1>1. CASE s = <<"login">>
  <2>1. Head(s) = "login" /\ Tail(s) = <<>> BY <1>1
  <2> QED BY <1>1, <2>1 DEF Lists, PolicyFields
<1>2. CASE s = <<"dot1x", "login">>
  <2>1. Head(s) = "dot1x" /\ Tail(s) = <<"login">> BY <1>2
  <2>2. {s[i] : i \in DOMAIN s} = {"dot1x", "login"} BY <1>2
  <2> QED BY <2>1, <2>2 DEF Lists, PolicyFields
<1>3. CASE s = <<"coa", "dot1x", "login">>
  <2>1. Head(s) = "coa" /\ Tail(s) = <<"dot1x", "login">> BY <1>3
  <2>2. {s[i] : i \in DOMAIN s} = {"coa", "dot1x", "login"} BY <1>3
  <2>3. {Tail(s)[i] : i \in DOMAIN Tail(s)} = {"dot1x", "login"}
    <3> DEFINE u == <<"dot1x", "login">>
    <3>1. {u[i] : i \in DOMAIN u} = {"dot1x", "login"} OBVIOUS
    <3> QED BY <2>1, <3>1, Zenon
  <2> QED BY <2>1, <2>2, <2>3 DEF Lists, PolicyFields
<1> QED BY <1>1, <1>2, <1>3 DEF Lists

LEMMA AccountsGotoSteps ==
    ASSUME AccountsInv, call # NoCall, NEW label, Accounts!Goto(label), call.pc \notin Unlooked,
           label \notin {"readback", "create"},
           label \in {"compare", "next"} => Advanced(call, call.seen),
           label = "done" => Fulfils(call.seen, call.job)
    PROVE  AccountsStep
<1>1. /\ Moves /\ call'.pc = label /\ UNCHANGED <<feature, native, cache, reported>>
      /\ call' = [call EXCEPT !.pc = label]
  BY AccountsKnows, AccountsSame, GotoIs
<1>2. call'.todo = call.todo /\ call'.job = call.job /\ call'.seen = call.seen
  BY <1>1, AccountsKnows DEF Fields
<1>3. Advanced(call, call.seen) => Advanced(call', call'.seen) BY <1>2 DEF Advanced, Remaining
<1> QED BY <1>1, <1>2, <1>3 DEF AccountsStep, AccountsInv

LEMMA AccountsRequests ==
    ASSUME AccountsInv, call # NoCall, NEW S, \A s \in S : Held(s), NEW x, NEW c, Accounts!Send(S, x, c),
           DOMAIN c = Fields, c.job = call.job, c.seen = call.seen, c.todo \in Lists,
           c.pc \in {"readback", "create"}, c.pc = "create" => Advanced(c, c.seen),
           c.pc = "readback" => c.then = "compare" /\ c.expect # {} /\ \A s \in c.expect : Advanced(c, s),
           c.pc = "create" => c.todo # <<>> /\ Head(c.todo) = "dot1x"
    PROVE  AccountsStep
<1>1. /\ UNCHANGED <<feature, reported>> /\ native' \in S \union {native} /\ DOMAIN call' = Fields
      /\ unowned' \in Rest \union {unowned}
      /\ \A f \in Fields \ {"failed", "quiet"} : call'[f] = c[f]
  BY AccountsKnows, AccountsSame, SendIs
<1>2. /\ call'.pc = c.pc /\ call'.job = call.job /\ call'.seen = c.seen
      /\ call'.todo = c.todo /\ call'.then = c.then /\ call'.expect = c.expect
  BY <1>1 DEF Fields
<1>3. Pends BY <1>1, <1>2 DEF Pends, Unlooked
<1>4. Held(native') BY <1>1, AccountsKnows
<1>5. \A s : Advanced(c, s) => Advanced(call', s) BY <1>2 DEF Advanced, Remaining
<1> QED BY <1>1, <1>2, <1>3, <1>4, <1>5, AccountsKnows DEF AccountsStep

-----------------------------------------------------------------------------
(* Every action of AAA is such a step.                                     *)

LEMMA PolicyBeginSteps ==
    ASSUME AccountsInv, call # NoCall, feature = "aaapolicy", Accounts!PolicyBegin
    PROVE  AccountsStep
<1> DEFINE label == IF Accounts!Agrees(call.cached, Accounts!seen) THEN "next" ELSE "refused"
           c == [call EXCEPT !.pc = label, !.todo = Accounts!PolicyOrder]
<1>1. Accounts!At("start") /\ Accounts!Continue(c) BY DEF Accounts!PolicyBegin
<1>2. label \in {"next", "refused"} OBVIOUS
<1>. HIDE DEF label
<1>3. /\ DOMAIN c = Fields /\ c.pc = label /\ c.todo = Accounts!PolicyOrder
      /\ \A f \in Fields \ {"pc", "todo"} : c[f] = call[f]
  BY AccountsKnows DEF Fields
<1>4. call' = c /\ UNCHANGED <<feature, native, cache, unowned, reported>>
  BY <1>1, AccountsSame, ContinueIs
<1>. HIDE DEF c
<1>5. call.pc \notin Unlooked BY <1>1, AccountsAt
<1>6. Moves /\ call'.seen = call.seen BY <1>3, <1>4, <1>5 DEF Moves, Fields
<1>7. Accounts!PolicyOrder \in Lists BY DEF Accounts!PolicyOrder, Lists
<1>8. {Accounts!PolicyOrder[i] : i \in DOMAIN Accounts!PolicyOrder} = PolicyFields
  BY DEF Accounts!PolicyOrder, PolicyFields
<1>9. Advanced(call', call'.seen) BY <1>3, <1>4, <1>8 DEF Advanced, Remaining
<1> QED BY <1>2, <1>3, <1>4, <1>6, <1>7, <1>9, AccountsKnows DEF AccountsStep

LEMMA WroteSteps ==
    ASSUME AccountsInv, call # NoCall, feature = "aaapolicy", call.todo # <<>>,
           Advanced(call, call.seen), Accounts!Wrote(Head(call.todo))
    PROVE  AccountsStep
<1> DEFINE field == Head(call.todo)
           v == Accounts!want[field]
           s == [Accounts!seen EXCEPT ![field] = v]
           c == [call EXCEPT !.pc = "readback", !.then = "compare", !.todo = Tail(call.todo), !.expect = {s}]
           x == [cache EXCEPT ![field] = v]
           w == Accounts!With(field)
<1>1. Accounts!Send({w}, x, c)
  <2>1. [call EXCEPT !.pc = "readback", !.then = "compare", !.todo = Tail(@), !.expect = {s}] = c
    BY AccountsKnows DEF Fields
  <2>2. Accounts!Send({w}, x, [call EXCEPT !.pc = "readback", !.then = "compare", !.todo = Tail(@),
                                          !.expect = {s}])
    BY DEF Accounts!Wrote
  <2> QED BY <2>1, <2>2
<1>2. /\ field \in PolicyFields /\ Tail(call.todo) \in Lists
      /\ Remaining(call) = {field} \union {Tail(call.todo)[i] : i \in DOMAIN Tail(call.todo)}
  BY ListsAre DEF AccountsInv, Remaining
<1>3. /\ Accounts!seen \in [PolicyFields -> 0..2] /\ native \in [PolicyFields -> 0..2]
      /\ Accounts!want \in [PolicyFields -> 0..2]
  BY AccountsKnows DEF Held, Commissioned
<1>4. /\ DOMAIN c = Fields /\ c.job = call.job /\ c.seen = call.seen /\ c.todo = Tail(call.todo)
      /\ c.pc = "readback" /\ c.then = "compare" /\ c.expect = {s}
  BY AccountsKnows DEF Fields
<1>. HIDE DEF c, x
<1>5. v \in 0..2 BY <1>2, <1>3
<1>6. Held(w)
  <2>1. w \in {native, [native EXCEPT ![field] = v]} BY DEF Accounts!With
  <2>. HIDE DEF w, v, field
  <2> QED BY <1>2, <1>3, <1>5, <2>1 DEF Held
<1>7. Advanced(c, s)
  <2>1. \A y \in PolicyFields : s[y] = IF y = field THEN v ELSE Accounts!seen[y] BY <1>3
  <2>2. \A y \in PolicyFields \ Remaining(c) : y = field \/ y \notin Remaining(call)
    BY <1>2, <1>4 DEF Remaining
  <2>. HIDE DEF s
  <2> QED BY <2>1, <2>2, <1>4, AccountsKnows DEF Advanced
<1> QED BY <1>1, <1>2, <1>4, <1>6, <1>7, AccountsRequests

LEMMA PolicyWriteSteps ==
    ASSUME AccountsInv, call # NoCall, feature = "aaapolicy", Accounts!PolicyWrite
    PROVE  AccountsStep
<1> DEFINE field == Head(call.todo)
<1>1. /\ Accounts!At("next") /\ call.todo # <<>>
      /\ \/ /\ Accounts!seen[field] = Accounts!want[field]
            /\ Accounts!Continue([call EXCEPT !.todo = Tail(@)])
         \/ /\ field = "dot1x"
            /\ Accounts!Send({native}, [cache EXCEPT !.dot1x = 0], [call EXCEPT !.pc = "create"])
         \/ Accounts!Wrote(field)
  BY DEF Accounts!PolicyWrite
<1>2. call.pc = "next" /\ call.pc \notin Unlooked BY <1>1, AccountsAt
<1>3. Advanced(call, call.seen) BY <1>2 DEF AccountsInv
<1>4. CASE Accounts!seen[field] = Accounts!want[field] /\ Accounts!Continue([call EXCEPT !.todo = Tail(@)])
  <2> DEFINE c == [call EXCEPT !.todo = Tail(call.todo)]
  <2>1. call' = c /\ UNCHANGED <<feature, native, cache, unowned, reported>>
    <3>1. [call EXCEPT !.todo = Tail(@)] = c BY AccountsKnows DEF Fields
    <3> QED BY <1>4, <3>1, AccountsSame, ContinueIs
  <2>2. /\ DOMAIN c = Fields /\ c.todo = Tail(call.todo) /\ \A f \in Fields \ {"todo"} : c[f] = call[f]
    BY AccountsKnows DEF Fields
  <2>. HIDE DEF c
  <2>3. Moves /\ call'.seen = call.seen /\ call'.pc = "next" /\ call'.job = call.job
    BY <1>2, <2>1, <2>2 DEF Moves, Fields
  <2>4. /\ Tail(call.todo) \in Lists
        /\ Remaining(call) = {field} \union {Tail(call.todo)[i] : i \in DOMAIN Tail(call.todo)}
    BY <1>1, ListsAre DEF AccountsInv, Remaining
  <2>5. \A y \in PolicyFields \ Remaining(call') : y = field \/ y \notin Remaining(call)
    BY <2>1, <2>2, <2>4 DEF Remaining
  <2>6. Advanced(call', call'.seen) BY <1>3, <1>4, <2>3, <2>5, AccountsKnows DEF Advanced
  <2> QED BY <2>1, <2>2, <2>3, <2>4, <2>6, AccountsKnows DEF AccountsStep
<1>5. CASE field = "dot1x"
           /\ Accounts!Send({native}, [cache EXCEPT !.dot1x = 0], [call EXCEPT !.pc = "create"])
  <2> DEFINE c == [call EXCEPT !.pc = "create"]
             x == [cache EXCEPT !.dot1x = 0]
  <2>1. /\ DOMAIN c = Fields /\ c.pc = "create" /\ \A f \in Fields \ {"pc"} : c[f] = call[f]
    BY AccountsKnows DEF Fields
  <2>2. Accounts!Send({native}, x, c) BY <1>5
  <2>. HIDE DEF c, x
  <2>3. c.todo = call.todo /\ c.job = call.job /\ c.seen = call.seen BY <2>1 DEF Fields
  <2>4. Advanced(c, c.seen) BY <1>3, <2>3 DEF Advanced, Remaining
  <2>5. c.todo \in Lists BY <2>3 DEF AccountsInv
  <2> QED BY <1>1, <1>5, <2>1, <2>2, <2>3, <2>4, <2>5, AccountsKnows, AccountsRequests
<1> QED BY <1>1, <1>3, <1>4, <1>5, WroteSteps

LEMMA PolicyCreateSteps ==
    ASSUME AccountsInv, call # NoCall, feature = "aaapolicy", Accounts!PolicyCreate
    PROVE  AccountsStep
<1>1. /\ Accounts!At("create")
      /\ IF call.failed THEN Accounts!Goto("failed") ELSE Accounts!Wrote("dot1x")
  BY DEF Accounts!PolicyCreate
<1>2. call.pc = "create" BY <1>1, AccountsAt
<1>3. CASE call.failed /\ Accounts!Goto("failed")
  <2>1. /\ call' = [call EXCEPT !.pc = "failed"]
        /\ UNCHANGED <<feature, native, cache, unowned, reported>>
    BY <1>3, AccountsSame, ContinueIs DEF Goto
  <2>2. /\ DOMAIN call' = Fields /\ call'.pc = "failed" /\ call'.job = call.job /\ call'.seen = call.seen
        /\ call'.todo = call.todo
    BY <2>1, AccountsKnows DEF Fields
  <2>3. Pends BY <2>1, <2>2 DEF Pends, Unlooked
  <2> QED BY <2>1, <2>2, <2>3, AccountsKnows DEF AccountsStep, AccountsInv
<1>4. CASE Accounts!Wrote("dot1x")
  <2>1. call.todo # <<>> /\ Head(call.todo) = "dot1x" /\ Advanced(call, call.seen)
    BY <1>2 DEF AccountsInv
  <2> QED BY <1>4, <2>1, WroteSteps
<1> QED BY <1>1, <1>3, <1>4

LEMMA CompleteSteps == ASSUME AccountsInv, call # NoCall, Accounts!Complete PROVE AccountsStep
<1>1. Accounts!At("next") /\ call.todo = <<>> /\ Accounts!Goto("done") BY DEF Accounts!Complete
<1>2. call.pc = "next" /\ call.pc \notin Unlooked BY <1>1, AccountsAt
<1>3. Advanced(call, call.seen) BY <1>2 DEF AccountsInv
<1>4. Remaining(call) = {} BY <1>1 DEF Remaining
<1>5. Fulfils(call.seen, call.job)
  BY <1>3, <1>4, AccountsKnows DEF Advanced, Fulfils, Held, Commissioned
<1> QED BY <1>1, <1>2, <1>5, AccountsGotoSteps

LEMMA CompareSteps == ASSUME AccountsInv, call # NoCall, Accounts!Compare PROVE AccountsStep
<1> DEFINE label == IF Accounts!Agrees(cache, Accounts!seen) THEN "next" ELSE "failed"
<1>1. Accounts!At("compare") /\ Accounts!Goto(label) BY DEF Accounts!Compare
<1>2. label \in {"next", "failed"} OBVIOUS
<1>. HIDE DEF label
<1>3. call.pc = "compare" /\ call.pc \notin Unlooked BY <1>1, AccountsAt
<1>4. Advanced(call, call.seen) BY <1>3 DEF AccountsInv
<1> QED BY <1>1, <1>2, <1>3, <1>4, AccountsGotoSteps

LEMMA AccountSteps ==
    ASSUME AccountsInv, call # NoCall, feature # "aaapolicy", NEW refused, Accounts!Account(refused)
    PROVE  AccountsStep
<1> DEFINE wanted(s) == [s EXCEPT !.entry = Accounts!want.entry, !.secret = Accounts!want.secret]
           expected == Accounts!Looks(Accounts!want.entry, Accounts!want.secret)
<1>1. /\ Accounts!At("start")
      /\ \/ Accounts!Goto("refused")
         \/ Accounts!Unneeded /\ Accounts!Goto("done")
         \/ Accounts!Written({wanted(native)}, Accounts!want.entry, expected)
  BY DEF Accounts!Account
<1>2. call.pc = "start" /\ call.pc \notin Unlooked BY <1>1, AccountsAt
<1>3. CASE Accounts!Goto("refused")
  BY <1>2, <1>3, AccountsGotoSteps
<1>4. CASE Accounts!Unneeded /\ Accounts!Goto("done")
  <2>1. Fulfils(call.seen, call.job)
    BY <1>4, AccountsKnows DEF Accounts!Unneeded, Fulfils, Held, Commissioned
  <2> QED BY <1>2, <1>4, <2>1, AccountsGotoSteps
<1>5. CASE Accounts!Written({wanted(native)}, Accounts!want.entry, expected)
  <2> DEFINE c == [call EXCEPT !.pc = "readback", !.then = "compare", !.expect = expected]
  <2>1. /\ DOMAIN c = Fields /\ c.job = call.job /\ c.seen = call.seen /\ c.todo = call.todo
        /\ c.pc = "readback" /\ c.then = "compare" /\ c.expect = expected
    BY AccountsKnows DEF Fields
  <2>2. Accounts!Send({wanted(native)}, Accounts!want.entry, c) BY <1>5 DEF Accounts!Written
  <2>3. feature \in {"aaaserver", "aaauser"} BY DEF AccountsInv, Accounts!Features
  <2>4. /\ Held(wanted(native)) /\ wanted(native) \in expected
        /\ \A e \in expected : Fulfils(e, call.job)
    BY <2>3, LooksAre, AccountsKnows
  <2>. HIDE DEF c, wanted, expected
  <2>7. expected # {} /\ \A e \in expected : Advanced(c, e)
    BY <2>1, <2>4 DEF Advanced
  <2>8. c.todo \in Lists BY <2>1 DEF AccountsInv
  <2> QED BY <2>1, <2>2, <2>4, <2>7, <2>8, AccountsRequests
<1> QED BY <1>1, <1>3, <1>4, <1>5

-----------------------------------------------------------------------------
(* AAA: what a call reported stands.                                       *)

LEMMA PoliciesHeld ==
    /\ Accounts!Policies \subseteq [PolicyFields -> 0..2]
    /\ \A s \in Accounts!Accounts : DOMAIN s = AccountFields /\ (s.entry = 0 => s.secret = 0)
BY DEF Accounts!Policies, Accounts!Accounts, PolicyFields, AccountFields

LEMMA ConfigurationsHeld ==
    ASSUME feature \in Accounts!Features
    PROVE  \A s \in Accounts!ConfigurationsOf[feature] : Held(s)
<1>1. CASE feature = "aaapolicy"
  BY <1>1, PoliciesHeld DEF Accounts!ConfigurationsOf, Held
<1>2. CASE feature \in {"aaaserver", "aaauser"}
  <2>1. Accounts!ConfigurationsOf[feature] \subseteq Accounts!Accounts
    BY <1>2 DEF Accounts!ConfigurationsOf, Accounts!Servers, Accounts!Users
  <2> QED BY <1>2, <2>1, PoliciesHeld DEF Held
<1> QED BY <1>1, <1>2 DEF Accounts!Features

LEMMA JobsCommissioned ==
    ASSUME feature \in Accounts!Features
    PROVE  \A job \in Accounts!Wanted(feature) : Commissioned(job)
<1>1. CASE feature = "aaapolicy"
  BY <1>1, PoliciesHeld DEF Accounts!Wanted, Commissioned
<1>2. CASE feature \in {"aaaserver", "aaauser"}
  <2>1. Accounts!Wanted(feature) \subseteq Accounts!Jobs
    BY <1>2 DEF Accounts!Wanted, Accounts!ServerJobs, Accounts!UserJobs
  <2>2. \A j \in Accounts!Jobs : /\ {"entry", "secret"} \subseteq DOMAIN j /\ j.entry \in 0..2 /\ j.secret \in 0..2
                                 /\ j.entry = 0 => j.secret = 0
    BY DEF Accounts!Jobs
  <2> QED BY <1>2, <2>1, <2>2 DEF Commissioned
<1> QED BY <1>1, <1>2 DEF Accounts!Features

LEMMA AccountsInitHolds == ASSUME Accounts!Init PROVE AccountsInv
<1>1. /\ feature \in Accounts!Features /\ call = NoCall /\ reported = {} /\ unowned \in Rest
      /\ native \in Accounts!ConfigurationsOf[feature]
  BY AccountsSame, UntouchedRests DEF Accounts!Init
<1> QED BY <1>1, ConfigurationsHeld, NothingCalled DEF AccountsInv, LookedInv, Shaped, Looking

LEMMA AccountsStart == ASSUME AccountsInv, call # NoCall, Accounts!Start PROVE AccountsStep
<1>1. CASE Accounts!TimesOut
  <2>1. /\ call' = [[call EXCEPT !.pc = "failed"] EXCEPT !.quiet = FALSE]
        /\ UNCHANGED <<feature, native, cache, reported>>
    BY <1>1, AccountsSame DEF TimesOut, Fail, Faulty, switch
  <2>2. Pends /\ call'.pc = "failed" BY <1>1, AccountsSame, AccountsKnows, TimesOutIs
  <2>3. call'.seen = call.seen /\ call'.todo = call.todo BY <2>1, AccountsKnows DEF Fields
  <2> QED BY <2>1, <2>2, <2>3, AccountsKnows DEF AccountsStep, AccountsInv
<1>2. CASE Accounts!Continue([Accounts!Observed EXCEPT !.pc = "start"])
  <2>. DEFINE c == [Accounts!Observed EXCEPT !.pc = "start"]
  <2>1. /\ DOMAIN c = Fields /\ c.pc = "start" /\ c.seen = native /\ unowned \in c.others
        /\ c.job = call.job /\ c.todo = call.todo
    BY AccountsKnows, AccountsSame, PreservedHas DEF Accounts!Observed, Fields, AccountsInv, LookedInv
  <2>2. call' = c /\ UNCHANGED <<feature, native, cache, unowned, reported>>
    BY <1>2, AccountsSame, ContinueIs
  <2>. HIDE DEF c
  <2>3. Looks BY <2>1, <2>2 DEF Looks, Accounted
  <2> QED BY <2>1, <2>2, <2>3, AccountsKnows DEF AccountsStep, AccountsInv
<1> QED BY <1>1, <1>2 DEF Accounts!Start

LEMMA AccountsReadback == ASSUME AccountsInv, call # NoCall, Accounts!Readback PROVE AccountsStep
<1>1. Readback /\ call.pc = "readback" BY AccountsSame, NothingCalled DEF Readback, At
<1>2. /\ UNCHANGED <<feature, native, cache, reported>> /\ call'.todo = call.todo /\ call'.job = call.job
      /\ call'.seen \in {native, call.seen}
  BY <1>1, AccountsKnows DEF Readback, Faulty, Sound, switch, Fail, Fields
<1>3. CASE call'.pc = "failed"
  BY <1>1, <1>2, <1>3, AccountsKnows, ReadbackIs DEF AccountsStep, AccountsInv
<1>4. CASE Looks /\ call'.pc = call.then /\ Confirmed
  <2>1. call.then = "compare" /\ Advanced(call, native)
    BY <1>1, <1>4 DEF AccountsInv, Confirmed
  <2>2. call'.seen = native BY <1>4 DEF Looks
  <2>3. Advanced(call', call'.seen) BY <1>2, <2>1, <2>2 DEF Advanced, Remaining
  <2> QED BY <1>2, <1>4, <2>1, <2>2, <2>3, AccountsKnows DEF AccountsStep, AccountsInv
<1> QED BY <1>1, <1>3, <1>4, AccountsKnows, ReadbackIs

LEMMA AccountsUntouched ==
    ASSUME AccountsInv, UNCHANGED <<feature, native>>
    PROVE  Held(native)' /\ feature' \in Accounts!Features
BY DEF AccountsInv, Held

LEMMA AccountsEnd == ASSUME AccountsInv, Accounts!Return \/ Accounts!Refuse PROVE AccountsInv'
<1>1. /\ LookedInv' /\ call' = NoCall /\ UNCHANGED <<feature, native, cache, unowned>>
      /\ reported' = {} \/ (reported' = {call.job} /\ Succeeds /\ call.fresh)
  BY AccountsSame, EndIs DEF AccountsInv
<1>2. \A job \in reported' : Fulfils(native, job)
  <2>1. Succeeds /\ call.fresh => Looking /\ call.pc = "done"
    BY NothingCalled DEF Succeeds, Looking, At, Unlooked
  <2>2. Looking /\ call.pc = "done" => Fulfils(native, call.job)
    BY DEF AccountsInv, LookedInv, Looking
  <2> QED BY <1>1, <2>1, <2>2
<1>3. \A job \in reported' : Fulfils(native, job)' BY <1>1, <1>2 DEF Fulfils
<1> QED BY <1>1, <1>3, AccountsUntouched DEF AccountsInv

LEMMA AccountsBegin ==
    ASSUME AccountsInv, NEW job \in Accounts!Wanted(feature), Accounts!Begin(job)
    PROVE  AccountsInv'
<1>1. /\ LookedInv' /\ reported' = {} /\ call' # NoCall
      /\ UNCHANGED <<feature, native, cache, unowned>> /\ call'.pc = "read" /\ call'.job = job
  BY AccountsSame, BeginIs DEF AccountsInv
<1>2. call'.seen = native /\ call'.todo = <<>>
  BY AccountsSame DEF Begin
<1>3. call'.todo \in Lists BY <1>2 DEF Lists
<1>4. Held(call.seen)' BY <1>1, <1>2 DEF Held, AccountsInv
<1>5. Commissioned(job) BY JobsCommissioned DEF AccountsInv
<1>6. Commissioned(call.job)' BY <1>1, <1>5 DEF Commissioned
<1> QED BY <1>1, <1>3, <1>4, <1>6, AccountsUntouched DEF AccountsInv, Lists

\* Nothing but the configuration, its copy and how the call is remembered changes.
LEMMA AccountsBystander ==
    ASSUME AccountsInv, LookedInv', reported' \subseteq reported, UNCHANGED feature, Held(native'),
           \/ call = NoCall /\ call' = NoCall
           \/ call # NoCall /\ call' # NoCall /\ \A f \in Fields \ {"quiet", "fresh"} : call'[f] = call[f],
           reported' # {} => UNCHANGED native
    PROVE  AccountsInv'
<1>1. call # NoCall => /\ call'.job = call.job /\ call'.pc = call.pc /\ call'.seen = call.seen
                       /\ call'.todo = call.todo /\ call'.then = call.then /\ call'.expect = call.expect
  BY DEF Fields
<1>2. Held(native)' BY DEF Held
<1>3. call # NoCall => Held(call.seen)' /\ Commissioned(call.job)'
  BY <1>1 DEF AccountsInv, Held, Commissioned
<1>4. call # NoCall => \A s : Advanced(call, s)' <=> Advanced(call, s)
  BY <1>1 DEF Advanced, Remaining, Fulfils
<1>5. call # NoCall => (Advanced(call, call.seen)' <=> Advanced(call, call.seen))
  BY <1>1 DEF Advanced, Remaining, Fulfils
<1>6. call # NoCall => (Fulfils(call.seen, call.job)' <=> Fulfils(call.seen, call.job))
  BY <1>1 DEF Fulfils
<1>7. \A job \in reported' : Fulfils(native, job)'
  BY DEF AccountsInv, Fulfils
<1>8. call' # NoCall /\ call'.pc = "readback" =>
        call'.then = "compare" /\ call'.expect # {} /\ \A s \in call'.expect : Advanced(call, s)'
  BY <1>1, <1>4 DEF AccountsInv
<1>9. call' # NoCall =>
        /\ reported' = {} /\ call'.todo \in Lists
        /\ call'.pc \in {"compare", "next", "create"} => Advanced(call, call.seen)'
        /\ call'.pc = "create" => call'.todo # <<>> /\ Head(call'.todo) = "dot1x"
        /\ call'.pc = "done" => Fulfils(call.seen, call.job)'
  BY <1>1, <1>5, <1>6 DEF AccountsInv
<1> QED BY <1>2, <1>3, <1>7, <1>8, <1>9 DEF AccountsInv, Lists

LEMMA AccountsOutside == ASSUME AccountsInv, Accounts!Outside PROVE AccountsInv'
<1> DEFINE S == {s \in Accounts!ConfigurationsOf[feature] : \E x \in DOMAIN s : s = [native EXCEPT ![x] = s[x]]}
<1>1. Interference(S)
  <2>1. Accounts!Interference(S) BY DEF Accounts!Outside
  <2>. HIDE DEF S
  <2> QED BY <2>1, AccountsSame
<1>2. \A s \in S : Held(s) BY ConfigurationsHeld DEF AccountsInv
<1>. HIDE DEF S
<1>3. /\ LookedInv' /\ reported' = {} /\ UNCHANGED feature
      /\ native' = native \/ native' \in S
      /\ \/ call = NoCall /\ call' = NoCall
         \/ /\ call # NoCall /\ call' # NoCall
            /\ \A f \in Fields \ {"quiet", "fresh"} : call'[f] = call[f]
  BY <1>1, InterferenceIs DEF AccountsInv
<1>4. Held(native') BY <1>2, <1>3 DEF AccountsInv
<1> QED BY <1>3, <1>4, AccountsBystander

LEMMA AccountsIdle ==
    ASSUME AccountsInv, UNCHANGED <<feature, native, unowned, call, reported>>
    PROVE  AccountsInv'
<1>1. LookedInv' BY DEF AccountsInv, LookedInv, Shaped, Looking, Unlooked, Accounted
<1>2. Held(native') BY DEF AccountsInv
<1> QED BY <1>1, <1>2, AccountsBystander DEF NoCall

LEMMA AccountsNextHolds == ASSUME AccountsInv, Accounts!Next PROVE AccountsInv'
<1>a. ASSUME NEW label, Accounts!At(label), label # "idle" PROVE call # NoCall
  BY <1>a, AccountsAt
<1>1. CASE \E job \in Accounts!Wanted(feature) : Accounts!Begin(job)
  BY <1>1, AccountsBegin
<1>2. CASE Accounts!Start \/ Accounts!Readback
  <2>1. call # NoCall BY <1>2, <1>a, AccountsSame DEF Accounts!Start, Readback
  <2> QED BY <1>2, <2>1, AccountsStart, AccountsReadback, AccountsStepHolds
<1>3. CASE Accounts!Refuse \/ Accounts!Return
  BY <1>3, AccountsEnd
<1>4. CASE Accounts!Compare \/ Accounts!Complete
  <2>1. call # NoCall BY <1>4, <1>a DEF Accounts!Compare, Accounts!Complete
  <2> QED BY <1>4, <2>1, CompareSteps, CompleteSteps, AccountsStepHolds
<1>5. CASE Accounts!Policy
  <2>1. /\ feature = "aaapolicy"
        /\ Accounts!PolicyBegin \/ Accounts!PolicyWrite \/ Accounts!PolicyCreate
    BY <1>5 DEF Accounts!Policy
  <2>2. \E label \in {"start", "next", "create"} : Accounts!At(label)
    BY Zenon, <2>1 DEF Accounts!PolicyBegin, Accounts!PolicyWrite, Accounts!PolicyCreate
  <2>3. call # NoCall BY <2>2, <1>a
  <2> QED BY <2>1, <2>3, PolicyBeginSteps, PolicyWriteSteps, PolicyCreateSteps, AccountsStepHolds
<1>6. CASE Accounts!Server \/ Accounts!User
  <2>1. feature # "aaapolicy" /\ \E refused : Accounts!Account(refused)
    <3>1. CASE Accounts!Server
      <4>1. feature = "aaaserver" /\ Accounts!Account(Accounts!ServerRefused)
        BY <3>1, Zenon DEF Accounts!Server
      <4> QED BY <4>1
    <3>2. CASE Accounts!User
      <4>1. feature = "aaauser" /\ Accounts!Account(Accounts!UserRefused) BY <3>2, Zenon DEF Accounts!User
      <4> QED BY <4>1
    <3> QED BY <1>6, <3>1, <3>2
  <2>2. PICK refused : Accounts!Account(refused) BY <2>1
  <2>3. call # NoCall
    <3>1. Accounts!At("start") BY <2>2, Zenon DEF Accounts!Account
    <3> QED BY <3>1, <1>a
  <2> QED BY <2>1, <2>2, <2>3, AccountSteps, AccountsStepHolds
<1>7. CASE Accounts!Outside BY <1>7, AccountsOutside
<1>8. CASE Accounts!CacheSyncs \/ Accounts!Finished
  <2>1. UNCHANGED <<feature, native, unowned, call, reported>>
    BY <1>8, AccountsSame DEF Accounts!CacheSyncs, Finished, vars, switch
  <2> QED BY <2>1, AccountsIdle
<1> QED BY <1>1, <1>2, <1>3, <1>4, <1>5, <1>6, <1>7, <1>8 DEF Accounts!Next, Accounts!Apply

-----------------------------------------------------------------------------
(* The four groups of features as one system.                              *)

FeaturesInv ==
    /\ feature \in Values!Features \union Listed!Features \union Access!Features \union Accounts!Features
    /\ feature \in Values!Features => ValuesInv
    /\ feature \in Listed!Features => ListedInv
    /\ feature \in Access!Features => AccessInv
    /\ feature \in Accounts!Features => AccountsInv

\* No feature is in two groups.
LEMMA GroupsApart ==
    /\ Values!Features \intersect Listed!Features = {}
    /\ Values!Features \intersect Access!Features = {}
    /\ Values!Features \intersect Accounts!Features = {}
    /\ Listed!Features \intersect Access!Features = {}
    /\ Listed!Features \intersect Accounts!Features = {}
    /\ Access!Features \intersect Accounts!Features = {}
<1>1. Values!Features = {"dscptrust", "protectedport", "jumbo", "poe", "voicevlan", "lldp", "lldpglobal",
                         "ethernet", "lag", "stp", "igmpglobal", "igmpvlan", "storm"}
  BY DEF Values!Features, Values!SettingsOf
<1>2. Listed!Features = {"ve", "stpvlan", "med", "dns", "area", "binding", "route", "address"}
  BY DEF Listed!Features, Listed!ValuesOf
<1> QED BY <1>1, <1>2 DEF Access!Features, Accounts!Features

LEMMA FeaturesInitHolds == Init => FeaturesInv
<1>1. CASE Values!Init
  <2>1. ValuesInv /\ feature \in Values!Features BY <1>1, ValuesInitHolds DEF ValuesInv
  <2> QED BY <2>1, GroupsApart DEF FeaturesInv
<1>2. CASE Listed!Init
  <2>1. ListedInv /\ feature \in Listed!Features BY <1>2, ListedInitHolds DEF ListedInv
  <2> QED BY <2>1, GroupsApart DEF FeaturesInv
<1>3. CASE Access!Init
  <2>1. AccessInv /\ feature \in Access!Features BY <1>3, AccessInitHolds DEF AccessInv
  <2> QED BY <2>1, GroupsApart DEF FeaturesInv
<1>4. CASE Accounts!Init
  <2>1. AccountsInv /\ feature \in Accounts!Features BY <1>4, AccountsInitHolds DEF AccountsInv
  <2> QED BY <2>1, GroupsApart DEF FeaturesInv
<1> QED BY <1>1, <1>2, <1>3, <1>4 DEF Init

LEMMA FeaturesNextHolds == FeaturesInv /\ [Next]_vars => FeaturesInv'
<1> SUFFICES ASSUME FeaturesInv, [Next]_vars PROVE FeaturesInv'
  OBVIOUS
<1>1. ASSUME feature \in Values!Features, Values!Next \/ UNCHANGED vars PROVE FeaturesInv'
  <2>1. ValuesInv' BY <1>1, ValuesNextHolds, ValuesStutter DEF FeaturesInv
  <2>2. feature' \in Values!Features BY <2>1 DEF ValuesInv
  <2> QED BY <2>1, <2>2, GroupsApart DEF FeaturesInv
<1>2. ASSUME feature \in Listed!Features, Listed!Next \/ UNCHANGED vars PROVE FeaturesInv'
  <2>1. ListedInv' BY <1>2, ListedNextHolds, ListedStutter DEF FeaturesInv
  <2>2. feature' \in Listed!Features BY <2>1 DEF ListedInv
  <2> QED BY <2>1, <2>2, GroupsApart DEF FeaturesInv
<1>3. ASSUME feature \in Access!Features, Access!Next \/ UNCHANGED vars PROVE FeaturesInv'
  <2>1. AccessInv' BY <1>3, AccessNextHolds, AccessStutter DEF FeaturesInv
  <2>2. feature' \in Access!Features BY <2>1 DEF AccessInv
  <2> QED BY <2>1, <2>2, GroupsApart DEF FeaturesInv
<1>4. ASSUME feature \in Accounts!Features, Accounts!Next \/ UNCHANGED vars PROVE FeaturesInv'
  <2>1. UNCHANGED vars => UNCHANGED <<feature, native, unowned, call, reported>> BY DEF vars, switch
  <2>2. AccountsInv' BY <1>4, <2>1, AccountsNextHolds, AccountsIdle DEF FeaturesInv
  <2>3. feature' \in Accounts!Features BY <2>2 DEF AccountsInv
  <2> QED BY <2>2, <2>3, GroupsApart DEF FeaturesInv
<1>5. CASE Next BY <1>1, <1>2, <1>3, <1>4, <1>5 DEF Next
<1>6. CASE UNCHANGED vars BY <1>1, <1>2, <1>3, <1>4, <1>6 DEF FeaturesInv
<1> QED BY <1>5, <1>6

LEMMA FeaturesAlways == Spec => []FeaturesInv
BY FeaturesInitHolds, FeaturesNextHolds, PTL DEF Spec

-----------------------------------------------------------------------------
(* The properties.                                                         *)

\* What a call of a small feature reported as done stands until somebody
\* touches it, for any number of calls of each and of requests that go wrong:
\* the last look of every callback saw the wanted value and nothing follows it.
THEOREM Standing == Spec => []ReportedStands
<1>1. FeaturesInv => ReportedStands
  <2> SUFFICES ASSUME FeaturesInv PROVE ReportedStands
    OBVIOUS
  <2>1. feature \in Values!Features => Values!ReportedStands
    BY DEF FeaturesInv, ValuesInv, Stood, Values!ReportedStands
  <2>2. feature \in Listed!Features => Listed!ReportedStands
    BY DEF FeaturesInv, ListedInv, Settled, Good, Listed!ReportedStands
  <2>3. feature \in Access!Features => Access!ReportedStands
    BY DEF FeaturesInv, AccessInv, Access!ReportedStands
  <2>4. feature \in Accounts!Features => Accounts!ReportedStands
    BY DEF FeaturesInv, AccountsInv, Fulfils, Accounts!ReportedStands
  <2> QED BY <2>1, <2>2, <2>3, <2>4 DEF ReportedStands
<1> QED BY <1>1, FeaturesAlways, PTL

\* A call after which what its readbacks compare is no longer as it was is not
\* reported as done, and so Reconcile does not save, unless it changed after
\* the last look: every command that the feature does not own, of an address
\* the former addresses of its interface, of a server the AAA lines, of a user
\* the username lines, of an Ethernet port nothing.  Damage beyond that is
\* saved.
THEOREM Undamaged == Spec => []DamageIsNotSaved
<1>1. FeaturesInv => DamageIsNotSaved
  <2> SUFFICES ASSUME FeaturesInv PROVE DamageIsNotSaved
    OBVIOUS
  <2>1. LookedInv BY DEF FeaturesInv, ValuesInv, ListedInv, AccessInv, AccountsInv
  <2>2. Succeeds /\ call.fresh => Looking
    BY NothingCalled DEF Succeeds, Looking, At, Unlooked
  <2> QED BY <2>1, <2>2 DEF DamageIsNotSaved, DamageIsSeen, LookedInv, Accounted
<1> QED BY <1>1, FeaturesAlways, PTL

\* A removal that waits for RESTCONF's copy leaves no listing behind.
THEOREM NothingListed == Spec => []NoListingIsLeft
<1>1. FeaturesInv => NoListingIsLeft
  BY DEF FeaturesInv, ListedInv, Settled, Awaited, Listed!NoListingIsLeft, NoListingIsLeft
<1> QED BY <1>1, FeaturesAlways, PTL
-----------------------------------------------------------------------------
(* Calls that nothing disturbs.                                            *)

\* A request that went wrong disturbs the call.
LEMMA SendQuiet ==
    ASSUME NEW S, NEW x, NEW c, Send(S, x, c), DOMAIN c = Fields
    PROVE  /\ call'.quiet => call' = c
           /\ call'.quiet /\ ~call.failed => native' \in S /\ cache' = x
           /\ call.failed => UNCHANGED <<native, cache>>
<1>1. CASE call.failed BY <1>1 DEF Send, switch
<1>2. CASE ~call.failed
  <2>1. CASE Faulty /\ \E error \in BOOLEAN : call' = [c EXCEPT !.failed = error, !.quiet = FALSE]
    BY <1>2, <2>1 DEF Fields
  <2>2. CASE native' \in S /\ cache' = x /\ call' = c
    BY <1>2, <2>2
  <2> QED BY <1>2, <2>1, <2>2 DEF Send
<1> QED BY <1>1, <1>2

LEMMA TimesOutQuiet == ASSUME TimesOut, DOMAIN call = Fields PROVE call' # NoCall /\ ~call'.quiet
<1>1. call' = [[call EXCEPT !.pc = "failed"] EXCEPT !.quiet = FALSE] BY DEF TimesOut, Fail
<1>2. DOMAIN call' = Fields /\ ~call'.quiet BY <1>1 DEF Fields
<1> QED BY <1>2, NothingCalled

LEMMA ReadbackQuiet ==
    ASSUME Readback, DOMAIN call = Fields, call'.quiet
    PROVE  /\ call.quiet /\ call'.fresh /\ call'.seen = native
           /\ call'.pc = IF Confirmed THEN call.then ELSE "failed"
           /\ \A f \in Fields \ {"pc", "fresh", "seen"} : call'[f] = call[f]
           /\ UNCHANGED <<feature, native, cache, unowned>>
<1>1. CASE call' = [Fail EXCEPT !.quiet = FALSE]
  BY <1>1 DEF Fail, Fields
<1>2. CASE /\ call' = [IF Confirmed THEN [call EXCEPT !.pc = call.then] ELSE Fail
                       EXCEPT !.seen = native, !.fresh = TRUE]
           /\ UNCHANGED <<feature, native, cache, unowned>>
  BY <1>2 DEF Fail, Fields
<1> QED BY <1>1, <1>2 DEF Readback, Sound, switch

LEMMA InterferenceQuiet ==
    ASSUME NEW S, Interference(S), DOMAIN call = Fields PROVE call' # NoCall /\ ~call'.quiet
<1>1. call # NoCall BY NothingCalled
<1>2. call' = [call EXCEPT !.quiet = FALSE, !.fresh = FALSE] BY <1>1 DEF Interference, Idle
<1>3. DOMAIN call' = Fields /\ ~call'.quiet BY <1>2 DEF Fields
<1> QED BY <1>3, NothingCalled

LEMMA BeginQuiet ==
    ASSUME NEW job, Begin(job)
    PROVE  call'.fresh /\ ~call'.failed /\ call'.pc = "read" /\ UNCHANGED feature
BY DEF Begin

-----------------------------------------------------------------------------
(* AAA: an undisturbed call leaves the secret it was given.                *)

AccountsQuiet ==
    call # NoCall /\ call.quiet =>
        /\ call.fresh /\ ~call.failed
        /\ feature # "aaapolicy" /\ call.pc \in {"readback", "compare", "next", "done"} =>
             native.secret = call.job.secret

LEMMA AccountsSends ==
    ASSUME AccountsInv, AccountsQuiet, call # NoCall, NEW S, NEW x, NEW c, Accounts!Send(S, x, c),
           DOMAIN c = Fields, c.quiet = call.quiet, c.fresh = call.fresh, c.failed = call.failed,
           c.job = call.job, UNCHANGED feature,
           feature = "aaapolicy" \/ \A s \in S : s.secret = call.job.secret
    PROVE  AccountsQuiet'
<1>1. call'.quiet => call' = c /\ (call.failed \/ native' \in S)
  BY AccountsSame, SendQuiet
<1> QED BY <1>1 DEF AccountsQuiet

\* A step that sends nothing.
LEMMA AccountsMoves ==
    ASSUME AccountsInv, AccountsQuiet, call # NoCall, UNCHANGED <<feature, native>>,
           call'.quiet = call.quiet, call'.fresh = call.fresh, call'.failed = call.failed,
           call'.job = call.job,
           call'.pc \in {"readback", "compare", "next", "done"} =>
               call.pc \in {"readback", "compare", "next", "done"}
    PROVE  AccountsQuiet'
BY DEF AccountsQuiet

LEMMA AccountsGoes ==
    ASSUME AccountsInv, AccountsQuiet, call # NoCall, NEW label, Accounts!Goto(label),
           label \in {"readback", "compare", "next", "done"} =>
               call.pc \in {"readback", "compare", "next", "done"}
    PROVE  AccountsQuiet'
<1>1. call' = [call EXCEPT !.pc = label] /\ UNCHANGED <<feature, native>>
  BY AccountsSame, AccountsKnows, GotoIs
<1>2. call'.pc = label /\ \A f \in Fields \ {"pc"} : call'[f] = call[f]
  BY <1>1, AccountsKnows DEF Fields
<1>3. /\ call'.quiet = call.quiet /\ call'.fresh = call.fresh /\ call'.failed = call.failed
      /\ call'.job = call.job
  BY <1>2 DEF Fields
<1> QED BY <1>1, <1>2, <1>3, AccountsMoves

LEMMA PolicyQuiet ==
    ASSUME AccountsInv, AccountsQuiet, call # NoCall, Accounts!Policy
    PROVE  AccountsQuiet'
<1>1. feature = "aaapolicy" BY DEF Accounts!Policy
<1>2. ASSUME NEW c, Accounts!Continue(c), DOMAIN c = Fields, c.quiet = call.quiet, c.fresh = call.fresh,
             c.failed = call.failed
      PROVE  AccountsQuiet'
  <2>1. call' = c /\ UNCHANGED feature BY <1>2, AccountsSame, ContinueIs
  <2> QED BY <1>1, <1>2, <2>1 DEF AccountsQuiet
<1>3. ASSUME NEW S, NEW x, NEW c, Accounts!Send(S, x, c), DOMAIN c = Fields, c.quiet = call.quiet,
             c.fresh = call.fresh, c.failed = call.failed, c.job = call.job
      PROVE  AccountsQuiet'
  <2>1. UNCHANGED feature BY <1>3, AccountsSame, AccountsKnows, SendIs
  <2> QED BY <1>1, <1>3, <2>1, AccountsSends
<1>4. ASSUME NEW field, Accounts!Wrote(field) PROVE AccountsQuiet'
  <2> DEFINE c == [call EXCEPT !.pc = "readback", !.then = "compare", !.todo = Tail(@),
                               !.expect = {[Accounts!seen EXCEPT ![field] = Accounts!want[field]]}]
  <2>1. /\ DOMAIN c = Fields /\ c.quiet = call.quiet /\ c.fresh = call.fresh /\ c.failed = call.failed
        /\ c.job = call.job
    BY AccountsKnows DEF Fields
  <2>2. Accounts!Send({Accounts!With(field)}, [cache EXCEPT ![field] = Accounts!want[field]], c)
    BY <1>4 DEF Accounts!Wrote
  <2>. HIDE DEF c
  <2> QED BY <2>1, <2>2, <1>3
<1>5. CASE Accounts!PolicyBegin
  <2> DEFINE c == [call EXCEPT !.pc = IF Accounts!Agrees(call.cached, Accounts!seen) THEN "next" ELSE "refused",
                               !.todo = Accounts!PolicyOrder]
  <2>1. DOMAIN c = Fields /\ c.quiet = call.quiet /\ c.fresh = call.fresh /\ c.failed = call.failed
    BY AccountsKnows DEF Fields
  <2>2. Accounts!Continue(c) BY <1>5 DEF Accounts!PolicyBegin
  <2>. HIDE DEF c
  <2> QED BY <1>2, <2>1, <2>2
<1>6. CASE Accounts!PolicyWrite
  <2> DEFINE c == [call EXCEPT !.todo = Tail(@)]
             d == [call EXCEPT !.pc = "create"]
  <2>1. /\ DOMAIN c = Fields /\ c.quiet = call.quiet /\ c.fresh = call.fresh /\ c.failed = call.failed
        /\ DOMAIN d = Fields /\ d.quiet = call.quiet /\ d.fresh = call.fresh /\ d.failed = call.failed
        /\ d.job = call.job
    BY AccountsKnows DEF Fields
  <2>2. \/ Accounts!Continue(c)
        \/ Accounts!Send({native}, [cache EXCEPT !.dot1x = 0], d)
        \/ Accounts!Wrote(Head(call.todo))
    BY <1>6 DEF Accounts!PolicyWrite
  <2>. HIDE DEF c, d
  <2> QED BY <1>2, <1>3, <1>4, <2>1, <2>2
<1>7. CASE Accounts!PolicyCreate
  <2>1. call.pc = "create" BY <1>7, AccountsAt DEF Accounts!PolicyCreate
  <2>2. CASE Accounts!Goto("failed") BY <2>2, AccountsGoes
  <2> QED BY <1>4, <1>7, <2>2 DEF Accounts!PolicyCreate
<1> QED BY <1>5, <1>6, <1>7 DEF Accounts!Policy

LEMMA AccountQuiet ==
    ASSUME AccountsInv, AccountsQuiet, call # NoCall, feature # "aaapolicy", NEW refused,
           Accounts!Account(refused)
    PROVE  AccountsQuiet'
<1> DEFINE wanted(s) == [s EXCEPT !.entry = Accounts!want.entry, !.secret = Accounts!want.secret]
           expected == Accounts!Looks(Accounts!want.entry, Accounts!want.secret)
<1>1. /\ Accounts!At("start")
      /\ \/ Accounts!Goto("refused")
         \/ Accounts!Unneeded /\ Accounts!Goto("done")
         \/ Accounts!Written({wanted(native)}, Accounts!want.entry, expected)
  BY DEF Accounts!Account
<1>2. call.pc = "start" /\ call.pc \notin Unlooked BY <1>1, AccountsAt
<1>3. CASE Accounts!Goto("refused")
  BY <1>3, AccountsGoes
<1>4. CASE Accounts!Unneeded /\ Accounts!Goto("done")
  <2>1. call' = [call EXCEPT !.pc = "done"] /\ UNCHANGED <<feature, native>>
    BY <1>4, AccountsSame, AccountsKnows, GotoIs
  <2>2. \A f \in Fields \ {"pc"} : call'[f] = call[f]
    BY <2>1, AccountsKnows DEF Fields
  <2>3. /\ call'.quiet = call.quiet /\ call'.fresh = call.fresh /\ call'.failed = call.failed
        /\ call'.job = call.job
    BY <2>2 DEF Fields
  <2>4. call.quiet => native = call.seen
    BY <1>2 DEF AccountsQuiet, AccountsInv, LookedInv, Looking
  <2>5. call.seen.secret = 0 /\ call.job.secret = 0
    BY <1>4, AccountsKnows DEF Accounts!Unneeded, Held, Commissioned
  <2> QED BY <2>1, <2>3, <2>4, <2>5 DEF AccountsQuiet
<1>5. CASE Accounts!Written({wanted(native)}, Accounts!want.entry, expected)
  <2> DEFINE c == [call EXCEPT !.pc = "readback", !.then = "compare", !.expect = expected]
  <2>1. /\ DOMAIN c = Fields /\ c.quiet = call.quiet /\ c.fresh = call.fresh /\ c.failed = call.failed
        /\ c.job = call.job
    BY AccountsKnows DEF Fields
  <2>2. Accounts!Send({wanted(native)}, Accounts!want.entry, c) BY <1>5 DEF Accounts!Written
  <2>3. wanted(native).secret = Accounts!want.secret
    BY AccountsKnows DEF Held, AccountFields
  <2>. HIDE DEF c, wanted
  <2>4. UNCHANGED feature BY <2>1, <2>2, AccountsSame, AccountsKnows, SendIs
  <2> QED BY <2>1, <2>2, <2>3, <2>4, AccountsKnows, AccountsSends
<1> QED BY <1>1, <1>3, <1>4, <1>5

LEMMA AccountsQuietHolds == ASSUME AccountsInv, AccountsQuiet, Accounts!Next PROVE AccountsQuiet'
<1>a. ASSUME NEW label, Accounts!At(label), label # "idle" PROVE call # NoCall
  BY <1>a, AccountsAt
<1>1. CASE \E job \in Accounts!Wanted(feature) : Accounts!Begin(job)
  <2>1. PICK job \in Accounts!Wanted(feature) : Begin(job) BY <1>1, AccountsSame
  <2> QED BY <2>1, BeginQuiet DEF AccountsQuiet
<1>2. CASE Accounts!Start
  <2>1. call # NoCall BY <1>2, <1>a DEF Accounts!Start
  <2>2. CASE Accounts!TimesOut
    BY <2>1, <2>2, AccountsSame, AccountsKnows, TimesOutQuiet DEF AccountsQuiet
  <2>3. CASE Accounts!Continue([Accounts!Observed EXCEPT !.pc = "start"])
    <3>. DEFINE c == [Accounts!Observed EXCEPT !.pc = "start"]
    <3>1. c.pc = "start" /\ c.quiet = call.quiet /\ c.failed = call.failed /\ c.fresh
      BY <2>1, AccountsKnows DEF Accounts!Observed, Fields
    <3>2. call' = c BY <2>3, AccountsSame, ContinueIs
    <3>. HIDE DEF c
    <3> QED BY <2>1, <3>1, <3>2 DEF AccountsQuiet
  <2> QED BY <1>2, <2>2, <2>3 DEF Accounts!Start
<1>3. CASE Accounts!Readback
  <2>1. Readback /\ call # NoCall /\ call.pc = "readback"
    BY <1>3, <1>a, AccountsSame, AccountsAt DEF Readback
  <2>2. call'.quiet =>
          /\ call.quiet /\ call'.fresh
          /\ \A f \in Fields \ {"pc", "fresh", "seen"} : call'[f] = call[f]
          /\ UNCHANGED <<feature, native>>
    BY <2>1, AccountsKnows, ReadbackQuiet
  <2>3. call'.quiet => call.quiet /\ call'.fresh /\ call'.failed = call.failed /\ call'.job = call.job
                       /\ UNCHANGED <<feature, native>>
    BY <2>2 DEF Fields
  <2> QED BY <2>1, <2>3 DEF AccountsQuiet
<1>4. CASE Accounts!Refuse \/ Accounts!Return
  BY <1>4, AccountsSame, EndIs DEF AccountsQuiet, AccountsInv
<1>5. CASE Accounts!Compare
  <2>1. call # NoCall /\ call.pc = "compare" BY <1>5, <1>a, AccountsAt DEF Accounts!Compare
  <2>2. PICK label \in {"next", "failed"} : Accounts!Goto(label) BY <1>5 DEF Accounts!Compare
  <2> QED BY <2>1, <2>2, AccountsGoes
<1>6. CASE Accounts!Complete
  <2>1. call # NoCall /\ call.pc = "next" BY <1>6, <1>a, AccountsAt DEF Accounts!Complete
  <2> QED BY <1>6, <2>1, AccountsGoes DEF Accounts!Complete
<1>7. CASE Accounts!Policy
  <2>1. Accounts!PolicyBegin \/ Accounts!PolicyWrite \/ Accounts!PolicyCreate BY <1>7 DEF Accounts!Policy
  <2>2. \E label \in {"start", "next", "create"} : Accounts!At(label)
    BY Zenon, <2>1 DEF Accounts!PolicyBegin, Accounts!PolicyWrite, Accounts!PolicyCreate
  <2>3. call # NoCall BY <2>2, <1>a
  <2> QED BY <1>7, <2>3, PolicyQuiet
<1>8. CASE Accounts!Server \/ Accounts!User
  <2>1. feature # "aaapolicy" /\ \E refused : Accounts!Account(refused)
    <3>1. CASE Accounts!Server
      <4>1. feature = "aaaserver" /\ Accounts!Account(Accounts!ServerRefused)
        BY <3>1, Zenon DEF Accounts!Server
      <4> QED BY <4>1
    <3>2. CASE Accounts!User
      <4>1. feature = "aaauser" /\ Accounts!Account(Accounts!UserRefused) BY <3>2, Zenon DEF Accounts!User
      <4> QED BY <4>1
    <3> QED BY <1>8, <3>1, <3>2
  <2>2. PICK refused : Accounts!Account(refused) BY <2>1
  <2>3. Accounts!At("start") BY <2>2, Zenon DEF Accounts!Account
  <2>4. call # NoCall BY <2>3, <1>a
  <2> QED BY <2>1, <2>2, <2>4, AccountQuiet
<1>9. CASE Accounts!Outside
  <2>1. PICK S : Interference(S) BY <1>9, AccountsSame DEF Accounts!Outside
  <2>2. CASE call = NoCall BY <2>1, <2>2 DEF Interference, Idle, AccountsQuiet
  <2>3. CASE call # NoCall BY <2>1, <2>3, AccountsKnows, InterferenceQuiet DEF AccountsQuiet
  <2> QED BY <2>2, <2>3
<1>10. CASE Accounts!CacheSyncs \/ Accounts!Finished
  <2>1. UNCHANGED <<feature, native, call>>
    BY <1>10, AccountsSame DEF Accounts!CacheSyncs, Finished, vars, switch
  <2> QED BY <2>1 DEF AccountsQuiet
<1> QED BY <1>1, <1>2, <1>3, <1>4, <1>5, <1>6, <1>7, <1>8, <1>9, <1>10 DEF Accounts!Next, Accounts!Apply

\* Login methods are the last a policy changes: nothing but them is left to do.
LEMMA WroteLogin ==
    ASSUME AccountsInv, AccountsQuiet, call # NoCall, feature = "aaapolicy", call.pc = "next",
           call.todo # <<>>, Accounts!Wrote(Head(call.todo)), call'.quiet, native'.login # native.login
    PROVE  \A x \in PolicyFields \ {"login"} : native[x] = call.job[x]
<1> DEFINE field == Head(call.todo)
           c == [call EXCEPT !.pc = "readback", !.then = "compare", !.todo = Tail(@),
                             !.expect = {[Accounts!seen EXCEPT ![field] = Accounts!want[field]]}]
<1>1. DOMAIN c = Fields /\ c.quiet = call.quiet BY AccountsKnows DEF Fields
<1>2. Send({Accounts!With(field)}, [cache EXCEPT ![field] = Accounts!want[field]], c)
  BY AccountsSame DEF Accounts!Wrote
<1>. HIDE DEF c
<1>3. call.quiet /\ native' = Accounts!With(field)
  BY <1>1, <1>2, SendQuiet
<1>4. Accounts!With(field) \in {native, [native EXCEPT ![field] = Accounts!want[field]]}
  BY DEF Accounts!With
<1>5. field = "login"
  <2>1. native \in [PolicyFields -> 0..2] BY AccountsKnows DEF Held
  <2> DEFINE v == Accounts!want[field]
  <2>2. native' = native \/ native' = [native EXCEPT ![field] = v] BY <1>3, <1>4
  <2>. HIDE DEF v, field
  <2> QED BY <2>1, <2>2 DEF PolicyFields
<1>6. call.todo \in Lists BY DEF AccountsInv
<1>7. Remaining(call) = {"login"}
  <2>1. Tail(call.todo) = <<>> BY <1>5, <1>6, ListsAre
  <2>2. Remaining(call) = {"login"} \union {Tail(call.todo)[i] : i \in DOMAIN Tail(call.todo)}
    BY <1>5, <1>6, ListsAre DEF Remaining
  <2> QED BY <2>1, <2>2
<1>8. Advanced(call, call.seen) BY DEF AccountsInv
<1>9. native = call.seen BY <1>3 DEF AccountsInv, AccountsQuiet, LookedInv, Looking, Unlooked
<1> QED BY <1>7, <1>8, <1>9 DEF Advanced

LEMMA LoginStep ==
    ASSUME AccountsInv, AccountsQuiet, Accounts!Next PROVE Accounts!ChangesLoginLast
<1> SUFFICES ASSUME call # NoCall, call'.quiet, feature = "aaapolicy", native'.login # native.login
             PROVE  \A x \in DOMAIN native \ {"login"} : native[x] = Accounts!want[x]
  BY AccountsSame DEF Accounts!ChangesLoginLast, Idle
<1>1. DOMAIN native = PolicyFields BY AccountsKnows DEF Held
<1>2. UNCHANGED native \/ Accounts!Policy
  <2>1. CASE \E job \in Accounts!Wanted(feature) : Accounts!Begin(job)
    BY <2>1, AccountsSame DEF Begin, Idle
  <2>2. CASE Accounts!Start
    BY <2>2, AccountsSame, ContinueIs DEF Accounts!Start, TimesOut, switch
  <2>3. CASE Accounts!Readback BY <2>3, AccountsSame DEF Readback, switch
  <2>4. CASE Accounts!Refuse \/ Accounts!Return BY <2>4, AccountsSame, EndIs DEF AccountsInv
  <2>5. CASE Accounts!Compare \/ Accounts!Complete
    BY <2>5, AccountsSame, AccountsKnows, GotoIs DEF Accounts!Compare, Accounts!Complete
  <2>6. CASE Accounts!Server \/ Accounts!User BY <2>6 DEF Accounts!Server, Accounts!User
  <2>7. CASE Accounts!Outside
    <3>1. PICK S : Interference(S) BY <2>7, AccountsSame DEF Accounts!Outside
    <3> QED BY <3>1, AccountsKnows, InterferenceQuiet
  <2>8. CASE Accounts!CacheSyncs \/ Accounts!Finished
    BY <2>8, AccountsSame DEF Accounts!CacheSyncs, Finished, vars, switch
  <2> QED BY <2>1, <2>2, <2>3, <2>4, <2>5, <2>6, <2>7, <2>8 DEF Accounts!Next, Accounts!Apply
<1>3. CASE Accounts!PolicyBegin
  BY <1>3, AccountsSame, ContinueIs DEF Accounts!PolicyBegin
<1>4. CASE Accounts!PolicyWrite
  <2>1. call.pc = "next" /\ call.todo # <<>> BY <1>4, AccountsAt DEF Accounts!PolicyWrite
  <2> DEFINE c == [call EXCEPT !.todo = Tail(@)]
             d == [call EXCEPT !.pc = "create"]
  <2>2. \/ Accounts!Continue(c)
        \/ Accounts!Send({native}, [cache EXCEPT !.dot1x = 0], d)
        \/ Accounts!Wrote(Head(call.todo))
    BY <1>4 DEF Accounts!PolicyWrite
  <2>3. DOMAIN d = Fields BY AccountsKnows DEF Fields
  <2>. HIDE DEF c, d
  <2>4. Accounts!Wrote(Head(call.todo))
    BY <2>2, <2>3, AccountsSame, AccountsKnows, ContinueIs, SendIs
  <2> QED BY <1>1, <2>1, <2>4, AccountsKnows, WroteLogin
<1>5. CASE Accounts!PolicyCreate
  <2>1. CASE Accounts!Goto("failed") BY <2>1, AccountsSame, AccountsKnows, GotoIs
  <2>2. CASE Accounts!Wrote("dot1x")
    <3> DEFINE c == [call EXCEPT !.pc = "readback", !.then = "compare", !.todo = Tail(@),
                               !.expect = {[Accounts!seen EXCEPT !["dot1x"] = Accounts!want["dot1x"]]}]
    <3>1. DOMAIN c = Fields BY AccountsKnows DEF Fields
    <3>2. Send({Accounts!With("dot1x")}, [cache EXCEPT !["dot1x"] = Accounts!want["dot1x"]], c)
      BY <2>2, AccountsSame DEF Accounts!Wrote
    <3>. HIDE DEF c
    <3>3. native' \in {native, Accounts!With("dot1x")} BY <3>1, <3>2, AccountsKnows, SendIs
    <3>4. Accounts!With("dot1x").login = native.login BY DEF Accounts!With
    <3> QED BY <3>3, <3>4
  <2> QED BY <1>5, <2>1, <2>2 DEF Accounts!PolicyCreate
<1> QED BY <1>2, <1>3, <1>4, <1>5 DEF Accounts!Policy

-----------------------------------------------------------------------------
(* Authentication: what an undisturbed call leaves alone, and in force.    *)

Apply == Access!Step("apply", "action")

\* A feature to be disabled has no port, and once the actions were applied
\* they are in force.
GlobalQuiet ==
    /\ call.pc = "readback" => call.then = "global"
    /\ call.pc \in {"global", "readback", "done"} =>
         /\ call.job.dot1x = 0 => native.dot1xPort = 0
         /\ call.job.mac = 0 => native.macPort = 0
         /\ call.job.action = 1 /\ ~call.failed /\ Apply \notin Todo(call) => native.action = 2
    /\ call.pc = "done" /\ call.job.action = 1 => Apply \notin Todo(call)

\* A port to be enabled has no membership to lose, and once the actions were
\* looked after they are in force again.
PortSettled == {"mode", "modeset", "done"}
PortQuiet ==
    call.pc \notin {"read", "start", "refused", "failed"} =>
        /\ call.job.dot1xPort = 1 \/ call.job.macPort = 1 => native.member = 0
        /\ call.pc \in PortSettled \/ (call.pc = "readback" /\ call.then \in PortSettled /\ ~call.failed) =>
             native.action # 1

AccessQuiet ==
    call # NoCall /\ call.quiet =>
        /\ call.fresh
        /\ call.pc \notin {"readback", "failed"} => ~call.failed
        /\ feature = "authglobal" => GlobalQuiet
        /\ feature = "authport" => PortQuiet

\* What a call does not ask for stays, the actions aside.
Neighbours == \A x \in AccessFields \ ({"action"} \union DOMAIN call.job) : native'[x] = native[x]

LEMMA WithGlobalIs ==
    ASSUME Runs(native), NEW field \in GlobalFields, NEW value
    PROVE  LET w == Access!WithGlobal(field, value)
           IN  /\ DOMAIN w = AccessFields /\ w.member = native.member
               /\ w.dot1xPort = IF field = "dot1x" /\ value = 0 THEN 0 ELSE native.dot1xPort
               /\ w.macPort = IF field = "mac" /\ value = 0 THEN 0 ELSE native.macPort
               /\ w.control = IF field = "dot1x" /\ value = 0 THEN "force-authorized" ELSE native.control
               /\ w.action = IF field = "action" THEN IF value = 1 THEN 2 ELSE value ELSE native.action
               /\ \A f \in GlobalFields \ {field} : w[f] = native[f]
<1> DEFINE v == IF field = "action" /\ value = 1 THEN 2 ELSE value
           s == [native EXCEPT ![field] = v]
           w == Access!WithGlobal(field, value)
<1>1. /\ DOMAIN s = AccessFields /\ s[field] = v
      /\ \A f \in AccessFields \ {field} : s[f] = native[f]
  BY DEF Runs, GlobalFields, AccessFields
<1>2. w = CASE field = "dot1x" /\ value = 0 -> [s EXCEPT !.dot1xPort = 0, !.control = "force-authorized"]
            [] field = "mac" /\ value = 0 -> [s EXCEPT !.macPort = 0]
            [] OTHER -> s
  BY DEF Access!WithGlobal
<1>. HIDE DEF s
<1>3. CASE field = "dot1x" /\ value = 0
  <2>1. w = [s EXCEPT !.dot1xPort = 0, !.control = "force-authorized"] BY <1>2, <1>3
  <2>. HIDE DEF w
  <2> QED BY <1>1, <1>3, <2>1 DEF AccessFields, GlobalFields, w
<1>4. CASE field = "mac" /\ value = 0
  <2>1. w = [s EXCEPT !.macPort = 0] BY <1>2, <1>4
  <2>. HIDE DEF w
  <2> QED BY <1>1, <1>4, <2>1 DEF AccessFields, GlobalFields, w
<1>5. CASE ~(field = "dot1x" /\ value = 0) /\ ~(field = "mac" /\ value = 0)
  <2>1. w = s BY <1>2, <1>5
  <2>. HIDE DEF w
  <2> QED BY <1>1, <1>5, <2>1 DEF AccessFields, GlobalFields, w
<1> QED BY <1>3, <1>4, <1>5

\* What a request leaves that nothing disturbed.
LEMMA WriteQuiet ==
    ASSUME AccessInv, AccessQuiet, call # NoCall, call.pc \notin {"readback", "failed"},
           NEW s, NEW x, NEW c, NEW expected, Access!Write(s, x, c, expected),
           DOMAIN c = Fields, c.quiet = call.quiet, c.fresh = call.fresh, c.failed = call.failed,
           call'.quiet
    PROVE  /\ call.quiet /\ call'.fresh /\ call'.pc = "readback" /\ ~call.failed
           /\ call'.then = c.then /\ call'.todo = c.todo /\ call'.job = c.job /\ UNCHANGED feature
           /\ \/ call'.failed /\ native' = native
              \/ ~call'.failed /\ native' = s
<1> DEFINE r == [c EXCEPT !.pc = "readback", !.expect = expected]
           f == [r EXCEPT !.failed = TRUE]
<1>1. /\ DOMAIN r = Fields /\ r.quiet = call.quiet /\ r.fresh = call.fresh /\ r.failed = call.failed
      /\ r.pc = "readback" /\ r.then = c.then /\ r.todo = c.todo /\ r.job = c.job
  BY DEF Fields
<1>2. /\ DOMAIN f = Fields /\ f.quiet = call.quiet /\ f.fresh = call.fresh /\ f.failed
      /\ f.pc = "readback" /\ f.then = c.then /\ f.todo = c.todo /\ f.job = c.job
  BY DEF Fields
<1>3. IF Access!Valid(s) THEN Send({s}, x, r) ELSE Send({native}, cache, f)
  BY AccessSame DEF Access!Write
<1>. HIDE DEF r, f
<1>4. UNCHANGED feature BY <1>1, <1>2, <1>3, AccessKnows, SendIs
<1>5. CASE Send({s}, x, r)
  <2>1. call' = r /\ (~call.failed => native' = s) BY <1>1, <1>5, SendQuiet
  <2> QED BY <1>1, <1>4, <2>1 DEF AccessQuiet
<1>6. CASE Send({native}, cache, f)
  <2>1. call' = f /\ native' = native BY <1>2, <1>6, SendQuiet, AccessKnows
  <2>2. call.quiet BY <1>2, <2>1
  <2>3. call.fresh /\ ~call.failed BY <2>2 DEF AccessQuiet
  <2>4. call'.fresh /\ call'.failed BY <1>2, <2>1, <2>3
  <2>5. call'.pc = "readback" /\ call'.then = c.then /\ call'.todo = c.todo /\ call'.job = c.job
    BY <1>2, <2>1
  <2>6. native' = native BY <2>1
  <2> QED BY <1>4, <2>2, <2>3, <2>4, <2>5, <2>6
<1> QED BY <1>3, <1>5, <1>6

\* What a step of a call has to show: it keeps what an undisturbed call knows, and the neighbours.
QuietStep == AccessQuiet' /\ (call'.quiet => Neighbours)

\* What an undisturbed call knows when it is at a label.
LEMMA QuietSees ==
    ASSUME AccessInv, AccessQuiet, call # NoCall, call.quiet, call.pc \notin Unlooked
    PROVE  call.seen = native /\ ~call.failed /\ call.fresh
BY DEF AccessInv, LookedInv, Looking, AccessQuiet, Unlooked

LEMMA GoesQuiet ==
    ASSUME AccessInv, AccessQuiet, call # NoCall, NEW label, Access!Goto(label), call.pc \notin Unlooked,
           label # "readback",
           call.quiet /\ feature = "authglobal" /\ label = "done" =>
               call.pc = "global" /\ (call.job.action = 1 => Apply \notin Todo(call)),
           call.quiet /\ feature = "authglobal" => label # "global",
           call.quiet /\ feature = "authport" /\ label \notin {"refused", "failed"} =>
               /\ call.job.dot1xPort = 1 \/ call.job.macPort = 1 => native.member = 0
               /\ label \in PortSettled => native.action # 1
    PROVE  QuietStep
<1>1. call' = [call EXCEPT !.pc = label] /\ UNCHANGED <<feature, native>>
  BY AccessSame, AccessKnows, GotoIs
<1>2. /\ call'.pc = label /\ call'.quiet = call.quiet /\ call'.fresh = call.fresh
      /\ call'.failed = call.failed /\ call'.job = call.job /\ call'.todo = call.todo
  BY <1>1, AccessKnows DEF Fields
<1>3. Neighbours BY <1>1 DEF Neighbours
<1>4. SUFFICES ASSUME call' # NoCall, call'.quiet PROVE AccessQuiet' BY <1>3 DEF QuietStep, AccessQuiet
<1>5. call.quiet /\ call.fresh /\ ~call.failed BY <1>2, <1>4, QuietSees
<1>6. Todo(call)' = Todo(call) /\ Apply' = Apply BY <1>2 DEF Todo, Apply
<1>7. ASSUME feature' = "authglobal" PROVE GlobalQuiet'
  <2>1. feature = "authglobal" BY <1>1, <1>7
  <2>2. CASE label = "done"
    <3>1. GlobalQuiet /\ call.pc = "global" BY <1>5, <2>1, <2>2 DEF AccessQuiet
    <3> QED BY <1>1, <1>2, <1>5, <1>6, <2>1, <2>2, <3>1 DEF GlobalQuiet
  <2>3. CASE label # "done" BY <1>2, <1>5, <2>1, <2>3 DEF GlobalQuiet
  <2> QED BY <2>2, <2>3
<1>8. ASSUME feature' = "authport" PROVE PortQuiet'
  BY <1>1, <1>2, <1>5, <1>8 DEF PortQuiet
<1> QED BY <1>2, <1>5, <1>7, <1>8 DEF AccessQuiet

LEMMA AccessTimesOutQuiet == ASSUME AccessInv, call # NoCall, Access!TimesOut PROVE QuietStep
<1>1. ~call'.quiet BY AccessSame, AccessKnows, TimesOutQuiet
<1> QED BY <1>1 DEF QuietStep, AccessQuiet

LEMMA StartQuiet == ASSUME AccessInv, AccessQuiet, call # NoCall, Access!Start PROVE QuietStep
<1>1. CASE Access!TimesOut BY <1>1, AccessTimesOutQuiet
<1>2. CASE Access!Continue([Access!Observed EXCEPT !.pc = "start"])
  <2>. DEFINE c == [Access!Observed EXCEPT !.pc = "start"]
  <2>1. c.pc = "start" /\ c.fresh = TRUE /\ c.failed = call.failed /\ c.quiet = call.quiet
    BY AccessKnows DEF Access!Observed, Fields
  <2>2. call' = c /\ UNCHANGED <<feature, native>> BY <1>2, AccessSame, ContinueIs
  <2>. HIDE DEF c
  <2>3. call.pc = "read" BY AccessAt DEF Access!Start
  <2>4. call.quiet => ~call.failed BY <2>3 DEF AccessQuiet
  <2>5. AccessQuiet' BY <2>1, <2>2, <2>4 DEF AccessQuiet, GlobalQuiet, PortQuiet
  <2> QED BY <2>2, <2>5 DEF QuietStep, Neighbours
<1> QED BY <1>1, <1>2 DEF Access!Start

LEMMA GlobalBeginQuiet ==
    ASSUME AccessInv, AccessQuiet, call # NoCall, feature = "authglobal", Access!GlobalBegin
    PROVE  QuietStep
<1>1. call.pc = "start" /\ call.pc \notin Unlooked BY AccessAt DEF Access!GlobalBegin
<1>2. CASE Access!Goto("refused") BY <1>1, <1>2, GoesQuiet
<1>3. CASE ~Access!GlobalRefused /\ Access!Continue([call EXCEPT !.pc = "global", !.todo = Access!GlobalSteps])
  <2>1. /\ call' = [call EXCEPT !.pc = "global", !.todo = Access!GlobalSteps]
        /\ UNCHANGED <<feature, native>>
    BY <1>3, AccessSame, ContinueIs
  <2>2. /\ call'.pc = "global" /\ call'.todo = Access!GlobalSteps /\ call'.job = call.job
        /\ call'.quiet = call.quiet /\ call'.fresh = call.fresh /\ call'.failed = call.failed
    BY <2>1, AccessKnows DEF Fields
  <2>3. Neighbours BY <2>1 DEF Neighbours
  <2>4. SUFFICES ASSUME call' # NoCall, call'.quiet PROVE AccessQuiet' BY <2>3 DEF QuietStep, AccessQuiet
  <2>5. call.seen = native /\ ~call.failed /\ call.fresh BY <1>1, <2>2, <2>4, QuietSees
  <2>6. \A x \in {<<"dot1x", "dot1xPort">>, <<"mac", "macPort">>} :
            ~(native[x[1]] = 1 /\ call.job[x[1]] = 0 /\ native[x[2]] = 1)
    BY <1>3, <2>5, AccessKnows DEF Access!GlobalRefused
  <2>7. /\ ~(native.dot1x = 1 /\ call.job.dot1x = 0 /\ native.dot1xPort = 1)
        /\ ~(native.mac = 1 /\ call.job.mac = 0 /\ native.macPort = 1)
    BY <2>6
  <2>8. /\ native.dot1x \in 0..1 /\ native.mac \in 0..1 /\ native.dot1xPort \in 0..1 /\ native.macPort \in 0..1
        /\ native.dot1xPort <= native.dot1x /\ native.macPort <= native.mac
    BY AccessKnows DEF Runs, Access!Valid
  <2>9. (call.job.dot1x = 0 => native.dot1xPort = 0) /\ (call.job.mac = 0 => native.macPort = 0)
    BY <2>7, <2>8
  <2>10. Apply \in Todo(call')
    BY <2>2, StepsAre DEF Todo, StepSet, Apply
  <2>11. GlobalQuiet'
    BY <2>1, <2>2, <2>9, <2>10 DEF GlobalQuiet, Todo, Apply
  <2> QED BY <1>3, <2>1, <2>2, <2>5, <2>11 DEF AccessQuiet
<1> QED BY <1>2, <1>3 DEF Access!GlobalBegin

LEMMA GlobalWriteQuiet ==
    ASSUME AccessInv, AccessQuiet, call # NoCall, feature = "authglobal", Access!GlobalWrite
    PROVE  QuietStep
<1>1. call.pc = "global" /\ call.pc \notin Unlooked
  <2>1. Access!At("global") BY Zenon DEF Access!GlobalWrite
  <2> QED BY <2>1, AccessAt
<1>2. Access!want \in Access!GlobalJobs BY AccessKnows
<1>3. call.todo \in Seq(StepSet) BY DEF AccessInv
<1>4. Access!want.action = 1 => Access!Needed(Apply)
  BY DEF Access!Needed, Apply, Access!Step
<1>5. CASE (\A i \in DOMAIN call.todo : ~Access!Needed(call.todo[i])) /\ Access!Goto("done")
  <2>1. call.job.action = 1 => Apply \notin Todo(call)
    BY <1>4, <1>5, AccessKnows DEF Todo
  <2> QED BY <1>1, <1>5, <2>1, GoesQuiet
<1>6. ASSUME NEW i \in DOMAIN call.todo, Access!Needed(call.todo[i]),
             \A j \in 1..(i - 1) : ~Access!Needed(call.todo[j]),
             NEW value, value = (IF call.todo[i].kind \in {"clear", "disable"} THEN 0
                                 ELSE Access!want[call.todo[i].field]),
             Access!Write(Access!WithGlobal(call.todo[i].field, value), cache,
                          [call EXCEPT !.then = "global", !.todo = SubSeq(@, i + 1, Len(@))],
                          Access!Indistinguishable([Access!seen EXCEPT ![call.todo[i].field] = value]))
      PROVE  QuietStep
  <2> DEFINE step == call.todo[i]
             rest == SubSeq(call.todo, i + 1, Len(call.todo))
             c == [call EXCEPT !.then = "global", !.todo = rest]
             e == Access!Indistinguishable([Access!seen EXCEPT ![step.field] = value])
             w == Access!WithGlobal(step.field, value)
  <2>1. step \in StepSet /\ DOMAIN call.todo = 1..Len(call.todo) /\ Len(call.todo) \in Nat BY <1>3
  <2>2. /\ DOMAIN c = Fields /\ c.job = call.job /\ c.todo = rest /\ c.then = "global"
        /\ c.quiet = call.quiet /\ c.fresh = call.fresh /\ c.failed = call.failed
    BY AccessKnows DEF Fields
  <2>3. \A j \in DOMAIN call.todo : j > i => \E k \in DOMAIN rest : rest[k] = call.todo[j]
    BY <1>3, TodoShrinks
  <2>4. Access!Write(w, cache, c, e) BY <1>6, AccessKnows DEF Fields
  <2>5. SUFFICES ASSUME call'.quiet PROVE QuietStep BY DEF QuietStep, AccessQuiet
  <2>6. /\ DOMAIN w = AccessFields /\ w.member = native.member
        /\ w.dot1xPort = IF step.field = "dot1x" /\ value = 0 THEN 0 ELSE native.dot1xPort
        /\ w.macPort = IF step.field = "mac" /\ value = 0 THEN 0 ELSE native.macPort
        /\ w.control = IF step.field = "dot1x" /\ value = 0 THEN "force-authorized" ELSE native.control
        /\ w.action = IF step.field = "action" THEN IF value = 1 THEN 2 ELSE value ELSE native.action
    BY <2>1, AccessKnows, StepsAre, WithGlobalIs
  <2>. HIDE DEF c, w, e, rest
  <2>7. /\ call.quiet /\ call'.fresh /\ call'.pc = "readback" /\ ~call.failed
        /\ call'.then = "global" /\ call'.todo = rest /\ call'.job = call.job /\ UNCHANGED feature
        /\ \/ call'.failed /\ native' = native
           \/ ~call'.failed /\ native' = w
    <3>1. call.pc \notin {"readback", "failed"} BY <1>1
    <3>2. /\ call.quiet /\ call'.fresh /\ call'.pc = "readback" /\ ~call.failed
          /\ call'.then = c.then /\ call'.todo = c.todo /\ call'.job = c.job /\ UNCHANGED feature
          /\ \/ call'.failed /\ native' = native
             \/ ~call'.failed /\ native' = w
      BY <2>2, <2>4, <2>5, <3>1, WriteQuiet
    <3> QED BY <2>2, <3>2
  <2>8. call.seen = native BY <1>1, <2>7, QuietSees
  <2>9. GlobalQuiet BY <2>7 DEF AccessQuiet
  <2>10. /\ call.job.dot1x = 0 => native.dot1xPort = 0
         /\ call.job.mac = 0 => native.macPort = 0
         /\ call.job.action = 1 /\ Apply \notin Todo(call) => native.action = 2
    BY <1>1, <2>7, <2>9 DEF GlobalQuiet
  <2>11. step.field # "action" /\ value = 0 => call.job[step.field] = 0
    <3>1. step.kind = "disable" => Access!want[step.field] = 0 BY <1>6, <2>1, StepsAre DEF Access!Needed
    <3>2. step.kind = "clear" => step.field = "action" BY <2>1, StepsAre
    <3> QED BY <1>6, <3>1, <3>2, AccessKnows
  <2>12. native.control = "force-authorized" \/ native.dot1xPort = 1
    BY AccessKnows DEF Runs, Access!Valid
  <2>13. /\ w.dot1xPort = native.dot1xPort /\ w.macPort = native.macPort
         /\ w.control = native.control /\ w.member = native.member
    <3>1. step.field = "dot1x" /\ value = 0 => native.dot1xPort = 0
      BY <2>10, <2>11
    <3>2. step.field = "mac" /\ value = 0 => native.macPort = 0
      BY <2>10, <2>11
    <3> QED BY <2>6, <2>12, <3>1, <3>2
  <2>14. /\ native'.dot1xPort = native.dot1xPort /\ native'.macPort = native.macPort
         /\ native'.control = native.control /\ native'.member = native.member
    BY <2>7, <2>13
  <2>15. Neighbours
    <3>1. DOMAIN call.job = GlobalFields BY <1>2, AccessKnows, JobsAre
    <3> QED BY <2>14, <3>1 DEF Neighbours, AccessFields, GlobalFields
  <2>16. call'.job.action = 1 /\ ~call'.failed /\ Apply \notin Todo(call') => native'.action = 2
    <3> SUFFICES ASSUME call.job.action = 1, ~call'.failed, Apply \notin Todo(call')
                 PROVE  w.action = 2
      BY <2>7
    <3>1. CASE Apply \in Todo(call)
      <4>1. PICK j \in DOMAIN call.todo : call.todo[j] = Apply BY <3>1 DEF Todo
      <4>2. ~(j > i) BY <2>3, <2>7, <4>1 DEF Todo
      <4>3. ~(j < i) BY <1>4, <1>6, <2>1, <4>1, AccessKnows
      <4>4. step = Apply BY <2>1, <4>1, <4>2, <4>3
      <4>5. step.field = "action" /\ value = 1
        BY <1>6, <4>4, AccessKnows DEF Apply, Access!Step
      <4> QED BY <2>6, <4>5
    <3>2. CASE Apply \notin Todo(call)
      <4>1. native.action = 2 BY <2>10, <3>2
      <4>2. CASE step.field # "action" BY <2>6, <4>1, <4>2
      <4>3. CASE step.field = "action"
        <5>1. step \in Todo(call) BY DEF Todo
        <5>2. step.kind = "clear" \/ step.kind = "apply" BY <2>1, <4>3, StepsAre
        <5>3. CASE step.kind = "clear"
          <6>1. Access!Present(Access!seen, "action") = 1
            BY <2>8, <4>1, AccessKnows DEF Access!Present
          <6> QED BY <1>6, <4>3, <5>3, <6>1, AccessKnows DEF Access!Needed
        <5>4. CASE step.kind = "apply"
          <6>1. value = 1 BY <1>6, <4>3, <5>4, AccessKnows
          <6> QED BY <2>6, <4>3, <6>1
        <5> QED BY <5>2, <5>3, <5>4
      <4> QED BY <4>2, <4>3
    <3> QED BY <3>1, <3>2
  <2>17. GlobalQuiet'
    <3>1. Todo(call)' = Todo(call') /\ Apply' = Apply BY DEF Todo, Apply
    <3> QED BY <2>7, <2>10, <2>14, <2>16, <3>1 DEF GlobalQuiet
  <2>18. feature' = "authglobal" BY <2>7
  <2> QED BY <2>7, <2>15, <2>17, <2>18 DEF QuietStep, AccessQuiet
<1> QED BY <1>5, <1>6, Zenon DEF Access!GlobalWrite

LEMMA PortBeginQuiet ==
    ASSUME AccessInv, AccessQuiet, call # NoCall, feature = "authport", Access!PortBegin
    PROVE  QuietStep
<1> DEFINE label == IF Access!PortRefused THEN "refused" ELSE "dot1xPort"
<1>1. Access!At("start") /\ Access!Goto(label) BY Zenon DEF Access!PortBegin
<1>2. call.pc \notin Unlooked BY <1>1, AccessAt
<1>3. label = "refused" \/ (label = "dot1xPort" /\ ~Access!PortRefused) OBVIOUS
<1>. HIDE DEF label
<1>4. ASSUME call.quiet, ~Access!PortRefused, call.job.dot1xPort = 1 \/ call.job.macPort = 1
      PROVE  native.member = 0
  <2>1. call.seen = native BY <1>2, <1>4, QuietSees
  <2>2. Access!Enabling BY <1>4, AccessKnows DEF Access!Enabling, Access!Flags
  <2>3. native.member # 1 BY <1>4, <2>1, <2>2, AccessKnows DEF Access!PortRefused, Access!Untagged
  <2> QED BY <2>3, AccessKnows DEF Runs
<1>5. label # "readback" /\ label # "done" /\ label # "global" /\ label \notin PortSettled
  BY <1>3 DEF PortSettled
<1> QED BY <1>1, <1>2, <1>3, <1>4, <1>5, GoesQuiet

\* A step of a port that changes nothing but what it asks for, and leaves the
\* actions in force if it is to.
LEMMA PortSends ==
    ASSUME AccessInv, AccessQuiet, call # NoCall, feature = "authport",
           call.pc \notin {"read", "start", "refused", "readback", "failed"},
           call'.quiet => /\ call.quiet /\ call'.fresh /\ call'.pc = "readback" /\ call'.job = call.job
                          /\ UNCHANGED feature,
           NEW label, call'.quiet => call'.then = label, label # "readback",
           call'.quiet => \A f \in AccessFields \ ({"action"} \union PortFields) : native'[f] = native[f],
           call'.quiet /\ label \in PortSettled /\ ~call'.failed => native'.action # 1
    PROVE  QuietStep
<1>1. SUFFICES ASSUME call'.quiet PROVE QuietStep BY DEF QuietStep, AccessQuiet
<1>2. /\ call.quiet /\ call'.fresh /\ call'.pc = "readback" /\ call'.job = call.job /\ UNCHANGED feature
      /\ call'.then = label
      /\ \A f \in AccessFields \ ({"action"} \union PortFields) : native'[f] = native[f]
      /\ label \in PortSettled /\ ~call'.failed => native'.action # 1
  BY <1>1
<1>3. Neighbours
  <2>1. DOMAIN call.job = PortFields BY AccessKnows, JobsAre
  <2> QED BY <1>2, <2>1 DEF Neighbours
<1>4. PortQuiet BY <1>2 DEF AccessQuiet
<1>5. native'.member = native.member BY <1>2 DEF AccessFields, PortFields
<1>6. PortQuiet' BY <1>2, <1>4, <1>5 DEF PortQuiet, PortSettled
<1>7. feature' = "authport" BY <1>2
<1> QED BY <1>2, <1>3, <1>6, <1>7 DEF QuietStep, AccessQuiet

LEMMA PortFlagQuiet ==
    ASSUME AccessInv, AccessQuiet, call # NoCall, feature = "authport", Access!PortFlag
    PROVE  QuietStep
<1> DEFINE label(x) == IF x = "dot1xPort" THEN "macPort" ELSE "actions"
           mode(x) == IF x = "dot1xPort" /\ Access!want[x] = 0 THEN "force-authorized" ELSE Access!seen.control
           expected(x) == [Access!seen EXCEPT ![x] = Access!want[x], !.control = mode(x)]
<1>1. PICK x \in {"dot1xPort", "macPort"} :
        /\ Access!At(x)
        /\ IF Access!seen[x] = Access!want[x] THEN Access!Goto(label(x))
           ELSE Access!Write(Access!WithPort(x, Access!want[x]), cache, Access!Then(label(x)),
                             Access!Indistinguishable(expected(x)))
  BY Zenon DEF Access!PortFlag, Access!Flags
<1>. HIDE DEF expected
<1> DEFINE e == Access!Indistinguishable(expected(x))
           to == label(x)
<1>2. to \in {"macPort", "actions"} OBVIOUS
<1>. HIDE DEF e, to
<1>3. call.pc = x /\ call.pc \notin Unlooked
  <2>1. Access!At(x) BY <1>1
  <2> QED BY <2>1, AccessAt
<1>4. call.quiet /\ (call.job.dot1xPort = 1 \/ call.job.macPort = 1) => native.member = 0
  <2>1. call.quiet => PortQuiet BY DEF AccessQuiet
  <2> QED BY <1>3, <2>1 DEF PortQuiet
<1>5. CASE Access!Goto(to)
  BY <1>2, <1>3, <1>4, <1>5, GoesQuiet DEF PortSettled
<1>6. CASE Access!Write(Access!WithPort(x, Access!want[x]), cache, Access!Then(to), e)
  <2> DEFINE w == Access!WithPort(x, Access!want[x])
             c == Access!Then(to)
  <2>1. /\ DOMAIN c = Fields /\ c.job = call.job /\ c.then = to
        /\ c.quiet = call.quiet /\ c.fresh = call.fresh /\ c.failed = call.failed
    BY AccessKnows DEF Fields, Access!Then
  <2>2. Access!want[x] \in 0..1 BY AccessKnows, JobsAre
  <2>3. /\ w.member = IF Access!want[x] = 1 THEN 0 ELSE native.member
        /\ \A f \in {"vlan", "restricted", "dot1x", "mac"} : w[f] = native[f]
    BY <2>2, AccessKnows, WithPortRuns
  <2>4. Access!Write(w, cache, c, e) BY <1>6
  <2>. HIDE DEF w, c
  <2>5. call.quiet => \A f \in {"vlan", "restricted", "dot1x", "mac", "member"} : w[f] = native[f]
    BY <1>4, <2>3, AccessKnows
  <2>6. call'.quiet => /\ call.quiet /\ call'.fresh /\ call'.pc = "readback" /\ call'.then = to
                       /\ call'.job = call.job /\ UNCHANGED feature /\ native' \in {native, w}
    <3>1. call.pc \notin {"readback", "failed"} BY <1>3
    <3> QED BY <2>1, <2>4, <3>1, WriteQuiet
  <2>7. call'.quiet => \A f \in AccessFields \ ({"action"} \union PortFields) : native'[f] = native[f]
    BY <2>5, <2>6 DEF AccessFields, PortFields
  <2>8. to # "readback" /\ to \notin PortSettled BY <1>2 DEF PortSettled
  <2>9. call.pc \notin {"read", "start", "refused", "readback", "failed"} BY <1>3
  <2> QED BY <2>6, <2>7, <2>8, <2>9, PortSends
<1> QED BY <1>1, <1>5, <1>6 DEF to, e

LEMMA PortActionsQuiet ==
    ASSUME AccessInv, AccessQuiet, call # NoCall, feature = "authport", Access!PortActions
    PROVE  QuietStep
<1>1. call.pc = "actions" /\ call.pc \notin Unlooked
  <2>1. Access!At("actions") BY Zenon DEF Access!PortActions
  <2> QED BY <2>1, AccessAt
<1>2. call.quiet /\ (call.job.dot1xPort = 1 \/ call.job.macPort = 1) => native.member = 0
  <2>1. call.quiet => PortQuiet BY DEF AccessQuiet
  <2> QED BY <1>1, <2>1 DEF PortQuiet
<1>3. CASE ~Access!Reapplied /\ Access!Goto("mode")
  <2>1. call.quiet => native.action # 1
    BY <1>1, <1>3, QuietSees, AccessKnows DEF Access!Reapplied
  <2> QED BY <1>1, <1>2, <1>3, <2>1, GoesQuiet
<1>4. CASE Access!Write(Access!WithGlobal("action", 1), cache, Access!Then("mode"),
                        Access!Indistinguishable(Access!seen))
  <2> DEFINE w == Access!WithGlobal("action", 1)
             c == Access!Then("mode")
             e == Access!Indistinguishable(Access!seen)
  <2>1. /\ DOMAIN c = Fields /\ c.job = call.job /\ c.then = "mode"
        /\ c.quiet = call.quiet /\ c.fresh = call.fresh /\ c.failed = call.failed
    BY AccessKnows DEF Fields, Access!Then
  <2>2. /\ w.member = native.member /\ w.action = 2
        /\ \A f \in {"vlan", "restricted", "dot1x", "mac"} : w[f] = native[f]
    <3>1. "action" \in GlobalFields BY DEF GlobalFields
    <3> QED BY <3>1, AccessKnows, WithGlobalIs DEF GlobalFields
  <2>3. Access!Write(w, cache, c, e) BY <1>4
  <2>. HIDE DEF w, c, e
  <2>4. call'.quiet => /\ call.quiet /\ call'.fresh /\ call'.pc = "readback" /\ call'.then = "mode"
                       /\ call'.job = call.job /\ UNCHANGED feature
                       /\ \/ call'.failed /\ native' = native
                          \/ ~call'.failed /\ native' = w
    <3>1. call.pc \notin {"readback", "failed"} BY <1>1
    <3> QED BY <2>1, <2>3, <3>1, WriteQuiet
  <2>5. call'.quiet => \A f \in AccessFields \ ({"action"} \union PortFields) : native'[f] = native[f]
    BY <2>2, <2>4 DEF AccessFields, PortFields
  <2>6. call'.quiet /\ ~call'.failed => native'.action # 1 BY <2>2, <2>4
  <2>7. call.pc \notin {"read", "start", "refused", "readback", "failed"} BY <1>1
  <2> QED BY <2>4, <2>5, <2>6, <2>7, PortSends
<1> QED BY <1>3, <1>4, Zenon DEF Access!PortActions

LEMMA WithControlIs ==
    ASSUME Runs(native), NEW mode
    PROVE  \A f \in AccessFields \ {"control"} : Access!WithControl(mode)[f] = native[f]
BY DEF Runs, Access!WithControl, AccessFields

\* A request that changes the mode of the port and none of its other access settings.
LEMMA ModeSends ==
    ASSUME AccessInv, AccessQuiet, call # NoCall, feature = "authport",
           call.pc \in {"mode", "modeset"},
           NEW label, label # "readback",
           call'.quiet =>
              /\ call.quiet /\ call'.fresh /\ call'.pc = "readback" /\ call'.then = label
              /\ call'.job = call.job /\ UNCHANGED feature
              /\ \A f \in AccessFields \ {"control"} : native'[f] = native[f]
    PROVE  QuietStep
<1>1. call.quiet => native.action # 1
  <2>1. call.quiet => PortQuiet BY DEF AccessQuiet
  <2> QED BY <2>1 DEF PortQuiet, PortSettled
<1>2. call'.quiet => \A f \in AccessFields \ ({"action"} \union PortFields) : native'[f] = native[f]
  BY DEF PortFields
<1>3. call'.quiet => native'.action # 1 BY <1>1 DEF AccessFields
<1>4. call.pc \notin {"read", "start", "refused", "readback", "failed"} OBVIOUS
<1> QED BY <1>2, <1>3, <1>4, PortSends

LEMMA ModeRequest ==
    ASSUME AccessInv, AccessQuiet, call # NoCall, feature = "authport",
           call.pc \in {"mode", "modeset"},
           NEW label, label # "readback", NEW S, NEW x, NEW e, Access!Request(S, x, label, e),
           NEW mode, S \subseteq {native, Access!WithControl(mode)}
    PROVE  QuietStep
<1> DEFINE c == [call EXCEPT !.pc = "readback", !.then = label, !.expect = e]
<1>1. /\ DOMAIN c = Fields /\ c.job = call.job /\ c.then = label /\ c.pc = "readback"
      /\ c.quiet = call.quiet /\ c.fresh = call.fresh /\ c.failed = call.failed
  BY AccessKnows DEF Fields
<1>2. Send(S, x, c)
  <2>1. Request(S, x, label, e) BY AccessSame
  <2> QED BY <2>1 DEF Request
<1>. HIDE DEF c
<1>3. call'.quiet => call' = c BY <1>1, <1>2, SendQuiet
<1>4. call'.quiet => call.quiet /\ call'.fresh /\ ~call.failed
  <2>1. call'.quiet => call.quiet BY <1>1, <1>3
  <2>2. call.quiet => call.fresh /\ ~call.failed BY DEF AccessQuiet
  <2> QED BY <1>1, <1>3, <2>1, <2>2
<1>5. call'.quiet => native' \in {native, Access!WithControl(mode)}
  BY <1>1, <1>2, <1>4, SendQuiet
<1>6. call'.quiet => \A f \in AccessFields \ {"control"} : native'[f] = native[f]
  BY <1>5, AccessKnows, WithControlIs
<1>7. UNCHANGED feature BY <1>1, <1>2, AccessKnows, SendIs
<1> QED BY <1>1, <1>3, <1>4, <1>6, <1>7, ModeSends

LEMMA PortModeQuiet ==
    ASSUME AccessInv, AccessQuiet, call # NoCall, feature = "authport", Access!PortMode
    PROVE  QuietStep
<1> DEFINE e == UNION {Access!Indistinguishable([Access!seen EXCEPT !.control = m]) : m \in Access!Modes}
           S == IF Access!want.control \in cache THEN {native, Access!WithControl("force-authorized")} ELSE {native}
<1>1. call.pc = "mode" /\ call.pc \notin Unlooked BY AccessAt DEF Access!PortMode
<1>2. S \subseteq {native, Access!WithControl("force-authorized")} OBVIOUS
<1>3. Access!Goto("done") \/ Access!Request(S, cache \ {Access!want.control}, "modeset", e)
  BY Zenon DEF Access!PortMode
<1>. HIDE DEF e, S
<1>4. CASE Access!Goto("done")
  <2>1. call.quiet => PortQuiet BY DEF AccessQuiet
  <2> QED BY <1>1, <1>4, <2>1, GoesQuiet DEF PortQuiet, PortSettled
<1>5. CASE Access!Request(S, cache \ {Access!want.control}, "modeset", e)
  BY <1>1, <1>2, <1>5, ModeRequest
<1> QED BY <1>3, <1>4, <1>5

LEMMA PortModeSetQuiet ==
    ASSUME AccessInv, AccessQuiet, call # NoCall, feature = "authport", Access!PortModeSet
    PROVE  QuietStep
<1> DEFINE w == Access!WithControl(Access!want.control)
           S == {s \in {native, w} : Access!Valid(s)}
           e == Access!Indistinguishable([Access!seen EXCEPT !.control = Access!want.control])
           x == cache \union {Access!want.control}
           c == Access!Then("done")
<1>1. call.pc = "modeset"
  <2>1. Access!At("modeset") BY Zenon DEF Access!PortModeSet
  <2> QED BY <2>1, AccessAt
<1>2. S \subseteq {native, w} OBVIOUS
<1>3. Access!Request(S, cache, "done", e) \/ Access!Write(w, x, c, e)
  BY Zenon DEF Access!PortModeSet
<1>4. /\ DOMAIN c = Fields /\ c.job = call.job /\ c.then = "done"
      /\ c.quiet = call.quiet /\ c.fresh = call.fresh /\ c.failed = call.failed
  BY AccessKnows DEF Fields, Access!Then
<1>5. \A f \in AccessFields \ {"control"} : w[f] = native[f] BY AccessKnows, WithControlIs
<1>6. CASE Access!Request(S, cache, "done", e)
  <2>. HIDE DEF S, e
  <2> QED BY <1>1, <1>2, <1>6, ModeRequest
<1>7. CASE Access!Write(w, x, c, e)
  <2>. HIDE DEF w, S, e, x, c
  <2>1. call'.quiet => /\ call.quiet /\ call'.fresh /\ call'.pc = "readback" /\ call'.then = "done"
                       /\ call'.job = call.job /\ UNCHANGED feature /\ native' \in {native, w}
    <3>1. call.pc \notin {"readback", "failed"} BY <1>1
    <3> QED BY <1>4, <1>7, <3>1, WriteQuiet
  <2>2. call'.quiet => \A f \in AccessFields \ {"control"} : native'[f] = native[f]
    BY <1>5, <2>1
  <2> QED BY <1>1, <2>1, <2>2, ModeSends
<1> QED BY <1>3, <1>6, <1>7

LEMMA AccessReadbackQuiet == ASSUME AccessInv, AccessQuiet, call # NoCall, Access!Readback PROVE QuietStep
<1>1. Readback /\ call.pc = "readback" /\ DOMAIN call = Fields
  BY AccessSame, AccessKnows, NothingCalled DEF Readback, At
<1>2. SUFFICES ASSUME call'.quiet PROVE QuietStep BY DEF QuietStep, AccessQuiet
<1>3. /\ call.quiet /\ call'.fresh /\ call'.seen = native
      /\ call'.pc = IF Confirmed THEN call.then ELSE "failed"
      /\ \A f \in Fields \ {"pc", "fresh", "seen"} : call'[f] = call[f]
      /\ UNCHANGED <<feature, native>>
  BY <1>1, <1>2, ReadbackQuiet
<1>4. call'.failed = call.failed /\ call'.job = call.job /\ call'.todo = call.todo /\ call'.then = call.then
  BY <1>3 DEF Fields
<1>5. Neighbours BY <1>3 DEF Neighbours
<1>6. Confirmed => ~call.failed BY DEF Confirmed
<1>7. call.then # "readback" BY <1>1 DEF AccessInv, Ready
<1>8. ASSUME feature = "authglobal" PROVE GlobalQuiet'
  <2>1. GlobalQuiet BY <1>3, <1>8 DEF AccessQuiet
  <2>2. call.then = "global" BY <1>1, <2>1 DEF GlobalQuiet
  <2>3. Todo(call)' = Todo(call) /\ Apply' = Apply BY <1>4 DEF Todo, Apply
  <2> QED BY <1>1, <1>3, <1>4, <2>1, <2>2, <2>3 DEF GlobalQuiet
<1>9. ASSUME feature = "authport" PROVE PortQuiet'
  <2>1. PortQuiet BY <1>3, <1>9 DEF AccessQuiet
  <2> QED BY <1>1, <1>3, <1>4, <1>6, <1>7, <2>1 DEF PortQuiet, PortSettled
<1>10. call'.pc \notin {"readback", "failed"} => ~call'.failed BY <1>3, <1>4, <1>6
<1>11. AccessQuiet' BY <1>3, <1>8, <1>9, <1>10 DEF AccessQuiet
<1> QED BY <1>5, <1>11 DEF QuietStep

\* A call leaves its neighbours alone if every step does.
LEMMA NeighboursLeft ==
    ASSUME AccessInv, call # NoCall, call'.quiet => Neighbours
    PROVE  Access!LeavesNeighbours
<1>1. DOMAIN native = AccessFields BY AccessKnows DEF Runs
<1> QED BY <1>1, AccessKnows DEF Access!LeavesNeighbours, Neighbours

LEMMA AccessQuietHolds ==
    ASSUME AccessInv, AccessQuiet, Access!Next
    PROVE  AccessQuiet' /\ Access!LeavesNeighbours
<1>0. call = NoCall => Access!LeavesNeighbours
  BY AccessSame DEF Access!LeavesNeighbours, Idle
<1>1. CASE \E job \in Access!Wanted(feature) : Access!Begin(job)
  <2>1. PICK job : Begin(job) BY <1>1, AccessSame
  <2>2. AccessQuiet' BY <2>1, BeginQuiet DEF AccessQuiet, GlobalQuiet, PortQuiet
  <2>3. call = NoCall BY <2>1 DEF Begin, Idle
  <2> QED BY <1>0, <2>2, <2>3
<1>s. ASSUME call # NoCall, QuietStep PROVE AccessQuiet' /\ Access!LeavesNeighbours
  BY <1>s, NeighboursLeft DEF QuietStep
<1>2. CASE Access!Start \/ Access!Readback
  <2>1. call # NoCall BY <1>2, AccessAt, AccessSame, NothingCalled DEF Access!Start, Readback
  <2> QED BY <1>2, <1>s, <2>1, StartQuiet, AccessReadbackQuiet
<1>3. CASE Access!Refuse \/ Access!Return
  <2>1. call' = NoCall /\ UNCHANGED native BY <1>3, AccessSame DEF Refuse, Return, switch
  <2>2. AccessQuiet' BY <2>1 DEF AccessQuiet
  <2>3. Access!LeavesNeighbours BY <2>1 DEF Access!LeavesNeighbours
  <2> QED BY <2>2, <2>3
<1>4. CASE Access!Global
  <2>1. feature = "authglobal" /\ (Access!GlobalBegin \/ Access!GlobalWrite) BY <1>4 DEF Access!Global
  <2>2. Access!At("start") \/ Access!At("global")
    BY Zenon, <2>1 DEF Access!GlobalBegin, Access!GlobalWrite
  <2>3. call # NoCall BY <2>2, AccessAt
  <2> QED BY <1>s, <2>1, <2>3, GlobalBeginQuiet, GlobalWriteQuiet
<1>5. CASE Access!Port
  <2>1. /\ feature = "authport"
        /\ Access!PortBegin \/ Access!PortFlag \/ Access!PortActions \/ Access!PortMode \/ Access!PortModeSet
    BY <1>5 DEF Access!Port
  <2>2. \E label \in {"start", "dot1xPort", "macPort", "actions", "mode", "modeset"} : Access!At(label)
    BY Zenon, <2>1 DEF Access!PortBegin, Access!PortFlag, Access!Flags, Access!PortActions, Access!PortMode,
              Access!PortModeSet
  <2>3. call # NoCall BY <2>2, AccessAt
  <2> QED BY <1>s, <2>1, <2>3, PortBeginQuiet, PortFlagQuiet, PortActionsQuiet, PortModeQuiet,
             PortModeSetQuiet
<1>6. CASE Access!Outside
  <2>1. PICK S : Interference(S) BY <1>6, AccessSame DEF Access!Outside
  <2>2. CASE call = NoCall
    <3>1. call' = NoCall BY <2>1, <2>2 DEF Interference, Idle
    <3> QED BY <1>0, <2>2, <3>1 DEF AccessQuiet
  <2>3. CASE call # NoCall
    <3>1. call' # NoCall /\ ~call'.quiet BY <2>1, <2>3, AccessKnows, InterferenceQuiet
    <3> QED BY <3>1 DEF AccessQuiet, Access!LeavesNeighbours
  <2> QED BY <2>2, <2>3
<1>7. CASE Access!Finished
  <2>1. UNCHANGED vars /\ call = NoCall BY <1>7, AccessSame DEF Finished, Idle
  <2>2. call' = NoCall BY <2>1 DEF vars
  <2> QED BY <1>0, <2>1, <2>2 DEF AccessQuiet
<1> QED BY <1>1, <1>2, <1>3, <1>4, <1>5, <1>6, <1>7 DEF Access!Next, Access!Apply

\* Whether or not they are asked for, actions that are configured are in force.
LEMMA ActionsAreInForce == ASSUME AccessInv, AccessQuiet PROVE Access!ActionsInForce
<1>1. SUFFICES ASSUME call.pc = "done", call.quiet PROVE native.action # 1
  BY AccessSame, AccessAt DEF Access!ActionsInForce
<1>2. call # NoCall /\ call.pc \notin Unlooked BY <1>1, NothingCalled DEF Unlooked
<1>3. call.seen = native /\ ~call.failed BY <1>1, <1>2, QuietSees
<1>4. CASE feature = "authglobal"
  <2>1. GlobalQuiet BY <1>1, <1>2, <1>4 DEF AccessQuiet
  <2>2. call.job \in Access!GlobalJobs BY <1>2, <1>4, AccessKnows
  <2>3. DOMAIN call.job = GlobalFields /\ call.job.action \in 0..1 BY <2>2, JobsAre
  <2>4. Access!Has(native, call.job) BY <1>1, <1>2, <1>3 DEF AccessInv, Reached
  <2>5. Access!Present(native, "action") = call.job.action BY <2>3, <2>4 DEF Access!Has, GlobalFields
  <2>6. CASE call.job.action = 1 BY <1>1, <1>3, <2>1, <2>6 DEF GlobalQuiet
  <2>7. CASE call.job.action = 0 BY <2>5, <2>7 DEF Access!Present
  <2> QED BY <2>3, <2>6, <2>7
<1>5. CASE feature = "authport"
  <2>1. PortQuiet BY <1>1, <1>2, <1>5 DEF AccessQuiet
  <2> QED BY <1>1, <2>1 DEF PortQuiet, PortSettled
<1> QED BY <1>4, <1>5 DEF AccessInv, Access!Features

-----------------------------------------------------------------------------
(* Entries: what an undisturbed call leaves below an entry.                *)

ListedQuiet == call # NoCall /\ call.quiet => call.fresh
ListedCalm == ListedQuiet' /\ Listed!LeavesChildren

\* What a step has to show of itself.
LEMMA Calm ==
    ASSUME call # NoCall, call'.quiet => call'.fresh /\ (native.child => native'.child)
    PROVE  ListedCalm
BY DEF ListedCalm, ListedQuiet, Listed!LeavesChildren

LEMMA SendsCalmly ==
    ASSUME ListedQuiet, call # NoCall, NEW S, NEW x, NEW c, Send(S, x, c), DOMAIN c = Fields,
           c.quiet = call.quiet, c.fresh = call.fresh,
           call.quiet /\ ~call.failed /\ native.child => \A s \in S : s.child
    PROVE  ListedCalm
<1>1. call'.quiet => call' = c /\ (call.failed => native' = native) /\ (~call.failed => native' \in S)
  BY SendQuiet
<1>2. call'.quiet => call'.fresh BY <1>1 DEF ListedQuiet
<1>3. call'.quiet => call.quiet BY <1>1
<1>4. call'.quiet => (native.child => native'.child)
  BY <1>1, <1>3
<1> QED BY <1>2, <1>4, Calm

LEMMA RequestsCalmly ==
    ASSUME ListedQuiet, call # NoCall, DOMAIN call = Fields, NEW S, NEW x, NEW label, NEW e,
           Listed!Request(S, x, label, e),
           call.quiet /\ ~call.failed /\ native.child => \A s \in S : s.child
    PROVE  ListedCalm
<1> DEFINE c == [call EXCEPT !.pc = "readback", !.then = label, !.expect = e]
<1>1. DOMAIN c = Fields /\ c.quiet = call.quiet /\ c.fresh = call.fresh BY DEF Fields
<1>2. Send(S, x, c)
  <2>1. Request(S, x, label, e) BY ListedSame
  <2> QED BY <2>1 DEF Request
<1>. HIDE DEF c
<1> QED BY <1>1, <1>2, SendsCalmly

LEMMA IgnoredCalmly ==
    ASSUME ListedQuiet, call # NoCall, DOMAIN call = Fields, NEW label, NEW e, Listed!Ignored(label, e)
    PROVE  ListedCalm
<1>1. native.child => \A s \in {native} : s.child OBVIOUS
<1>2. CASE Listed!Request({native}, cache, label, e) BY <1>1, <1>2, RequestsCalmly
<1>3. CASE Listed!Send({native}, cache,
                       [call EXCEPT !.pc = "readback", !.then = label, !.expect = e, !.failed = TRUE])
  <2> DEFINE c == [call EXCEPT !.pc = "readback", !.then = label, !.expect = e, !.failed = TRUE]
  <2>1. DOMAIN c = Fields /\ c.quiet = call.quiet /\ c.fresh = call.fresh BY DEF Fields
  <2>2. Send({native}, cache, c) BY <1>3, ListedSame
  <2>. HIDE DEF c
  <2> QED BY <1>1, <2>1, <2>2, SendsCalmly
<1> QED BY <1>2, <1>3 DEF Listed!Ignored

\* Writing an entry keeps what is below it.
LEMMA PutCalmly ==
    ASSUME ListedInv, ListedQuiet, call # NoCall, DOMAIN call = Fields, NEW value, NEW label, NEW e,
           Listed!Put(value, label, e) \/ Listed!Post(value, label, e)
    PROVE  ListedCalm
<1>1. ASSUME Listed!Put(value, label, e) PROVE ListedCalm
  <2>1. PICK S, x : Listed!Request(S, x, label, e) /\ S \subseteq {Listed!With(value), native}
    BY <1>1 DEF Listed!Put
  <2>2. Listed!With(value).child = native.child BY DEF ListedInv, EntryShaped, Listed!With
  <2> QED BY <2>1, <2>2, RequestsCalmly
<1> QED BY <1>1, IgnoredCalmly DEF Listed!Post

LEMMA DeleteCalmly ==
    ASSUME ListedQuiet, call # NoCall, DOMAIN call = Fields, NEW S, NEW label, NEW e,
           Listed!Delete(S, label, e), call.quiet /\ ~call.failed => ~native.child
    PROVE  ListedCalm
<1>1. CASE Listed!Request(S, Listed!Listing({}), label, e) BY <1>1, RequestsCalmly
<1> QED BY <1>1, IgnoredCalmly DEF Listed!Delete

LEMMA ContinuesCalmly ==
    ASSUME ListedQuiet, call # NoCall, NEW c, Listed!Continue(c), c.quiet = call.quiet,
           c.fresh = call.fresh \/ c.fresh = TRUE
    PROVE  ListedCalm
<1>1. call' = c /\ UNCHANGED native BY ListedSame, ContinueIs
<1>2. call'.quiet => call'.fresh BY <1>1 DEF ListedQuiet
<1> QED BY <1>1, <1>2, Calm

LEMMA GoesCalmly ==
    ASSUME ListedQuiet, call # NoCall, DOMAIN call = Fields,
           (\E label : Listed!Goto(label)) \/ Listed!Continue(Listed!Fail)
    PROVE  ListedCalm
<1>1. PICK label : Goto(label) BY ListedSame DEF Goto, Fail
<1>2. call' = [call EXCEPT !.pc = label] /\ UNCHANGED native BY <1>1, GotoIs
<1>3. call'.quiet = call.quiet /\ call'.fresh = call.fresh BY <1>2 DEF Fields
<1>4. call'.quiet => call'.fresh BY <1>3 DEF ListedQuiet
<1> QED BY <1>2, <1>4, Calm

LEMMA TimesOutCalmly ==
    ASSUME call # NoCall, DOMAIN call = Fields, Listed!TimesOut PROVE ListedCalm
BY ListedSame, TimesOutQuiet, Calm

\* The check before the first request sees what is below the entry.
LEMMA SeesChildren ==
    ASSUME ListedInv, ListedQuiet, call # NoCall, call.pc = "start", ~Listed!Refused, Listed!remove,
           Listed!Differs, call.quiet, ~call.failed
    PROVE  ~native.child
<1>1. call.seen = native BY DEF ListedInv, LookedInv, Looking, ListedQuiet, Unlooked
<1>2. CASE feature \in Listed!Childless BY <1>2 DEF ListedInv, EntryShaped
<1>3. CASE feature \in {"ve", "area", "route", "address"}
  BY <1>1, <1>3 DEF Listed!Refused, Listed!VeRefused, Listed!AreaRefused, Listed!RouteRefused,
                    Listed!AddressRefused
<1>4. CASE feature = "binding"
  BY <1>1, <1>4 DEF Listed!Refused, Listed!BindingRefused, Listed!Differs, Listed!Mine
<1> QED BY <1>2, <1>3, <1>4
        DEF ListedInv, Listed!Features, Listed!ValuesOf, Listed!Childless

LEMMA OneRequestCalmly ==
    ASSUME ListedInv, ListedQuiet, call # NoCall, DOMAIN call = Fields, Listed!OneRequest
    PROVE  ListedCalm
<1>1. call.pc = "start" BY ListedAt DEF Listed!OneRequest
<1>2. CASE Listed!Goto("done") BY <1>2, GoesCalmly
<1>3. CASE Listed!Create
  <2>1. \E e : \/ Listed!Ignored("done", e) \/ Listed!Put(Listed!want, "done", e)
               \/ Listed!Post(Listed!want, "done", e)
    BY <1>3 DEF Listed!Create
  <2> QED BY <2>1, IgnoredCalmly, PutCalmly
<1>4. CASE /\ ~Listed!Refused /\ Listed!Differs /\ Listed!remove
           /\ Listed!Delete({Listed!Erased}, "done", {Listed!Erased})
  BY <1>1, <1>4, SeesChildren, DeleteCalmly
<1> QED BY <1>2, <1>3, <1>4 DEF Listed!OneRequest

LEMMA VeCalmly ==
    ASSUME ListedInv, ListedQuiet, call # NoCall, DOMAIN call = Fields, Listed!RoutedInterface
    PROVE  ListedCalm
<1>0. feature = "ve" BY DEF Listed!RoutedInterface
<1>1. CASE Listed!VeWrite
  <2>1. CASE Listed!Goto("done") BY <2>1, GoesCalmly
  <2>2. CASE Listed!Post(Listed!want, "poll", {}) \/ Listed!Put(Listed!want, "poll", {})
    BY <2>2, PutCalmly
  <2>3. CASE Listed!Request({Listed!With(0)}, Listed!Listing({0}), "poll", {})
    <3>1. Listed!With(0).child = native.child BY DEF ListedInv, EntryShaped, Listed!With
    <3> QED BY <2>3, <3>1, RequestsCalmly
  <2>4. CASE Listed!Continue(Listed!Again)
    <3>1. Listed!Again.quiet = call.quiet /\ Listed!Again.fresh = TRUE BY DEF Listed!Again, Fields
    <3> QED BY <2>4, <3>1, ContinuesCalmly
  <2>5. CASE Listed!Continue(Listed!Fail) BY <2>5, GoesCalmly
  <2>6. CASE Listed!TimesOut BY <2>6, TimesOutCalmly
  <2> QED BY <1>1, <2>1, <2>2, <2>3, <2>4, <2>5, <2>6 DEF Listed!VeWrite
<1>2. CASE Listed!VeRemove
  <2>1. CASE Listed!Continue([call EXCEPT !.pc = "readback", !.then = "poll", !.expect = {}])
    <3> DEFINE c == [call EXCEPT !.pc = "readback", !.then = "poll", !.expect = {}]
    <3>1. c.quiet = call.quiet /\ c.fresh = call.fresh BY DEF Fields
    <3>. HIDE DEF c
    <3> QED BY <2>1, <3>1, ContinuesCalmly DEF c
  <2>2. CASE /\ Listed!seen # None
             /\ Listed!Delete({Listed!Erased}, "poll", {})
    <3>1. call.pc = "start" /\ Listed!remove /\ ~Listed!Refused
      BY <1>2, ListedAt DEF Listed!VeRemove
    <3>2. Listed!Differs BY <1>0, <2>2, <3>1 DEF Listed!Differs, Listed!Mine
    <3>3. call.quiet /\ ~call.failed => ~native.child BY <3>1, <3>2, SeesChildren
    <3> QED BY <2>2, <3>3, DeleteCalmly
  <2> QED BY <1>2, <2>1, <2>2 DEF Listed!VeRemove
<1>3. CASE Listed!VePoll
  BY <1>3, GoesCalmly, TimesOutCalmly DEF Listed!VePoll
<1> QED BY <1>1, <1>2, <1>3 DEF Listed!RoutedInterface

\* Nothing is below a VLAN's spanning tree or a MED policy.
LEMMA StpVlanCalmly ==
    ASSUME ListedInv, ListedQuiet, call # NoCall, DOMAIN call = Fields, Listed!VlanSpanningTree
    PROVE  ListedCalm
<1>0. ~native.child BY DEF Listed!VlanSpanningTree, ListedInv, EntryShaped, Listed!Childless
<1>1. CASE Listed!StpBegin BY <1>1, GoesCalmly DEF Listed!StpBegin
<1>2. CASE Listed!StpWait
  <2>1. CASE Listed!TimesOut BY <2>1, TimesOutCalmly
  <2>2. CASE \E c \in {[Listed!Observed EXCEPT !.pc = "act"], [Listed!Again EXCEPT !.pc = "act"],
                       [Listed!Fail EXCEPT !.seen = native, !.fresh = TRUE]} : Listed!Continue(c)
    <3>1. PICK c \in {[Listed!Observed EXCEPT !.pc = "act"], [Listed!Again EXCEPT !.pc = "act"],
                      [Listed!Fail EXCEPT !.seen = native, !.fresh = TRUE]} : Listed!Continue(c)
      BY <2>2
    <3>2. c.quiet = call.quiet /\ c.fresh = TRUE
      BY <3>1, ListedSame DEF Listed!Observed, Listed!Again, Fail, Fields
    <3> QED BY <3>1, <3>2, ContinuesCalmly
  <2> QED BY <1>2, <2>1, <2>2 DEF Listed!StpWait
<1>3. CASE Listed!StpWrite
  BY <1>3, GoesCalmly, PutCalmly DEF Listed!StpWrite
<1>4. CASE Listed!StpRemove
  <2>1. CASE \E label : Listed!Goto(label) BY <2>1, GoesCalmly
  <2>2. CASE \E todo :
               LET c == [call EXCEPT !.pc = "wait", !.todo = todo]
               IN  \/ Listed!Send(IF native.entry = None THEN {native} ELSE Listed!StpLeft,
                                  Listed!Listing({}), c)
                   \/ Listed!Send({native}, cache, [c EXCEPT !.failed = TRUE])
    <3> PICK todo :
               LET c == [call EXCEPT !.pc = "wait", !.todo = todo]
               IN  \/ Listed!Send(IF native.entry = None THEN {native} ELSE Listed!StpLeft,
                                  Listed!Listing({}), c)
                   \/ Listed!Send({native}, cache, [c EXCEPT !.failed = TRUE])
      BY <2>2, Zenon
    <3> DEFINE c == [call EXCEPT !.pc = "wait", !.todo = todo]
               d == [c EXCEPT !.failed = TRUE]
    <3>1. /\ DOMAIN c = Fields /\ c.quiet = call.quiet /\ c.fresh = call.fresh
          /\ DOMAIN d = Fields /\ d.quiet = call.quiet /\ d.fresh = call.fresh
      BY DEF Fields
    <3>2. \/ Send(IF native.entry = None THEN {native} ELSE Listed!StpLeft, Listed!Listing({}), c)
          \/ Send({native}, cache, d)
      BY ListedSame
    <3>. HIDE DEF c, d
    <3> QED BY <1>0, <3>1, <3>2, SendsCalmly
  <2> QED BY <1>4, <2>1, <2>2, Zenon DEF Listed!StpRemove
<1> QED BY <1>1, <1>2, <1>3, <1>4 DEF Listed!VlanSpanningTree

LEMMA MedCalmly ==
    ASSUME ListedInv, ListedQuiet, call # NoCall, DOMAIN call = Fields, Listed!MedPolicy
    PROVE  ListedCalm
<1>0. ~native.child BY DEF Listed!MedPolicy, ListedInv, EntryShaped, Listed!Childless
<1>c. ASSUME NEW label, NEW cached, NEW todo,
             Listed!Continue([call EXCEPT !.pc = label, !.cached = cached, !.todo = todo])
      PROVE  ListedCalm
  <2> DEFINE c == [call EXCEPT !.pc = label, !.cached = cached, !.todo = todo]
  <2>1. c.quiet = call.quiet /\ c.fresh = call.fresh BY DEF Fields
  <2>. HIDE DEF c
  <2> QED BY <1>c, <2>1, ContinuesCalmly DEF c
<1>d. ASSUME NEW label, NEW todo, Listed!Continue([call EXCEPT !.pc = label, !.todo = todo]) PROVE ListedCalm
  <2> DEFINE c == [call EXCEPT !.pc = label, !.todo = todo]
  <2>1. c.quiet = call.quiet /\ c.fresh = call.fresh BY DEF Fields
  <2>. HIDE DEF c
  <2> QED BY <1>d, <2>1, ContinuesCalmly DEF c
<1>e. ASSUME NEW todo, Listed!Continue([call EXCEPT !.todo = todo]) PROVE ListedCalm
  <2> DEFINE c == [call EXCEPT !.todo = todo]
  <2>1. c.quiet = call.quiet /\ c.fresh = call.fresh BY DEF Fields
  <2>. HIDE DEF c
  <2> QED BY <1>e, <2>1, ContinuesCalmly DEF c
<1>1. CASE Listed!MedBegin
  <2>1. CASE Listed!Goto("done") \/ Listed!Put(Listed!seen, "attached", {call.seen})
    BY <2>1, GoesCalmly, PutCalmly
  <2>2. CASE \E todo : Listed!Continue([call EXCEPT !.pc = "detach", !.todo = todo])
    BY <1>d, <2>2, Zenon
  <2> QED BY <1>1, <2>1, <2>2, Zenon DEF Listed!MedBegin
<1>2. CASE Listed!MedAttached
  <2>1. CASE \E todo : Listed!Continue([call EXCEPT !.pc = "detach", !.cached = cache, !.todo = todo])
    BY <1>c, <2>1, Zenon
  <2> QED BY <1>2, <2>1, GoesCalmly, Zenon DEF Listed!MedAttached
<1>3. CASE Listed!MedDetach
  <2>1. CASE \E todo : Listed!Continue([call EXCEPT !.todo = todo]) BY <1>e, <2>1
  <2>2. CASE \E S, x : Listed!Request(S, x, "detached", {}) BY <1>0, <2>2, RequestsCalmly
  <2>3. CASE Listed!Ignored("detached", {}) BY <2>3, IgnoredCalmly
  <2>4. CASE (\E label : Listed!Goto(label)) \/ Listed!Put(Listed!want, "check", {Listed!With(Listed!want)})
    BY <2>4, GoesCalmly, PutCalmly
  <2> QED BY <1>3, <2>1, <2>2, <2>3, <2>4 DEF Listed!MedDetach
<1>4. CASE Listed!MedDetached
  <2>1. CASE \E todo : Listed!Continue([call EXCEPT !.pc = "detach", !.cached = cache, !.todo = todo])
    BY <1>c, <2>1, Zenon
  <2> QED BY <1>4, <2>1, GoesCalmly, Zenon DEF Listed!MedDetached
<1>5. CASE Listed!MedCheck BY <1>5, GoesCalmly DEF Listed!MedCheck, Listed!Accept
<1> QED BY <1>1, <1>2, <1>3, <1>4, <1>5 DEF Listed!MedPolicy

LEMMA ListedQuietHolds ==
    ASSUME ListedInv, ListedQuiet, Listed!Next
    PROVE  ListedQuiet' /\ Listed!LeavesChildren
<1>i. call = NoCall => Listed!LeavesChildren BY ListedSame DEF Listed!LeavesChildren, Idle
<1>a. ASSUME NEW label, Listed!At(label), label # "idle" PROVE call # NoCall /\ DOMAIN call = Fields
  BY <1>a, ListedAt DEF ListedInv, LookedInv, Shaped
<1>1. CASE \E job \in Listed!Wanted(feature) : Listed!Begin(job)
  <2>1. PICK job : Begin(job) BY <1>1, ListedSame
  <2>2. call = NoCall /\ ListedQuiet' BY <2>1, BeginQuiet DEF Begin, Idle, ListedQuiet
  <2> QED BY <1>i, <2>2
<1>2. CASE Listed!Start
  <2>1. call # NoCall /\ DOMAIN call = Fields BY <1>2, <1>a DEF Listed!Start
  <2>2. CASE Listed!Continue([Listed!Observed EXCEPT !.pc = "start"])
    <3> DEFINE c == [Listed!Observed EXCEPT !.pc = "start"]
    <3>1. c.quiet = call.quiet /\ c.fresh = TRUE BY <2>1 DEF Listed!Observed, Fields
    <3>. HIDE DEF c
    <3> QED BY <2>1, <2>2, <3>1, ContinuesCalmly DEF c, ListedCalm
  <2> QED BY <1>2, <2>1, <2>2, TimesOutCalmly DEF Listed!Start, ListedCalm
<1>3. CASE Listed!Readback
  <2>1. Readback /\ call # NoCall /\ DOMAIN call = Fields BY <1>3, <1>a, ListedSame DEF Readback
  <2>2. call'.quiet => call'.fresh /\ UNCHANGED native BY <2>1, ReadbackQuiet
  <2> QED BY <2>1, <2>2, Calm DEF ListedCalm
<1>4. CASE Listed!Refuse \/ Listed!Return
  <2>1. call' = NoCall /\ UNCHANGED native BY <1>4, ListedSame DEF Refuse, Return, switch
  <2> QED BY <2>1 DEF ListedQuiet, Listed!LeavesChildren
<1>5. CASE Listed!Reject
  <2>1. call # NoCall /\ DOMAIN call = Fields BY <1>5, <1>a DEF Listed!Reject
  <2> QED BY <1>5, <2>1, GoesCalmly DEF Listed!Reject, ListedCalm
<1>6. CASE Listed!DnsServer \/ Listed!OspfArea \/ Listed!OspfBinding \/ Listed!StaticRoute
           \/ Listed!InterfaceAddress
  <2>1. Listed!OneRequest
    BY <1>6 DEF Listed!DnsServer, Listed!OspfArea, Listed!OspfBinding, Listed!StaticRoute,
                Listed!InterfaceAddress
  <2>2. call # NoCall /\ DOMAIN call = Fields BY <1>a, <2>1 DEF Listed!OneRequest
  <2> QED BY <2>1, <2>2, OneRequestCalmly DEF ListedCalm
<1>7. CASE Listed!RoutedInterface
  <2>1. call # NoCall /\ DOMAIN call = Fields
    BY <1>7, <1>a DEF Listed!RoutedInterface, Listed!VeWrite, Listed!VeRemove, Listed!VePoll
  <2> QED BY <1>7, <2>1, VeCalmly DEF ListedCalm
<1>8. CASE Listed!VlanSpanningTree
  <2>1. call # NoCall /\ DOMAIN call = Fields
    BY <1>8, <1>a, Zenon DEF Listed!VlanSpanningTree, Listed!StpBegin, Listed!StpWait, Listed!StpWrite,
                      Listed!StpRemove
  <2> QED BY <1>8, <2>1, StpVlanCalmly DEF ListedCalm
<1>9. CASE Listed!MedPolicy
  <2>1. call # NoCall /\ DOMAIN call = Fields
    BY <1>9, <1>a, Zenon DEF Listed!MedPolicy, Listed!MedBegin, Listed!MedAttached, Listed!MedDetach,
                      Listed!MedDetached, Listed!MedCheck
  <2> QED BY <1>9, <2>1, MedCalmly DEF ListedCalm
<1>10. CASE Listed!CacheSyncs
  <2>1. /\ UNCHANGED native
        /\ call' = IF feature = "med" /\ call # NoCall THEN [call EXCEPT !.quiet = FALSE] ELSE call
    BY <1>10, ListedSame DEF Listed!CacheSyncs, Idle
  <2>2. call # NoCall => DOMAIN call = Fields BY DEF ListedInv, LookedInv, Shaped
  <2>3. ListedQuiet' BY <2>1, <2>2 DEF ListedQuiet, Fields
  <2> QED BY <2>1, <2>3 DEF Listed!LeavesChildren
<1>11. CASE Listed!Outside
  <2>1. PICK S : Interference(S) BY <1>11, ListedSame DEF Listed!Outside
  <2>2. CASE call = NoCall
    <3>1. call' = NoCall BY <2>1, <2>2 DEF Interference, Idle
    <3> QED BY <1>i, <2>2, <3>1 DEF ListedQuiet
  <2>3. CASE call # NoCall
    <3>1. DOMAIN call = Fields BY <2>3 DEF ListedInv, LookedInv, Shaped
    <3>2. call' # NoCall /\ ~call'.quiet BY <2>1, <3>1, InterferenceQuiet
    <3> QED BY <3>2 DEF ListedQuiet, Listed!LeavesChildren
  <2> QED BY <2>2, <2>3
<1>12. CASE Listed!Finished
  <2>1. call = NoCall /\ call' = NoCall BY <1>12, ListedSame DEF Finished, Idle, vars
  <2> QED BY <1>i, <2>1 DEF ListedQuiet
<1> QED BY <1>1, <1>2, <1>3, <1>4, <1>5, <1>6, <1>7, <1>8, <1>9, <1>10, <1>11, <1>12
        DEF Listed!Next, Listed!Apply

-----------------------------------------------------------------------------
(* Settings: an undisturbed call leaves what has its value.                *)

\* A field that already has its wanted value.
Wants(x) == call.before[x] = call.job.value[x]
Kept(s) == \A x \in FieldsOf[feature] \ {"members"} : Wants(x) => s[x] = call.before[x]

\* Another unit of storm control lifts all limits.
SameUnit == feature = "storm" => Values!UnitOf(call.before) = Values!UnitOf(call.job.value)

Toward(label) == call.pc = label \/ (call.pc = "readback" /\ call.then = label)

\* What the next request is for still has to change.
LeavesKnow ==
    feature \in {"igmpglobal", "igmpvlan"} =>
        /\ call.pc # "start" => call.todo \in Seq(FieldsOf[feature])
        /\ Toward("set") \/ Toward("unset") => call.todo # <<>> /\ ~Wants(Head(call.todo))

AggregateKnows ==
    feature = "lag" =>
        /\ call.pc = "rename" => ~Wants("name")
        /\ call.pc \in {"admin", "disable"} => ~Wants("enabled")

StormKnows ==
    feature = "storm" =>
        /\ call.pc \in {"start", "reset"} => call.seen = call.before
        /\ call.pc = "readback" /\ call.then = "reset" => call.expect = {call.before}
        /\ Toward("invalidate") =>
             call.todo \in Seq({x \in FieldsOf[feature] : ~Wants(x)})

Guarded ==
    /\ call.pc = "readback" /\ FieldsOf[feature] # {"value"} =>
         call.then \notin {"start", "rename", "admin", "disable"}
    /\ LeavesKnow /\ AggregateKnows /\ StormKnows

\* A call for one value is begun only to change it.
Differs == FieldsOf[feature] = {"value"} => ~Wants("value")

ValuesQuiet ==
    Working => 
        /\ Differs
        /\ call.quiet /\ SameUnit => Kept(native) /\ Kept(call.seen) /\ Guarded

\* What a step of such a call has to show.
Spares ==
    SameUnit /\ call'.quiet => Kept(native)' /\ (Working' => Kept(call.seen)' /\ Guarded')

Remembers ==
    /\ UNCHANGED feature /\ call'.before = call.before /\ call'.job = call.job

LEMMA SameWants ==
    ASSUME Remembers
    PROVE  /\ \A x : Wants(x)' <=> Wants(x)
           /\ Kept(native)' <=> Kept(native')
           /\ Kept(call.seen)' <=> Kept(call'.seen)
           /\ (Differs' <=> Differs) /\ (SameUnit' <=> SameUnit)
BY DEF Remembers, Wants, Kept, Differs, SameUnit, Values!UnitOf, Values!Limited, Values!Unit

\* Requests keep what they are not about.
LEMMA CarriedKeeps ==
    ASSUME feature \in Values!Features, NEW s \in Raw, Kept(s)
    PROVE  Kept(Values!Carried(s))
<1>1. \A x \in FieldsOf[feature] \ {"members"} : Values!Carried(s)[x] = s[x]
  BY DEF Values!Carried, Raw
<1> QED BY <1>1 DEF Kept

LEMMA WrittenKeeps ==
    ASSUME Typed, Kept(native), NEW values,
           \A x \in DOMAIN values \intersect FieldsOf[feature] :
               values[x] \in 0..3 /\ (Wants(x) => values[x] = call.before[x])
    PROVE  \A s \in Values!Written(values) : Kept(s)
<1> SUFFICES ASSUME NEW s \in Values!Written(values) PROVE Kept(s)
  OBVIOUS
<1>1. PICK skipped : s = Values!Carried([x \in DOMAIN native |->
                        IF x \in DOMAIN values \ skipped THEN values[x] ELSE native[x]])
  BY DEF Values!Written
<1> DEFINE w == [x \in DOMAIN native |-> IF x \in DOMAIN values \ skipped THEN values[x] ELSE native[x]]
<1>2. w \in Raw
  BY DEF Typed, Raw
<1>3. Kept(w)
  BY DEF Kept, Typed, Raw
<1>. HIDE DEF w
<1> QED BY <1>1, <1>2, <1>3, CarriedKeeps DEF Typed, w

LEMMA ResetKeeps ==
    ASSUME Typed, Kept(native), NEW fields,
           \A x \in fields \intersect FieldsOf[feature] : Wants(x) => call.before[x] = 0
    PROVE  \A s \in Values!Reset(fields) : Kept(s)
<1> DEFINE w == [x \in DOMAIN native |-> IF x \in fields /\ cache[x] # None THEN 0 ELSE native[x]]
<1>1. w \in Raw
  BY DEF Typed, Raw
<1>2. Kept(w)
  BY DEF Kept, Typed, Raw
<1>3. Values!Reset(fields) = {Values!Carried(w)} BY DEF Values!Reset
<1>. HIDE DEF w
<1> QED BY <1>1, <1>2, <1>3, CarriedKeeps DEF Typed

\* What a step does to a call that stays undisturbed.
Calmly(label) ==
    call'.quiet =>
        /\ call.quiet /\ Remembers /\ call'.pc = label /\ call' # NoCall
        /\ call'.seen = call.seen

LEMMA SendCalmly ==
    ASSUME Typed, NEW S, NEW x, NEW c, Values!Send(S, x, c), DOMAIN c = Fields,
           \A f \in {"job", "before", "seen", "quiet"} : c[f] = call[f]
    PROVE  /\ Calmly(c.pc)
           /\ call'.quiet => call' = c
           /\ call'.quiet /\ (\A s \in S : Kept(s)) /\ Kept(native) => Kept(native)'
<1>1. Send(S, x, c) BY ValuesSame
<1>2. call'.quiet => call' = c /\ (native' \in S \/ UNCHANGED native)
  BY <1>1, SendQuiet
<1>3. UNCHANGED feature BY <1>1, SendIs DEF Typed
<1>4. call'.quiet => Remembers BY <1>2, <1>3 DEF Remembers
<1>5. call'.quiet => call' # NoCall BY <1>2, NothingCalled
<1> QED BY <1>2, <1>4, <1>5, SameWants DEF Calmly

LEMMA RequestCalmly ==
    ASSUME Typed, NEW S, NEW x, NEW label, NEW expected, Values!Request(S, x, label, expected)
    PROVE  /\ Calmly("readback")
           /\ call'.quiet => call'.then = label /\ call'.expect = expected /\ call'.todo = call.todo
           /\ call'.quiet /\ (\A s \in S : Kept(s)) /\ Kept(native) => Kept(native)'
<1> DEFINE c == [call EXCEPT !.pc = "readback", !.then = label, !.expect = expected]
<1>1. /\ DOMAIN c = Fields /\ c.pc = "readback" /\ c.then = label /\ c.expect = expected
      /\ c.todo = call.todo /\ \A f \in {"job", "before", "seen", "quiet"} : c[f] = call[f]
  BY DEF Typed, Fields
<1>2. Values!Send(S, x, c) BY DEF Values!Request
<1>. HIDE DEF c
<1> QED BY <1>1, <1>2, SendCalmly

LEMMA GotoCalmly ==
    ASSUME Typed, NEW label, Values!Goto(label)
    PROVE  /\ Calmly(label) /\ UNCHANGED native /\ call'.todo = call.todo
           /\ Remembers /\ call'.quiet = call.quiet /\ call'.seen = call.seen /\ call'.pc = label
<1>1. /\ call' = [call EXCEPT !.pc = label] /\ UNCHANGED <<feature, native>>
  BY ValuesSame, GotoIs DEF Typed
<1>2. DOMAIN call' = Fields /\ call'.pc = label /\ \A f \in Fields \ {"pc"} : call'[f] = call[f]
  BY <1>1 DEF Typed, Fields
<1>3. call' # NoCall BY <1>2, NothingCalled
<1> QED BY <1>1, <1>2, <1>3 DEF Calmly, Remembers, Fields

\* A step that sends nothing keeps everything.
LEMMA GotoSpares ==
    ASSUME Typed, Working, NEW label, Values!Goto(label), label # "readback",
           call.quiet /\ SameUnit => Kept(native) /\ Kept(call.seen),
           call.quiet /\ SameUnit /\ label \notin {"done", "failed"} => Guarded'
    PROVE  Spares
<1>1. /\ UNCHANGED native /\ Remembers /\ call'.quiet = call.quiet /\ call'.seen = call.seen
      /\ call'.pc = label
  BY GotoCalmly
<1> QED BY <1>1, SameWants DEF Spares, Working

LEMMA FailSpares ==
    ASSUME Typed, Values!TimesOut
    PROVE  Spares
BY ValuesSame, TimesOutQuiet DEF Spares, Typed

\* An undisturbed call knows all this.
Assured == Typed /\ Working /\ (call.quiet /\ SameUnit => Kept(native) /\ Kept(call.seen) /\ Guarded)

LEMMA Unwanted ==
    ASSUME Assured, call.quiet, SameUnit, NEW x \in FieldsOf[feature] \ {"members"},
           Values!seen[x] # Values!want[x]
    PROVE  ~Wants(x)
BY Remembered DEF Assured, Kept, Wants

\* A request that is not about what is to stay.
LEMMA PatchSpares ==
    ASSUME Assured, NEW values, NEW label, NEW expected, Values!Patch(values, label, expected),
           call.quiet /\ SameUnit =>
               \A x \in DOMAIN values \intersect FieldsOf[feature] :
                   values[x] \in 0..3 /\ (Wants(x) => values[x] = call.before[x]),
           call'.quiet /\ SameUnit /\ Remembers /\ call'.pc = "readback" /\ call'.then = label
               /\ call'.expect = expected /\ call'.todo = call.todo => Guarded'
    PROVE  Spares
<1>1. Values!Request(Values!Written(values), Values!Overlaid(values), label, expected)
  BY DEF Values!Patch
<1>2. /\ Calmly("readback")
      /\ call'.quiet => call'.then = label /\ call'.expect = expected /\ call'.todo = call.todo
      /\ call'.quiet /\ (\A s \in Values!Written(values) : Kept(s)) /\ Kept(native) => Kept(native)'
  BY <1>1, RequestCalmly DEF Assured
<1>3. call.quiet /\ SameUnit => \A s \in Values!Written(values) : Kept(s)
  BY WrittenKeeps DEF Assured
<1> QED BY <1>2, <1>3, SameWants DEF Spares, Calmly, Assured

LEMMA DeleteSpares ==
    ASSUME Assured, NEW fields, NEW label, NEW expected, Values!Delete(fields, label, expected),
           call.quiet /\ SameUnit =>
               \A x \in fields \intersect FieldsOf[feature] : Wants(x) => call.before[x] = 0,
           call'.quiet /\ SameUnit /\ Remembers /\ call'.pc = "readback" /\ call'.then = label
               /\ call'.expect = expected /\ call'.todo = call.todo => Guarded'
    PROVE  Spares
<1>1. Values!Request(Values!Reset(fields), Values!Emptied(fields), label, expected)
  BY DEF Values!Delete
<1>2. /\ Calmly("readback")
      /\ call'.quiet => call'.then = label /\ call'.expect = expected /\ call'.todo = call.todo
      /\ call'.quiet /\ (\A s \in Values!Reset(fields) : Kept(s)) /\ Kept(native) => Kept(native)'
  BY <1>1, RequestCalmly DEF Assured
<1>3. call.quiet /\ SameUnit => \A s \in Values!Reset(fields) : Kept(s)
  BY ResetKeeps DEF Assured
<1> QED BY <1>2, <1>3, SameWants DEF Spares, Calmly, Assured

LEMMA EthernetSpares == ASSUME Assured, Values!Ethernet PROVE Spares
<1>0. feature = "ethernet" /\ FieldsOf[feature] = {"name", "enabled"}
  BY DEF Values!Ethernet, FieldsOf
<1>1. CASE Values!At("start") /\ Values!Masked = {} /\ Values!Goto("write")
  <2>1. Typed /\ call'.pc = "write" /\ Remembers BY <1>1, GotoCalmly DEF Assured
  <2> QED BY <1>0, <1>1, <2>1, GotoSpares
          DEF Assured, Guarded, LeavesKnow, AggregateKnows, StormKnows, Remembers
<1>2. CASE Values!Patch([x \in Values!Masked |-> Values!seen[x]], "write", {Values!before})
  <2> DEFINE values == [x \in Values!Masked |-> Values!seen[x]]
  <2>1. DOMAIN values = Values!Masked /\ Values!Masked \subseteq FieldsOf[feature]
    BY Remembered DEF Values!Masked, Values!Changed, Assured
  <2>2. \A x \in Values!Masked : values[x] \in 0..3 /\ Values!seen[x] # Values!want[x]
    BY <2>1, Remembered DEF Values!Masked, Values!Changed, Assured
  <2>. HIDE DEF values
  <2> QED BY <1>0, <1>2, <2>1, <2>2, Unwanted, PatchSpares
          DEF values, Guarded, LeavesKnow, AggregateKnows, StormKnows, Remembers
<1>3. CASE Values!Patch([x \in Values!Changed |-> Values!want[x]], "check", {Values!want})
  <2> DEFINE values == [x \in Values!Changed |-> Values!want[x]]
  <2>1. DOMAIN values = Values!Changed /\ Values!Changed \subseteq FieldsOf[feature]
    BY Remembered DEF Values!Changed, Assured
  <2>2. \A x \in Values!Changed : values[x] \in 0..3 /\ Values!seen[x] # Values!want[x]
    BY <2>1, Remembered DEF Values!Changed, Assured
  <2>. HIDE DEF values
  <2> QED BY <1>0, <1>3, <2>1, <2>2, Unwanted, PatchSpares
          DEF values, Guarded, LeavesKnow, AggregateKnows, StormKnows, Remembers
<1> QED BY <1>1, <1>2, <1>3 DEF Values!Ethernet

LEMMA StpSpares == ASSUME Assured, Values!StpInterface PROVE Spares
<1>0. feature = "stp" /\ FieldsOf[feature] = {"edge", "guard"} /\ Typed
  BY DEF Values!StpInterface, FieldsOf, Assured
<1>a. ASSUME NEW label, label # "start", Values!Goto(label), label # "readback" PROVE Spares
  <2>1. call'.pc = label /\ Remembers BY <1>0, <1>a, GotoCalmly
  <2> QED BY <1>0, <1>a, <2>1, GotoSpares
          DEF Assured, Guarded, LeavesKnow, AggregateKnows, StormKnows, Remembers
<1>b. call.quiet /\ SameUnit => \A x \in FieldsOf[feature] : Wants(x) => Values!seen[x] = call.before[x]
  BY <1>0, Remembered DEF Assured, Kept
<1>1. CASE Values!Patch(Values!want, "entry", {Values!want})
  <2>1. DOMAIN Values!want = FieldsOf[feature]
        /\ \A x \in DOMAIN Values!want : Values!want[x] \in 0..3 /\ (Wants(x) => Values!want[x] = call.before[x])
    BY <1>0, Remembered DEF Wants
  <2> QED BY <1>0, <1>1, <2>1, PatchSpares
          DEF Guarded, LeavesKnow, AggregateKnows, StormKnows, Remembers
<1>2. CASE Values!Patch(Values!seen, "wait", {Values!seen})
  <2>1. DOMAIN Values!seen = FieldsOf[feature] /\ \A x \in DOMAIN Values!seen : Values!seen[x] \in 0..3
    BY <1>0, Remembered
  <2> QED BY <1>0, <1>b, <1>2, <2>1, PatchSpares
          DEF Guarded, LeavesKnow, AggregateKnows, StormKnows, Remembers
<1>3. CASE Values!TimesOut
  BY <1>0, <1>3, FailSpares
<1>4. CASE call.job.remove /\ Values!Delete(DOMAIN cache, "forgotten", {Values!want})
  <2>1. call.job.value = Values!Default(feature) BY <1>0, <1>4, RemovalIsDefault DEF Typed
  <2>2. \A x \in FieldsOf[feature] : Wants(x) => call.before[x] = 0
    BY <1>0, <2>1, FieldsAre DEF Wants, Values!Default, Typed
  <2> QED BY <1>0, <1>4, <2>2, DeleteSpares
          DEF Guarded, LeavesKnow, AggregateKnows, StormKnows, Remembers
<1>5. CASE Values!At("forgotten") /\ Values!Accept(\A x \in DOMAIN cache : cache[x] = None)
  BY <1>a, <1>5 DEF Values!Accept
<1> QED BY <1>a, <1>1, <1>2, <1>3, <1>4, <1>5 DEF Values!StpInterface

LEMMA CheckSpares == ASSUME Assured, Values!Check PROVE Spares
<1>1. PICK label \in {"done", "failed"} : Values!Goto(label)
  BY DEF Values!Check, Values!Accept
<1> QED BY <1>1, GotoSpares DEF Assured

\* An aggregate: a request without a read.
LEMMA LagSendSpares ==
    ASSUME Assured, feature = "lag", NEW S, NEW x, NEW label, label \notin {"start", "readback"},
           Values!Send(S, x, [call EXCEPT !.pc = label]),
           call.quiet /\ SameUnit => \A s \in S : Kept(s),
           call.quiet /\ SameUnit =>
               /\ label = "rename" => ~Wants("name")
               /\ label \in {"admin", "disable"} => ~Wants("enabled")
    PROVE  Spares
<1> DEFINE c == [call EXCEPT !.pc = label]
<1>1. /\ DOMAIN c = Fields /\ c.pc = label /\ \A f \in {"job", "before", "seen", "quiet"} : c[f] = call[f]
  BY DEF Assured, Typed, Fields
<1>2. Values!Send(S, x, c) OBVIOUS
<1>. HIDE DEF c
<1>3. /\ Calmly(label)
      /\ call'.quiet /\ (\A s \in S : Kept(s)) /\ Kept(native) => Kept(native)'
  BY <1>1, <1>2, SendCalmly DEF Assured
<1>4. call'.quiet /\ SameUnit => Guarded'
  BY <1>3, SameWants DEF Guarded, LeavesKnow, AggregateKnows, StormKnows, Calmly, Remembers
<1> QED BY <1>3, <1>4, SameWants DEF Spares, Calmly, Assured

LEMMA LagSpares == ASSUME Assured, Values!LagInterface PROVE Spares
<1> DEFINE admin == IF Values!before.enabled = Values!want.enabled THEN "poll" ELSE "admin"
           name(s) == [name |-> s.name]
<1>0. feature = "lag" /\ FieldsOf[feature] = {"name", "enabled", "members"} /\ Typed
  BY DEF Values!LagInterface, FieldsOf, Assured
<1>a. /\ Values!before = call.before /\ Values!want = call.job.value
      /\ admin \in {"poll", "admin"} /\ (admin = "admin" => ~Wants("enabled"))
      /\ Values!before.name \in 0..3 /\ Values!want.name \in 0..3
      /\ (Wants("name") <=> Values!before.name = Values!want.name)
  BY <1>0, Remembered DEF Wants
<1>b. call.quiet /\ SameUnit =>
        /\ call.pc = "rename" => ~Wants("name")
        /\ call.pc \in {"admin", "disable"} => ~Wants("enabled")
  BY <1>0 DEF Assured, Guarded, AggregateKnows
<1>1. CASE Values!before.name # Values!want.name
             /\ \E x : Values!Send(Values!Written(name(Values!before)), x, [call EXCEPT !.pc = "rename"])
  <2>1. call.quiet /\ SameUnit => \A s \in Values!Written(name(Values!before)) : Kept(s)
    BY <1>0, <1>1, <1>a, <1>b, WrittenKeeps DEF Assured
  <2> QED BY <1>0, <1>1, <1>a, <2>1, LagSendSpares
<1>2. CASE Values!Goto(admin)
  <2>. HIDE DEF admin
  <2>1. call'.pc = admin /\ Remembers BY <1>0, <1>2, GotoCalmly
  <2>2. Guarded' BY <1>0, <1>a, <2>1, SameWants DEF Guarded, LeavesKnow, AggregateKnows, StormKnows, Remembers
  <2> QED BY <1>0, <1>2, <1>a, <2>2, GotoSpares DEF Assured
<1>3. CASE Values!At("rename")
             /\ \E x : Values!Send(Values!Written(name(Values!want)), x, [call EXCEPT !.pc = admin])
  <2>. HIDE DEF admin
  <2>0. call.pc = "rename" BY <1>3, AtIs
  <2>1. call.quiet /\ SameUnit => \A s \in Values!Written(name(Values!want)) : Kept(s)
    BY <1>0, <2>0, <1>a, <1>b, WrittenKeeps DEF Assured
  <2> QED BY <1>0, <1>3, <1>a, <2>1, LagSendSpares
<1>4. CASE Values!At("admin")
             /\ Values!Send(Values!Reset({"enabled"}), Values!Emptied({"enabled"}), [call EXCEPT !.pc = "poll"])
  <2>0. call.pc = "admin" BY <1>4, AtIs
  <2>1. call.quiet /\ SameUnit => \A s \in Values!Reset({"enabled"}) : Kept(s)
    BY <1>0, <2>0, <1>b, ResetKeeps DEF Assured
  <2> QED BY <1>0, <1>4, <2>1, LagSendSpares
<1>5. CASE Values!At("admin")
             /\ \E x : Values!Send(Values!Written([enabled |-> 0]), x, [call EXCEPT !.pc = "disable"])
  <2>0. call.pc = "admin" BY <1>5, AtIs
  <2>1. call.quiet /\ SameUnit => \A s \in Values!Written([enabled |-> 0]) : Kept(s)
    BY <1>0, <2>0, <1>b, WrittenKeeps DEF Assured
  <2> QED BY <1>0, <1>5, <1>b, <2>0, <2>1, LagSendSpares
<1>6. CASE Values!At("disable")
             /\ \E x : Values!Send(Values!Written([enabled |-> 1]), x, [call EXCEPT !.pc = "poll"])
  <2>0. call.pc = "disable" BY <1>6, AtIs
  <2>1. call.quiet /\ SameUnit => \A s \in Values!Written([enabled |-> 1]) : Kept(s)
    BY <1>0, <2>0, <1>b, WrittenKeeps DEF Assured
  <2> QED BY <1>0, <1>6, <2>1, LagSendSpares
<1>7. CASE Values!Continue([call EXCEPT !.pc = "readback", !.then = "check", !.expect = Values!AnyValue])
  <2>1. /\ call' = [call EXCEPT !.pc = "readback", !.then = "check", !.expect = Values!AnyValue]
        /\ UNCHANGED <<feature, native>>
    BY <1>7, ValuesSame, ContinueIs
  <2>2. /\ call'.pc = "readback" /\ call'.then = "check" /\ call'.quiet = call.quiet
        /\ call'.job = call.job /\ call'.seen = call.seen /\ call'.before = call.before
    BY <1>0, <2>1 DEF Typed, Fields
  <2>3. Remembers BY <2>1, <2>2 DEF Remembers
  <2>4. Guarded' BY <1>0, <2>2, <2>3 DEF Guarded, LeavesKnow, AggregateKnows, StormKnows, Remembers
  <2> QED BY <2>1, <2>2, <2>3, <2>4, SameWants DEF Spares, Assured
<1> QED BY <1>1, <1>2, <1>3, <1>4, <1>5, <1>6, <1>7 DEF Values!LagInterface

\* A step that goes on without a request.
LEMMA ContinueSpares ==
    ASSUME Assured, NEW c, Values!Continue(c), DOMAIN c = Fields, c.pc # "readback",
           \A f \in {"job", "before", "seen", "quiet"} : c[f] = call[f],
           call.quiet /\ SameUnit /\ call' = c /\ Remembers => Guarded'
    PROVE  Spares
<1>1. call' = c /\ UNCHANGED <<feature, native>>
  BY ValuesSame, ContinueIs
<1>2. Remembers BY <1>1 DEF Remembers
<1> QED BY <1>1, <1>2, SameWants DEF Spares, Assured

\* One leaf after the other.
LeafFeature == feature \in {"igmpglobal", "igmpvlan"}

LEMMA ReplaceSpares ==
    ASSUME Assured, LeafFeature, Values!Replace(<<"mode", "version">>) PROVE Spares
<1> DEFINE c == [call EXCEPT !.pc = "clear", !.todo = <<"mode", "version">>]
<1>0. FieldsOf[feature] = {"mode", "version"} BY DEF FieldsOf, LeafFeature
<1>1. /\ DOMAIN c = Fields /\ c.pc = "clear" /\ c.todo = <<"mode", "version">>
      /\ \A f \in {"job", "before", "seen", "quiet"} : c[f] = call[f]
  BY DEF Assured, Typed, Fields
<1>2. Values!Continue(c) BY DEF Values!Replace
<1>3. <<"mode", "version">> \in Seq({"mode", "version"}) OBVIOUS
<1>. HIDE DEF c
<1> QED BY <1>0, <1>1, <1>2, <1>3, ContinueSpares
        DEF Guarded, LeavesKnow, AggregateKnows, StormKnows, Remembers, Toward, LeafFeature

LEMMA LeafSpares == ASSUME Assured, LeafFeature, Values!ReplaceLeaf PROVE Spares
<1> DEFINE Leaf == Head(call.todo)
           next(rest) == [call EXCEPT !.todo = rest]
           clear(rest) == [call EXCEPT !.pc = "clear", !.todo = rest]
<1>0. FieldsOf[feature] = {"mode", "version"} /\ Typed BY DEF FieldsOf, LeafFeature, Assured
<1>a. Values!Leaf = Leaf BY DEF Values!Leaf
<1>b. call.quiet /\ SameUnit /\ call.pc # "start" =>
        /\ call.todo \in Seq(FieldsOf[feature])
        /\ Toward("set") \/ Toward("unset") => call.todo # <<>> /\ ~Wants(Leaf)
  BY DEF Assured, Guarded, LeavesKnow, LeafFeature
<1>c. call.todo \in Seq(FieldsOf[feature]) /\ call.todo # <<>> =>
        Leaf \in FieldsOf[feature] /\ Tail(call.todo) \in Seq(FieldsOf[feature])
  BY <1>0
<1>1. CASE Values!At("clear") /\ Values!Goto("check")
  <2>1. call'.pc = "check" /\ Remembers /\ call'.todo = call.todo /\ call.pc = "clear"
    BY <1>0, <1>1, GotoCalmly, AtIs
  <2>2. call.quiet /\ SameUnit => Guarded'
    BY <1>0, <1>b, <2>1 DEF Guarded, LeavesKnow, AggregateKnows, StormKnows, Remembers, Toward, LeafFeature
  <2> QED BY <1>0, <1>1, <2>2, GotoSpares DEF Assured
<1>2. CASE /\ Values!At("clear") /\ call.todo # <<>> /\ Values!seen[Leaf] # Values!want[Leaf]
           /\ Values!Delete({Leaf}, "set", Values!AnyValue)
  <2>1. call.pc = "clear" /\ call.todo # <<>> BY <1>2, AtIs
  <2>2. call.quiet /\ SameUnit => ~Wants(Leaf)
    BY <1>0, <1>2, <1>b, <1>c, <2>1, Unwanted
  <2>3. call.quiet /\ SameUnit /\ Remembers /\ call'.pc = "readback" /\ call'.then = "set"
          /\ call'.expect = Values!AnyValue /\ call'.todo = call.todo => Guarded'
    BY <1>0, <1>b, <2>1, <2>2, SameWants
    DEF Guarded, LeavesKnow, AggregateKnows, StormKnows, Remembers, Toward, LeafFeature
  <2>4. call'.quiet => call.quiet
    BY <1>0, <1>2, RequestCalmly DEF Values!Delete, Calmly
  <2> QED BY <1>2, <2>2, <2>3, <2>4, DeleteSpares
<1>3. CASE /\ Values!At("clear") /\ call.todo # <<>> /\ Values!Continue(next(Tail(call.todo)))
  <2> DEFINE c == next(Tail(call.todo))
  <2>1. /\ DOMAIN c = Fields /\ c.pc = "clear" /\ c.todo = Tail(call.todo) /\ call.pc = "clear"
        /\ \A f \in {"job", "before", "seen", "quiet"} : c[f] = call[f]
    BY <1>0, <1>3, AtIs DEF Typed, Fields
  <2>2. Values!Continue(c) BY <1>3
  <2>. HIDE DEF c
  <2>3. call.quiet /\ SameUnit => Tail(call.todo) \in Seq(FieldsOf[feature])
    BY <1>3, <1>b, <1>c, <2>1
  <2> QED BY <1>0, <2>1, <2>2, <2>3, ContinueSpares
          DEF Guarded, LeavesKnow, AggregateKnows, StormKnows, Remembers, Toward, LeafFeature
<1>4. CASE Values!At("set") /\ Values!Goto("unset")
  <2>1. call'.pc = "unset" /\ Remembers /\ call'.todo = call.todo /\ call.pc = "set"
    BY <1>0, <1>4, GotoCalmly, AtIs
  <2>2. call.quiet /\ SameUnit => Guarded'
    BY <1>0, <1>b, <2>1, SameWants
    DEF Guarded, LeavesKnow, AggregateKnows, StormKnows, Remembers, Toward, LeafFeature
  <2> QED BY <1>0, <1>4, <2>2, GotoSpares DEF Assured
<1>5. CASE /\ Values!At("set")
           /\ Values!Patch([x \in {Leaf} |-> Values!Set(Leaf)], "unset", Values!AnyValue)
  <2>1. call.pc = "set" BY <1>5, AtIs
  <2>2. Leaf \in FieldsOf[feature] => Values!Set(Leaf) \in 0..3
    BY <1>0, Remembered DEF Values!Set, Values!Materialised, Values!StandIn
  <2>3. call.quiet /\ SameUnit => ~Wants(Leaf)
    BY <1>b, <2>1 DEF Toward
  <2>4. call.quiet /\ SameUnit /\ Remembers /\ call'.pc = "readback" /\ call'.then = "unset"
          /\ call'.expect = Values!AnyValue /\ call'.todo = call.todo => Guarded'
    BY <1>0, <1>b, <2>1, <2>3, SameWants
    DEF Guarded, LeavesKnow, AggregateKnows, StormKnows, Remembers, Toward, LeafFeature
  <2>5. call'.quiet => call.quiet
    BY <1>0, <1>5, RequestCalmly DEF Values!Patch, Calmly
  <2> QED BY <1>5, <2>2, <2>3, <2>4, <2>5, PatchSpares
<1>6. CASE Values!At("unset") /\ Values!Continue(clear(Tail(call.todo)))
  <2> DEFINE c == clear(Tail(call.todo))
  <2>1. /\ DOMAIN c = Fields /\ c.pc = "clear" /\ c.todo = Tail(call.todo) /\ call.pc = "unset"
        /\ \A f \in {"job", "before", "seen", "quiet"} : c[f] = call[f]
    BY <1>0, <1>6, AtIs DEF Typed, Fields
  <2>2. Values!Continue(c) BY <1>6
  <2>. HIDE DEF c
  <2>3. call.quiet /\ SameUnit => Tail(call.todo) \in Seq(FieldsOf[feature])
    BY <1>b, <1>c, <2>1 DEF Toward
  <2> QED BY <1>0, <2>1, <2>2, <2>3, ContinueSpares
          DEF Guarded, LeavesKnow, AggregateKnows, StormKnows, Remembers, Toward, LeafFeature
<1>7. CASE /\ Values!At("unset")
           /\ Values!Send(Values!Reset({Leaf}), Values!Emptied({Leaf}), Values!NextLeaf(call))
  <2> DEFINE c == Values!NextLeaf(call)
  <2>1. /\ DOMAIN c = Fields /\ c.pc = "readback" /\ c.then = "clear" /\ c.todo = Tail(call.todo)
        /\ call.pc = "unset" /\ \A f \in {"job", "before", "seen", "quiet"} : c[f] = call[f]
    BY <1>0, <1>7, AtIs DEF Typed, Fields, Values!NextLeaf
  <2>2. Values!Send(Values!Reset({Leaf}), Values!Emptied({Leaf}), c) BY <1>7
  <2>. HIDE DEF c
  <2>3. /\ Calmly("readback") /\ (call'.quiet => call' = c)
        /\ call'.quiet /\ (\A s \in Values!Reset({Leaf}) : Kept(s)) /\ Kept(native) => Kept(native)'
    BY <1>0, <2>1, <2>2, SendCalmly
  <2>4. call.quiet /\ SameUnit => ~Wants(Leaf) /\ \A s \in Values!Reset({Leaf}) : Kept(s)
    BY <1>0, <1>b, <2>1, ResetKeeps DEF Toward, Assured
  <2>5. call.quiet /\ SameUnit => Tail(call.todo) \in Seq(FieldsOf[feature])
    BY <1>b, <1>c, <2>1 DEF Toward
  <2>6. call'.quiet /\ SameUnit => Guarded'
    BY <1>0, <2>1, <2>3, <2>5, SameWants
    DEF Guarded, LeavesKnow, AggregateKnows, StormKnows, Remembers, Toward, LeafFeature, Calmly
  <2> QED BY <2>3, <2>4, <2>6, SameWants DEF Spares, Calmly, Assured
<1> QED BY <1>a, <1>1, <1>2, <1>3, <1>4, <1>5, <1>6, <1>7 DEF Values!ReplaceLeaf

\* A set of at most two has a cardinality.
LEMMA OfTwoAtMost == ASSUME NEW a, NEW b, NEW S \in SUBSET {a, b} PROVE Cardinality(S) \in Nat
<1> DEFINE Less(T) == T \ {CHOOSE x : x \in T}
           Counts(f) == f = [T \in SUBSET S |-> IF T = {} THEN 0 ELSE 1 + f[Less(T)]]
           count == [T \in SUBSET S |-> IF T = {} THEN 0 ELSE IF Less(T) = {} THEN 1 ELSE 2]
<1>1. \A T \in SUBSET S : T # {} => Less(T) \in SUBSET S /\ (Less(T) # {} => Less(Less(T)) = {})
  <2> SUFFICES ASSUME NEW T \in SUBSET S, T # {}
               PROVE  Less(T) \in SUBSET S /\ (Less(T) # {} => Less(Less(T)) = {})
    OBVIOUS
  <2>1. (CHOOSE x : x \in T) \in T OBVIOUS
  <2>2. Less(T) # {} => (CHOOSE x : x \in Less(T)) \in Less(T) OBVIOUS
  <2> QED BY <2>1, <2>2
<1>. HIDE DEF Less
<1>2. Counts(count)
  <2>1. \A T \in SUBSET S : T # {} => count[T] = 1 + count[Less(T)] BY <1>1
  <2> QED BY <2>1
<1>3. PICK f : f = (CHOOSE g : Counts(g)) OBVIOUS
<1>4. Counts(f) BY <1>2, <1>3
<1>5. \A T \in SUBSET S : (T = {} => f[T] = 0) /\ (T # {} => f[T] = 1 + f[Less(T)])
  BY <1>4
<1>6. f[S] \in Nat
  <2>1. S \in SUBSET S /\ {} \in SUBSET S OBVIOUS
  <2>2. S # {} => Less(S) \in SUBSET S /\ f[S] = 1 + f[Less(S)] BY <1>1, <1>5, <2>1
  <2>3. S # {} /\ Less(S) # {} => f[Less(S)] = 1 + f[Less(Less(S))] /\ Less(Less(S)) = {}
    BY <1>1, <1>5, <2>1, <2>2
  <2>4. f[{}] = 0 BY <1>5, <2>1
  <2> QED BY <1>5, <2>1, <2>2, <2>3, <2>4
<1>7. Cardinality(S) = f[S] BY <1>3 DEF Cardinality, Less
<1> QED BY <1>6, <1>7

\* The order in which the limits of a unit are cleared.
LEMMA LimitsInOrder ==
    ASSUME NEW S \in SUBSET {"broadcast", "multicast"}, NEW order \in Values!Orders(S)
    PROVE  order \in Seq(S)
<1>2. Cardinality(S) \in Nat BY OfTwoAtMost
<1>3. Values!Cardinality(S) = Cardinality(S)
  BY DEF Values!Cardinality, Cardinality
<1>4. order \in [1..Cardinality(S) -> S]
  BY <1>3 DEF Values!Orders, Values!Surjection
<1> QED BY <1>2, <1>4

LEMMA StormSpares == ASSUME Assured, Values!StormControl PROVE Spares
<1> DEFINE drop(rest) == [call EXCEPT !.pc = "invalidate", !.todo = rest]
           reset(rest) == [call EXCEPT !.pc = "readback", !.then = "invalidate",
                                       !.expect = {Values!seen}, !.todo = rest]
           Free == {x \in FieldsOf[feature] : ~Wants(x)}
<1>0. feature = "storm" /\ FieldsOf[feature] = {"broadcast", "multicast"} /\ Typed
  BY DEF Values!StormControl, FieldsOf, Assured
<1>a. /\ Values!before = call.before /\ Values!want = call.job.value /\ Values!seen = call.seen
      /\ DOMAIN Values!before = FieldsOf[feature] /\ DOMAIN Values!want = FieldsOf[feature]
      /\ DOMAIN Values!seen = FieldsOf[feature]
      /\ \A x \in FieldsOf[feature] : Values!seen[x] \in 0..3 /\ Values!want[x] \in 0..3
  BY <1>0, Remembered
<1>b. call.quiet /\ SameUnit => \A x \in FieldsOf[feature] : Values!seen[x] # Values!want[x] => ~Wants(x)
  BY <1>0, Unwanted
<1>c. call.quiet /\ SameUnit /\ call.pc \in {"start", "reset"} =>
        Values!seen = Values!before /\ Values!UnitOf(Values!seen) = Values!UnitOf(Values!want)
  BY <1>0, <1>a DEF Assured, Guarded, StormKnows, SameUnit
<1>d. call.quiet /\ SameUnit /\ Toward("invalidate") => call.todo \in Seq(Free)
  BY <1>0 DEF Assured, Guarded, StormKnows
<1>. HIDE DEF Free
<1>e. call.todo \in Seq(Free) /\ call.todo # <<>> => Head(call.todo) \in Free /\ Tail(call.todo) \in Seq(Free)
  OBVIOUS
<1>1. CASE Values!StormSeed
  <2> DEFINE values == [x \in Values!Seeded |-> Values!seen[x]]
  <2>1. call.pc = "start" BY <1>1, AtIs DEF Values!StormSeed
  <2>2. Values!Seeded \subseteq FieldsOf[feature]
    BY <1>a DEF Values!Seeded, Values!Limited
  <2>3. call.quiet /\ SameUnit => \A x \in Values!Seeded : ~Wants(x)
    BY <2>1, <2>2, <1>b, <1>c DEF Values!Seeded
  <2>4. CASE Values!Goto("reset")
    <3>1. call'.pc = "reset" /\ Remembers /\ call'.seen = call.seen BY <1>0, <2>4, GotoCalmly
    <3>2. call.quiet /\ SameUnit => Guarded'
      BY <1>0, <1>a, <1>c, <2>1, <3>1
      DEF Guarded, LeavesKnow, AggregateKnows, StormKnows, Remembers, Toward
    <3> QED BY <1>0, <2>4, <3>2, GotoSpares DEF Assured
  <2>5. CASE Values!Patch(values, "reset", {Values!before})
    <3>1. DOMAIN values = Values!Seeded /\ \A x \in Values!Seeded : values[x] \in 0..3
      BY <1>a, <2>2
    <3>. HIDE DEF values
    <3> QED BY <1>0, <1>a, <2>3, <2>5, <3>1, PatchSpares
            DEF Guarded, LeavesKnow, AggregateKnows, StormKnows, Remembers, Toward
  <2> QED BY <1>1, <2>4, <2>5 DEF Values!StormSeed
<1>2. CASE Values!StormReset
  <2>1. call.pc = "reset" BY <1>2, AtIs DEF Values!StormReset
  <2>2. CASE Values!NewUnit /\ Values!Delete(DOMAIN Values!seen, "drop", {Values!Default("storm")})
    <3>1. ~(call.quiet /\ SameUnit) BY <2>1, <2>2, <1>c DEF Values!NewUnit
    <3>2. call'.quiet => call.quiet
      BY <1>0, <2>2, RequestCalmly DEF Values!Delete, Calmly
    <3> QED BY <3>1, <3>2 DEF Spares
  <2>3. CASE Values!Goto("drop")
    <3>1. call'.pc = "drop" /\ Remembers BY <1>0, <2>3, GotoCalmly
    <3>2. Guarded'
      BY <1>0, <3>1 DEF Guarded, LeavesKnow, AggregateKnows, StormKnows, Remembers, Toward
    <3> QED BY <1>0, <2>3, <3>2, GotoSpares DEF Assured
  <2> QED BY <1>2, <2>2, <2>3 DEF Values!StormReset
<1>3. CASE Values!StormDrop
  <2>1. CASE \E x \in Values!Dropped : Values!Delete({x}, "drop", {Values!Without(Values!seen, x)})
    <3>1. PICK x \in Values!Dropped : Values!Delete({x}, "drop", {Values!Without(Values!seen, x)})
      BY <2>1
    <3>2. x \in FieldsOf[feature] /\ Values!seen[x] # Values!want[x]
      BY <1>a DEF Values!Dropped, Values!Limited
    <3>3. call.quiet /\ SameUnit => ~Wants(x) BY <1>b, <3>2
    <3> QED BY <1>0, <3>1, <3>3, DeleteSpares
            DEF Guarded, LeavesKnow, AggregateKnows, StormKnows, Remembers, Toward
  <2>2. CASE \E order \in Values!Orders(Values!Limited(Values!want) \ Values!Limited(Values!seen)) :
               Values!Continue(drop(order))
    <3> DEFINE New == Values!Limited(Values!want) \ Values!Limited(Values!seen)
    <3>0. PICK order \in Values!Orders(New) : Values!Continue(drop(order)) BY <2>2
    <3> DEFINE c == drop(order)
    <3>1. /\ DOMAIN c = Fields /\ c.pc = "invalidate" /\ c.todo = order
          /\ \A f \in {"job", "before", "seen", "quiet"} : c[f] = call[f]
      BY <1>0 DEF Typed, Fields
    <3>2. Values!Continue(c) BY <3>0
    <3>3. New \in SUBSET FieldsOf[feature] /\ \A x \in New : Values!seen[x] # Values!want[x]
      BY <1>a DEF Values!Limited
    <3>. HIDE DEF c, New
    <3>4. call.quiet /\ SameUnit => New \subseteq Free BY <1>b, <3>3 DEF Free
    <3>5. order \in Seq(New) BY <1>0, <3>3, LimitsInOrder
    <3>6. call.quiet /\ SameUnit => order \in Seq(Free) BY <3>4, <3>5
    <3>7. call.quiet /\ SameUnit /\ call' = c /\ Remembers => Guarded'
      BY <1>0, <3>1, <3>6, SameWants
      DEF Free, Guarded, LeavesKnow, AggregateKnows, StormKnows, Remembers, Toward
    <3> QED BY <3>1, <3>2, <3>7, ContinueSpares
  <2> QED BY <1>3, <2>1, <2>2 DEF Values!StormDrop
<1>4. CASE Values!StormInvalidate
  <2>1. call.pc = "invalidate" BY <1>4, AtIs DEF Values!StormInvalidate
  <2>2. CASE /\ call.todo # <<>>
             /\ Values!Send(Values!Reset({Head(call.todo)}), Values!Emptied({Head(call.todo)}),
                            reset(Tail(call.todo)))
    <3> DEFINE c == reset(Tail(call.todo))
    <3>1. /\ DOMAIN c = Fields /\ c.pc = "readback" /\ c.then = "invalidate" /\ c.todo = Tail(call.todo)
          /\ \A f \in {"job", "before", "seen", "quiet"} : c[f] = call[f]
      BY <1>0 DEF Typed, Fields
    <3>2. Values!Send(Values!Reset({Head(call.todo)}), Values!Emptied({Head(call.todo)}), c) BY <2>2
    <3>. HIDE DEF c
    <3>3. /\ Calmly("readback") /\ (call'.quiet => call' = c)
          /\ call'.quiet /\ (\A s \in Values!Reset({Head(call.todo)}) : Kept(s)) /\ Kept(native) => Kept(native)'
      BY <1>0, <3>1, <3>2, SendCalmly
    <3>4. call.quiet /\ SameUnit => Head(call.todo) \in Free /\ Tail(call.todo) \in Seq(Free)
      BY <1>d, <1>e, <2>1, <2>2 DEF Toward
    <3>5. call.quiet /\ SameUnit => \A s \in Values!Reset({Head(call.todo)}) : Kept(s)
      BY <1>0, <3>4, ResetKeeps DEF Assured, Free
    <3>6. call'.quiet /\ SameUnit => Guarded'
      BY <1>0, <3>1, <3>3, <3>4, SameWants
      DEF Free, Guarded, LeavesKnow, AggregateKnows, StormKnows, Remembers, Toward, Calmly
    <3> QED BY <3>3, <3>5, <3>6, SameWants DEF Spares, Calmly, Assured
  <2>3. CASE Values!Goto("write")
    <3>1. call'.pc = "write" /\ Remembers BY <1>0, <2>3, GotoCalmly
    <3>2. Guarded'
      BY <1>0, <3>1 DEF Guarded, LeavesKnow, AggregateKnows, StormKnows, Remembers, Toward
    <3> QED BY <1>0, <2>3, <3>2, GotoSpares DEF Assured
  <2> QED BY <1>4, <2>2, <2>3 DEF Values!StormInvalidate
<1>5. CASE Values!StormWrite
  <2> DEFINE values == [x \in Values!Changed |-> Values!want[x]]
  <2>1. CASE Values!Goto("check")
    <3>1. call'.pc = "check" /\ Remembers BY <1>0, <2>1, GotoCalmly
    <3>2. Guarded'
      BY <1>0, <3>1 DEF Guarded, LeavesKnow, AggregateKnows, StormKnows, Remembers, Toward
    <3> QED BY <1>0, <2>1, <3>2, GotoSpares DEF Assured
  <2>2. CASE Values!Patch(values, "check", Values!AnyValue)
    <3>1. /\ DOMAIN values = Values!Changed /\ Values!Changed \subseteq FieldsOf[feature]
          /\ \A x \in Values!Changed : values[x] \in 0..3 /\ Values!seen[x] # Values!want[x]
      BY <1>a DEF Values!Changed
    <3>. HIDE DEF values
    <3>2. call.quiet /\ SameUnit => \A x \in Values!Changed : ~Wants(x) BY <1>b, <3>1
    <3> QED BY <1>0, <2>2, <3>1, <3>2, PatchSpares
            DEF Guarded, LeavesKnow, AggregateKnows, StormKnows, Remembers, Toward
  <2> QED BY <1>5, <2>1, <2>2 DEF Values!StormWrite
<1> QED BY <1>1, <1>2, <1>3, <1>4, <1>5 DEF Values!StormControl

LEMMA SettingStarts ==
    ASSUME ValuesInv, Values!Start
    PROVE  ValuesQuiet' /\ (call'.quiet => UNCHANGED native)
<1> DEFINE next == IF native = Gone THEN (IF Values!NothingLeft THEN "done" ELSE "failed")
                   ELSE IF Values!Unwritable THEN "refused"
                   ELSE IF Values!Agrees(native, Values!want) /\ ~(feature = "stp" /\ call.job.remove)
                   THEN "done"
                   ELSE IF feature = "lag" /\ native.members = 2 THEN "refused"
                   ELSE "start"
<1>1. call.pc = "read" /\ call # NoCall /\ DOMAIN call = Fields
  BY AtIs, NothingCalled DEF Values!Start, ValuesInv, LookedInv, Shaped
<1>2. CASE Values!TimesOut
  <2>1. call' # NoCall /\ ~call'.quiet /\ call'.pc = "failed"
    BY <1>1, <1>2, ValuesSame, TimesOutQuiet, TimesOutIs
  <2> QED BY <2>1 DEF ValuesQuiet, Working
<1>3. CASE Values!Continue([Values!Observed EXCEPT !.pc = next])
  <2>1. /\ DOMAIN Values!Observed = Fields /\ Values!Observed.job = call.job
        /\ Values!Observed.seen = native /\ Values!Observed.before = native
    BY <1>1 DEF Values!Observed, Fields
  <2>2. call' = [Values!Observed EXCEPT !.pc = next] /\ UNCHANGED <<feature, native>>
    BY <1>3, ValuesSame, ContinueIs
  <2>3. /\ call'.job = call.job /\ call'.pc = next /\ call'.seen = native /\ call'.before = native
    BY <2>1, <2>2 DEF Fields
  <2>. HIDE DEF next
  <2>4. next \in {"done", "failed", "refused", "start"} BY DEF next
  <2>5. Working' => next = "start" BY <2>3, <2>4 DEF Working
  <2>6. next = "start" /\ FieldsOf[feature] = {"value"} => native.value # call.job.value.value
    <3> SUFFICES ASSUME next = "start", FieldsOf[feature] = {"value"} PROVE native.value # call.job.value.value
      OBVIOUS
    <3>1. feature # "stp"
      <4>1. FieldsOf["stp"] = {"edge", "guard"} BY DEF FieldsOf
      <4> QED BY <4>1
    <3>2. native # Gone /\ ~Values!Agrees(native, call.job.value)
      BY <3>1 DEF next, Values!want
    <3>3. native \in [{"value"} -> 0..3] /\ call.job.value \in [{"value"} -> 0..3]
      BY <1>1, <3>2, WantIsRaw DEF ValuesInv, Raw
    <3> QED BY <3>2, <3>3 DEF Values!Agrees
  <2>7. Working' => Differs' BY <2>2, <2>3, <2>5, <2>6 DEF Differs, Wants
  <2>8. Working' => Kept(native)' /\ Kept(call.seen)' BY <2>2, <2>3 DEF Kept
  <2>9. Working' => Guarded'
    BY <2>3, <2>5 DEF Guarded, LeavesKnow, AggregateKnows, StormKnows, Toward
  <2> QED BY <2>2, <2>7, <2>8, <2>9 DEF ValuesQuiet
<1> QED BY <1>2, <1>3 DEF Values!Start

LEMMA SettingLooks == ASSUME ValuesInv, ValuesQuiet, Values!Readback PROVE ValuesQuiet'
<1>1. /\ call.pc = "readback" /\ call # NoCall /\ DOMAIN call = Fields /\ Typed /\ Working /\ Readback
  BY ValuesSame, NothingCalled DEF Readback, At, ValuesInv, LookedInv, Shaped, Working
<1>2. UNCHANGED <<feature, native>> /\ call'.before = call.before /\ call'.job = call.job
  <2>1. /\ UNCHANGED <<feature, native>>
        /\ \/ call' = [[call EXCEPT !.pc = "failed"] EXCEPT !.quiet = FALSE]
           \/ call' = [[call EXCEPT !.pc = "failed"] EXCEPT !.seen = native, !.fresh = TRUE]
           \/ call' = [[call EXCEPT !.pc = call.then] EXCEPT !.seen = native, !.fresh = TRUE]
    BY <1>1 DEF Readback, Fail, Faulty, Sound, switch
  <2> QED BY <1>1, <2>1 DEF Fields
<1>3. Remembers BY <1>2 DEF Remembers
<1>4. Differs' BY <1>1, <1>3, SameWants DEF ValuesQuiet
<1>5. ASSUME Working', call'.quiet, SameUnit PROVE Kept(native)' /\ Kept(call.seen)' /\ Guarded'
  <2>1. /\ call.quiet /\ call'.seen = native
        /\ call'.pc = IF Confirmed THEN call.then ELSE "failed"
        /\ call'.todo = call.todo
    BY <1>1, <1>5, ReadbackQuiet DEF Fields
  <2>2. Kept(native) /\ Guarded BY <1>1, <1>5, <2>1 DEF ValuesQuiet
  <2>3. call'.pc = call.then /\ Confirmed BY <1>5, <2>1 DEF Working
  <2>4. FieldsOf[feature] # {"value"} => call.then \notin {"start", "readback", "rename", "admin", "disable"}
    BY <1>1, <2>2 DEF Guarded, ValuesInv
  <2>a. FieldsOf[feature] = {"value"} => feature \notin {"lag", "igmpglobal", "igmpvlan", "storm"}
    BY DEF FieldsOf
  <2>5. feature = "storm" /\ call.then = "reset" => native = call.before
    BY <1>1, <2>2, <2>3 DEF Guarded, StormKnows, Confirmed
  <2>6. Guarded'
    BY <1>1, <1>3, <2>1, <2>2, <2>3, <2>4, <2>a, <2>5, SameWants
    DEF Guarded, LeavesKnow, AggregateKnows, StormKnows, Toward, Remembers
  <2> QED BY <1>2, <1>3, <2>1, <2>2, <2>6, SameWants
<1> QED BY <1>3, <1>4, <1>5, SameWants DEF ValuesQuiet

\* Requests of the features with more than one value.
LEMMA ManyIsKnown ==
    ASSUME feature \in Values!Features, FieldsOf[feature] # {"value"}
    PROVE  feature \in {"ethernet", "lag", "stp", "igmpglobal", "igmpvlan", "storm"}
<1>1. feature \in DOMAIN FieldsOf BY FieldsAre
<1> QED BY <1>1 DEF FieldsOf

\* A call whose requests all are about the one value it changes.
LEMMA OneSpares ==
    ASSUME Typed, FieldsOf[feature] = {"value"}, Differs, Remembers
    PROVE  Spares
<1>1. Differs' BY SameWants
<1>2. Kept(native)' /\ Kept(call.seen)' BY <1>1 DEF Differs, Kept, Remembers
<1>3. feature \notin {"lag", "igmpglobal", "igmpvlan", "storm"} BY DEF FieldsOf
<1>4. Guarded' BY <1>3 DEF Guarded, LeavesKnow, AggregateKnows, StormKnows, Remembers
<1> QED BY <1>2, <1>4 DEF Spares

\* Every request of an undisturbed call leaves alone what has its value.
LEMMA RequestsSpare ==
    ASSUME ValuesInv, ValuesQuiet,
           \/ Values!Check \/ Values!DscpTrust \/ Values!StpInterface \/ Values!Jumbo
           \/ Values!LldpPort \/ Values!LldpGlobal \/ Values!Poe \/ Values!Ethernet
           \/ Values!LagInterface \/ Values!VoiceVlan \/ Values!ProtectedPort
           \/ Values!IgmpGlobal \/ Values!IgmpVlan \/ Values!StormControl
    PROVE  Assured /\ Remembers /\ Spares /\ Differs'
<1>1. Typed /\ Working BY RequestsWork DEF ValuesInv, Working
<1>2. Progress \/ Completes \/ Forgets BY <1>1, RequestSteps DEF ValuesInv
<1>3. Remembers
  BY <1>2 DEF Remembers, Progress, Completes, Forgets, Moves, Pends
<1>4. Differs /\ Differs' BY <1>1, <1>3, SameWants DEF ValuesQuiet
<1>5. Assured BY <1>1 DEF Assured, ValuesQuiet
<1>6. CASE FieldsOf[feature] = {"value"}
  BY <1>1, <1>3, <1>4, <1>5, <1>6, OneSpares
<1>7. CASE FieldsOf[feature] # {"value"}
  <2>1. feature \in {"ethernet", "lag", "stp", "igmpglobal", "igmpvlan", "storm"}
    BY <1>1, <1>7, ManyIsKnown DEF Typed
  <2>2. \/ Values!Check \/ Values!Ethernet \/ Values!StpInterface \/ Values!LagInterface
        \/ LeafFeature /\ (Values!Replace(<<"mode", "version">>) \/ Values!ReplaceLeaf)
        \/ Values!StormControl
    BY <2>1 DEF LeafFeature, Values!DscpTrust, Values!Jumbo, Values!LldpPort, Values!LldpGlobal,
                Values!Poe, Values!VoiceVlan, Values!ProtectedPort, Values!IgmpGlobal, Values!IgmpVlan
  <2>3. Spares
    BY <1>5, <2>2, CheckSpares, EthernetSpares, StpSpares, LagSpares, ReplaceSpares, LeafSpares,
       StormSpares
  <2> QED BY <1>3, <1>4, <1>5, <2>3
<1> QED BY <1>3, <1>4, <1>5, <1>6, <1>7

\* The end of a call, and what happens around it.
LEMMA ValuesQuietHolds ==
    ASSUME ValuesInv, ValuesQuiet, Values!Next
    PROVE  ValuesQuiet' /\ Values!TouchesOnlyWhatDiffers
<1>a. UNCHANGED native => Values!TouchesOnlyWhatDiffers
  BY DEF Values!TouchesOnlyWhatDiffers
<1>b. ASSUME call # NoCall, call'.quiet => UNCHANGED native PROVE Values!TouchesOnlyWhatDiffers
  BY <1>b DEF Values!TouchesOnlyWhatDiffers
<1>c. call = NoCall => Values!TouchesOnlyWhatDiffers
  BY ValuesSame DEF Values!TouchesOnlyWhatDiffers, Idle
<1>1. CASE \E job \in Values!Wanted(feature) : Values!Begin(job)
  <2>1. call = NoCall /\ call'.pc = "read" BY <1>1, ValuesSame, BeginIs DEF ValuesInv
  <2> QED BY <1>c, <2>1 DEF ValuesQuiet, Working
<1>2. CASE Values!Start
  BY <1>2, <1>a, <1>b, <1>c, SettingStarts
<1>3. CASE Values!Refuse \/ Values!Return
  BY <1>3, <1>a, ValuesSame, EndIs DEF ValuesQuiet, ValuesInv, Working
<1>4. CASE Values!Readback
  <2>1. UNCHANGED native BY <1>4, ValuesSame DEF Readback, Faulty, Sound, switch
  <2> QED BY <1>4, <1>a, <2>1, SettingLooks
<1>5. CASE \/ Values!Check \/ Values!DscpTrust \/ Values!StpInterface \/ Values!Jumbo
           \/ Values!LldpPort \/ Values!LldpGlobal \/ Values!Poe \/ Values!Ethernet
           \/ Values!LagInterface \/ Values!VoiceVlan \/ Values!ProtectedPort
           \/ Values!IgmpGlobal \/ Values!IgmpVlan \/ Values!StormControl
  <2>1. Assured /\ Remembers /\ Spares /\ Differs' BY <1>5, RequestsSpare
  <2>2. ValuesQuiet' BY <2>1, SameWants DEF ValuesQuiet, Spares
  <2>3. call.quiet /\ call'.quiet /\ SameUnit => Kept(native) /\ Kept(native)'
    BY <2>1 DEF Assured, Spares
  <2>4. Kept(native)' <=> Kept(native') BY <2>1, SameWants
  <2>5. DOMAIN native = FieldsOf[feature] BY <2>1 DEF Assured, Typed, Raw
  <2>6. Values!TouchesOnlyWhatDiffers
    BY <2>3, <2>4, <2>5 DEF Values!TouchesOnlyWhatDiffers, Kept, Wants, SameUnit, Values!before, Values!want
  <2> QED BY <2>2, <2>6
<1>6. CASE Values!CacheSyncs
  <2>1. UNCHANGED <<feature, native, call>> BY <1>6 DEF Values!CacheSyncs
  <2>2. Remembers /\ call'.seen = call.seen BY <2>1 DEF Remembers
  <2>3. Guarded' <=> Guarded BY <2>1, <2>2, SameWants
    DEF Guarded, LeavesKnow, AggregateKnows, StormKnows, Toward
  <2> QED BY <1>a, <2>1, <2>2, <2>3, SameWants DEF ValuesQuiet, Working
<1>7. CASE Values!Outside
  <2>1. PICK S : Interference(S) BY <1>7, ValuesSame DEF Values!Outside
  <2>2. CASE call = NoCall
    <3>1. call' = NoCall BY <2>1, <2>2 DEF Interference, Idle
    <3> QED BY <1>c, <2>2, <3>1 DEF ValuesQuiet, Working
  <2>3. CASE call # NoCall
    <3>1. /\ UNCHANGED feature /\ call' # NoCall
          /\ \A f \in Fields \ {"quiet", "fresh"} : call'[f] = call[f]
      BY <2>1, <2>3, InterferenceIs DEF ValuesInv
    <3>2. ~call'.quiet BY <2>1, <2>3, InterferenceQuiet DEF ValuesInv, LookedInv, Shaped
    <3>3. Remembers /\ call'.pc = call.pc BY <3>1 DEF Remembers, Fields
    <3>4. Working' => Working /\ Differs'
      BY <2>3, <3>3, SameWants DEF Working, ValuesQuiet
    <3> QED BY <1>b, <2>3, <3>2, <3>4 DEF ValuesQuiet
  <2> QED BY <2>2, <2>3
<1>8. CASE Values!Finished
  <2>1. call = NoCall /\ call' = NoCall BY <1>8, ValuesSame DEF Finished, Idle, vars
  <2> QED BY <1>c, <2>1 DEF ValuesQuiet, Working
<1> QED BY <1>1, <1>2, <1>3, <1>4, <1>5, <1>6, <1>7, <1>8 DEF Values!Next, Values!Apply

-----------------------------------------------------------------------------
(* The properties of calls that nothing disturbs.                          *)

QuietInv ==
    /\ FeaturesInv
    /\ feature \in Values!Features => ValuesQuiet
    /\ feature \in Listed!Features => ListedQuiet
    /\ feature \in Access!Features => AccessQuiet
    /\ feature \in Accounts!Features => AccountsQuiet

\* No step makes a feature another group's.
LEMMA FeatureStays ==
    ASSUME FeaturesInv, [Next]_vars
    PROVE  /\ feature \in Values!Features <=> feature' \in Values!Features
           /\ feature \in Listed!Features <=> feature' \in Listed!Features
           /\ feature \in Access!Features <=> feature' \in Access!Features
           /\ feature \in Accounts!Features <=> feature' \in Accounts!Features
<1>1. CASE UNCHANGED vars BY <1>1 DEF vars
<1>2. CASE feature \in Values!Features /\ Values!Next
  <2>1. feature' \in Values!Features BY <1>2, ValuesNextHolds DEF FeaturesInv, ValuesInv
  <2> QED BY <1>2, <2>1, GroupsApart
<1>3. CASE feature \in Listed!Features /\ Listed!Next
  <2>1. feature' \in Listed!Features BY <1>3, ListedNextHolds DEF FeaturesInv, ListedInv
  <2> QED BY <1>3, <2>1, GroupsApart
<1>4. CASE feature \in Access!Features /\ Access!Next
  <2>1. feature' \in Access!Features BY <1>4, AccessNextHolds DEF FeaturesInv, AccessInv
  <2> QED BY <1>4, <2>1, GroupsApart
<1>5. CASE feature \in Accounts!Features /\ Accounts!Next
  <2>1. feature' \in Accounts!Features BY <1>5, AccountsNextHolds DEF FeaturesInv, AccountsInv
  <2> QED BY <1>5, <2>1, GroupsApart
<1> QED BY <1>1, <1>2, <1>3, <1>4, <1>5 DEF Next

LEMMA QuietInitHolds == Init => QuietInv
<1> SUFFICES ASSUME Init PROVE QuietInv
  OBVIOUS
<1>1. call = NoCall
  BY ValuesSame, ListedSame, AccessSame, AccountsSame
  DEF Init, Values!Init, Listed!Init, Access!Init, Accounts!Init
<1> QED BY <1>1, FeaturesInitHolds DEF QuietInv, ValuesQuiet, Working, ListedQuiet, AccessQuiet, AccountsQuiet

LEMMA QuietNextHolds == QuietInv /\ [Next]_vars => QuietInv'
<1> SUFFICES ASSUME QuietInv, [Next]_vars PROVE QuietInv'
  OBVIOUS
<1>1. FeaturesInv' BY FeaturesNextHolds DEF QuietInv
<1>2. CASE UNCHANGED vars
  <2>1. UNCHANGED <<feature, native, call>> BY <1>2 DEF vars, switch
  <2>2. ListedQuiet' = ListedQuiet /\ AccountsQuiet' = AccountsQuiet
    BY <2>1 DEF ListedQuiet, AccountsQuiet
  <2>3. AccessQuiet' = AccessQuiet
    BY <2>1 DEF AccessQuiet, GlobalQuiet, PortQuiet, Todo, Apply
  <2>4. Remembers /\ call'.seen = call.seen BY <2>1 DEF Remembers
  <2>5. Guarded' <=> Guarded BY <2>1, <2>4, SameWants
    DEF Guarded, LeavesKnow, AggregateKnows, StormKnows, Toward
  <2>6. ValuesQuiet => ValuesQuiet' BY <2>1, <2>4, <2>5, SameWants DEF ValuesQuiet, Working
  <2> QED BY <1>1, <2>1, <2>2, <2>3, <2>6 DEF QuietInv
<1>3. ASSUME Next, feature' \in Listed!Features PROVE ListedQuiet'
  <2>1. feature \in Listed!Features BY <1>3, FeatureStays DEF QuietInv
  <2>2. Listed!Next BY <1>3, <2>1, GroupsApart DEF Next
  <2> QED BY <2>1, <2>2, ListedQuietHolds DEF QuietInv, FeaturesInv
<1>4. ASSUME Next, feature' \in Access!Features PROVE AccessQuiet'
  <2>1. feature \in Access!Features BY <1>4, FeatureStays DEF QuietInv
  <2>2. Access!Next BY <1>4, <2>1, GroupsApart DEF Next
  <2> QED BY <2>1, <2>2, AccessQuietHolds DEF QuietInv, FeaturesInv
<1>5. ASSUME Next, feature' \in Accounts!Features PROVE AccountsQuiet'
  <2>1. feature \in Accounts!Features BY <1>5, FeatureStays DEF QuietInv
  <2>2. Accounts!Next BY <1>5, <2>1, GroupsApart DEF Next
  <2> QED BY <2>1, <2>2, AccountsQuietHolds DEF QuietInv, FeaturesInv
<1>6. ASSUME Next, feature' \in Values!Features PROVE ValuesQuiet'
  <2>1. feature \in Values!Features BY <1>6, FeatureStays DEF QuietInv
  <2>2. Values!Next BY <1>6, <2>1, GroupsApart DEF Next
  <2> QED BY <2>1, <2>2, ValuesQuietHolds DEF QuietInv, FeaturesInv
<1> QED BY <1>1, <1>2, <1>3, <1>4, <1>5, <1>6 DEF QuietInv

LEMMA QuietAlways == Spec => []QuietInv
BY QuietInitHolds, QuietNextHolds, PTL DEF Spec

\* After a call that nothing disturbed the failure actions are in force, and
\* the secret is the one given, although neither can be read back: the port's
\* callback applies the actions again, and the account's always sends it.
THEOREM Enforced == Spec => []InForce
<1>1. QuietInv => InForce
  <2> SUFFICES ASSUME QuietInv PROVE InForce
    OBVIOUS
  <2>1. feature \in Access!Features => Access!ActionsInForce
    BY ActionsAreInForce DEF QuietInv, FeaturesInv
  <2>2. feature \in Accounts!Features => Accounts!SecretsInForce
    BY AccountsSame, AccountsAt, NothingCalled, AccountsKnows
    DEF QuietInv, FeaturesInv, AccountsQuiet, Accounts!SecretsInForce
  <2> QED BY <2>1, <2>2 DEF InForce
<1> QED BY <1>1, QuietAlways, PTL

\* Aligning RESTCONF's copy with the switch changes nothing there that the
\* caller did not ask to change: the seeds, primers and stand-ins of a call
\* that is left alone are about settings that differ.
THEOREM SettingsAreLeft == Spec => OnlyWhatDiffers
<1>1. QuietInv /\ [Next]_vars =>
        [(feature \in Values!Features => Values!TouchesOnlyWhatDiffers)]_vars
  <2> SUFFICES ASSUME QuietInv, Next PROVE feature \in Values!Features => Values!TouchesOnlyWhatDiffers
    OBVIOUS
  <2>1. feature \in Values!Features => Values!Next BY GroupsApart DEF Next
  <2> QED BY <2>1, ValuesQuietHolds DEF QuietInv, FeaturesInv
<1> QED BY <1>1, QuietAlways, PTL DEF Spec, OnlyWhatDiffers

\* No call that is left alone erases what is configured below its entry, or a
\* port or global setting it was not asked about: what the callbacks check
\* before their first request still holds at every later one.
THEOREM NeighboursAreLeft == Spec => NeighboursSurvive
<1>1. QuietInv /\ [Next]_vars =>
        [ /\ feature \in Listed!Features => Listed!LeavesChildren
          /\ feature \in Access!Features => Access!LeavesNeighbours ]_vars
  <2> SUFFICES ASSUME QuietInv, Next
               PROVE  /\ feature \in Listed!Features => Listed!LeavesChildren
                      /\ feature \in Access!Features => Access!LeavesNeighbours
    OBVIOUS
  <2>1. feature \in Listed!Features => Listed!Next BY GroupsApart DEF Next
  <2>2. feature \in Access!Features => Access!Next BY GroupsApart DEF Next
  <2> QED BY <2>1, <2>2, ListedQuietHolds, AccessQuietHolds DEF QuietInv, FeaturesInv
<1> QED BY <1>1, QuietAlways, PTL DEF Spec, NeighboursSurvive

\* Login methods change only after the rest of the policy is in place: the
\* order in which the policy is written is the order of what it depends on.
THEOREM LoginComesLast == Spec => LoginLast
<1>1. QuietInv /\ [Next]_vars => [(feature \in Accounts!Features => Accounts!ChangesLoginLast)]_vars
  <2> SUFFICES ASSUME QuietInv, Next PROVE feature \in Accounts!Features => Accounts!ChangesLoginLast
    OBVIOUS
  <2>1. feature \in Accounts!Features => Accounts!Next BY GroupsApart DEF Next
  <2> QED BY <2>1, LoginStep DEF QuietInv, FeaturesInv
<1> QED BY <1>1, QuietAlways, PTL DEF Spec, LoginLast
=============================================================================
