--------------------------- MODULE DetectionProofs ---------------------------
(***************************************************************************)
(* What is proved of Detection, for every choice of its constants: that no *)
(* message is counted twice that has an id, that what is accepted is       *)
(* stored, and, for the traffic of this repository's own simulator, that   *)
(* each window is exact, that the background sets off nothing, that an     *)
(* attack fires the rule it demonstrates, and when a breach is critical.   *)
(***************************************************************************)
EXTENDS Detection, FiniteSetTheorems, TLAPS

-----------------------------------------------------------------------------
(* The windows: which rule keeps which key, and what an evaluation does to *)
(* the key of each rule that runs.                                         *)

\* The rule a key belongs to, and the address whose events it counts.
RuleOf(key) ==
    CASE key[1] = "bruteforce" -> "RULE-001"
      [] key[1] = "spray" -> "RULE-002"
      [] key[1] = "portscan" -> "RULE-003"
      [] key[1] = "exfil" -> "RULE-006"
      [] OTHER -> "RULE-007"
Owner(key) == IF key[1] = "exfil" THEN key[2][1] ELSE key[2]

MembersAt(table, key) == IF key \in DOMAIN table THEN table[key].members ELSE {}
LogAt(history, key) == IF key \in DOMAIN history THEN history[key] ELSE {}
Member(w, e) == [value |-> w.value, ts |-> e.timestamp, n |-> e.event_id]
Asked(e, broken) == {Window(rule, e) : rule \in Run(e, broken) \cap WindowRules}

\* Each rule asks for a window of its own; one that watches an address asks for
\* that address's.
LEMMA WindowFacts ==
    ASSUME NEW e, NEW rule \in WindowRules
    PROVE  /\ Window(rule, e).rule = rule /\ RuleOf(Window(rule, e).key) = rule
           /\ Window(rule, e).mode \in {"add", "measure"}
           /\ rule \in ByAddress => Owner(Window(rule, e).key) = e.source_ip
           /\ rule \notin ByAddress => Window(rule, e).mode = "add"
<1>1. rule \in {"RULE-001", "RULE-002", "RULE-003", "RULE-006", "RULE-007"}
  BY DetectionAssumption
<1>2. CASE rule = "RULE-001"
  <2>1. Window(rule, e) = BruteForceWindow(e)
    BY <1>2 DEF Window
  <2>2. \/ Window(rule, e) = Measure("RULE-001", "bruteforce", e.source_ip)
        \/ Window(rule, e) = Add("RULE-001", "bruteforce", e.source_ip, e.username)
    BY <2>1 DEF BruteForceWindow
  <2> QED
    BY <1>2, <2>2 DEF Measure, Add, RuleOf, Owner, ByAddress
<1>3. CASE rule = "RULE-002"
  <2>1. Window(rule, e) = Add("RULE-002", "spray", e.source_ip, e.username)
    BY <1>3 DEF Window, SprayWindow
  <2> QED
    BY <1>3, <2>1 DEF Add, RuleOf, Owner, ByAddress
<1>4. CASE rule = "RULE-003"
  <2>1. Window(rule, e) = Add("RULE-003", "portscan", e.source_ip, e.destination_port)
    BY <1>4 DEF Window, ScanWindow
  <2> QED
    BY <1>4, <2>1 DEF Add, RuleOf, Owner, ByAddress
<1>5. CASE rule = "RULE-006"
  <2>1. Window(rule, e) = Add("RULE-006", "exfil", <<e.source_ip, e.destination_ip>>, e.bytes_out)
    BY <1>5 DEF Window, ExfilWindow
  <2> QED
    BY <1>5, <2>1 DEF Add, RuleOf, Owner, ByAddress
<1>6. CASE rule = "RULE-007"
  <2>1. PICK name \in {"authgeo_ok", "authgeo_fail"} :
          Window(rule, e) = Add("RULE-007", name, e.username, e.source_ip)
    BY <1>6 DEF Window, GeoWindow
  <2> QED
    BY <1>6, <2>1 DEF Add, RuleOf, Owner, ByAddress
<1> QED
  BY <1>1, <1>2, <1>3, <1>4, <1>5, <1>6

LEMMA AskedFacts ==
    ASSUME NEW e, NEW broken, NEW w \in Asked(e, broken)
    PROVE  /\ w.rule \in WindowRules /\ Applies(w.rule, e) /\ RuleOf(w.key) = w.rule
           /\ w.mode \in {"add", "measure"}
           /\ w.rule \in ByAddress => Owner(w.key) = e.source_ip
           /\ w.rule \notin ByAddress => w.mode = "add"
           /\ \A v \in Asked(e, broken) : v.key = w.key => v = w
<1>1. PICK rule \in Run(e, broken) \cap WindowRules : w = Window(rule, e)
  BY DEF Asked
<1>2. ASSUME NEW v \in Asked(e, broken), v.key = w.key
      PROVE  v = w
  <2>1. PICK other \in Run(e, broken) \cap WindowRules : v = Window(other, e)
    BY DEF Asked
  <2>2. other = rule
    BY <1>1, <1>2, <2>1, WindowFacts
  <2> QED
    BY <1>1, <2>1, <2>2
<1> QED
  BY <1>1, <1>2, WindowFacts DEF Run

\* What an evaluation does, window by window: it sees the window of every key it
\* asks for and leaves that in place of the old one (and no key of an empty
\* window), adding to the history what it adds;
AsksFor(found, w, e) ==
    /\ MembersAt(found.windows, w.key) = Looked(w, e).members
    /\ w.key \in DOMAIN found.windows => found.windows[w.key] = Looked(w, e)
    /\ LogAt(found.log, w.key)
         = IF w.mode = "add" THEN LogAt(log, w.key) \cup {Member(w, e)} ELSE LogAt(log, w.key)
    /\ w.mode = "add" => w.key \in DOMAIN found.log

\* the other keys stay as they are;
LeavesAlone(found, k) ==
    /\ LogAt(found.log, k) = LogAt(log, k)
    /\ k \in DOMAIN found.windows => k \in DOMAIN windows /\ found.windows[k] = windows[k]
    /\ k \in DOMAIN windows /\ windows[k].members # {} => k \in DOMAIN found.windows

Looks(e, broken) ==
    {[key |-> w.key, rule |-> w.rule, mode |-> w.mode, ts |-> e.timestamp,
      members |-> Looked(w, e).members] : w \in Asked(e, broken)}
Cuts(e, broken) ==
    UNION {{[key |-> w.key, member |-> m] : m \in Outdated(w)}
              : w \in {v \in Asked(e, broken) : v.mode # "add"}}

\* it reports what it has seen, and notes what it cut off.
Outcome(found, e, broken) ==
    /\ found.looks = Looks(e, broken) /\ found.cuts = Cuts(e, broken)
    /\ \A w \in Asked(e, broken) : AsksFor(found, w, e)
    /\ \A k : k \notin {w.key : w \in Asked(e, broken)} => LeavesAlone(found, k)
    /\ DOMAIN log \subseteq DOMAIN found.log
    /\ \A k \in DOMAIN found.windows : found.windows[k].members # {}

LEMMA EvaluationFacts ==
    ASSUME NEW e, NEW broken
    PROVE  Outcome(Evaluation(e, broken), e, broken)
<1> DEFINE found == Evaluation(e, broken)
<1> DEFINE A == Asked(e, broken)
           added == {w \in A : w.mode = "add"}
           after == [k \in DOMAIN windows \cup {w.key : w \in A} |->
                        IF \E w \in A : w.key = k
                        THEN Looked(CHOOSE w \in A : w.key = k, e) ELSE windows[k]]
           history == [k \in DOMAIN log \cup {w.key : w \in added} |->
                         (IF k \in DOMAIN log THEN log[k] ELSE {})
                             \cup {Member(w, e) : w \in {a \in added : a.key = k}}]
<1>1. /\ found.looks = {[key |-> w.key, rule |-> w.rule, mode |-> w.mode, ts |-> e.timestamp,
                         members |-> Looked(w, e).members] : w \in A}
      /\ found.windows = [k \in {w \in DOMAIN after : after[w].members # {}} |-> after[k]]
      /\ found.log = history
      /\ found.cuts = UNION {{[key |-> w.key, member |-> m] : m \in Outdated(w)} : w \in A \ added}
  BY DEF Evaluation, Asked, Member
<1> HIDE DEF found
<1>2. \A v, w \in A : v.key = w.key => v = w
  BY AskedFacts
<1>3. ASSUME NEW w \in A
      PROVE  w.key \in DOMAIN after /\ after[w.key] = Looked(w, e)
  <2>1. (CHOOSE v \in A : v.key = w.key) = w
    BY <1>2
  <2> HIDE DEF A
  <2> QED
    BY <2>1
<1>4. ASSUME NEW k, k \notin {w.key : w \in A}
      PROVE  /\ k \in DOMAIN after <=> k \in DOMAIN windows
             /\ k \in DOMAIN windows => after[k] = windows[k]
  <2> HIDE DEF A
  <2> QED
    BY <1>4
<1>5. ASSUME NEW w \in A
      PROVE  LogAt(history, w.key) = IF w.mode = "add" THEN LogAt(log, w.key) \cup {Member(w, e)}
                                     ELSE LogAt(log, w.key)
  <2>1. {a \in added : a.key = w.key} = IF w.mode = "add" THEN {w} ELSE {}
    <3> HIDE DEF A
    <3> QED
      BY <1>2
  <2>2. w.key \in {v.key : v \in added} <=> w.mode = "add"
    <3> HIDE DEF A
    <3> QED
      BY <1>2
  <2> HIDE DEF A, added
  <2>3. {Member(v, e) : v \in {a \in added : a.key = w.key}} = IF w.mode = "add" THEN {Member(w, e)} ELSE {}
    BY <2>1
  <2> QED
    BY <2>2, <2>3 DEF LogAt
<1>6. ASSUME NEW k, k \notin {w.key : w \in A}
      PROVE  LogAt(history, k) = LogAt(log, k)
  <2>1. {a \in added : a.key = k} = {}
    BY <1>6
  <2>2. k \notin {w.key : w \in added}
    BY <1>6
  <2> HIDE DEF A, added
  <2>3. k \in DOMAIN history => history[k] = LogAt(log, k)
    BY <2>1, <2>2 DEF LogAt
  <2> QED
    BY <2>2, <2>3 DEF LogAt
<1>7. A \ added = {v \in A : v.mode # "add"}
  OBVIOUS
<1>8. DOMAIN log \subseteq DOMAIN history /\ \A w \in A : w.mode = "add" => w.key \in DOMAIN history
  <2> HIDE DEF A
  <2> QED
    OBVIOUS
<1> HIDE DEF A, after, history, added
<1>9. /\ DOMAIN found.windows = {w \in DOMAIN after : after[w].members # {}}
      /\ \A k \in DOMAIN found.windows : found.windows[k] = after[k]
  BY <1>1
<1>10. \A w \in A : MembersAt(found.windows, w.key) = Looked(w, e).members
  BY <1>3, <1>9 DEF MembersAt
<1>11. \A w \in A : AsksFor(found, w, e)
  BY <1>1, <1>3, <1>5, <1>8, <1>9, <1>10 DEF AsksFor
<1>12. \A k : k \notin {w.key : w \in A} => LeavesAlone(found, k)
  BY <1>1, <1>4, <1>6, <1>9 DEF LeavesAlone
<1>13. found.looks = Looks(e, broken) /\ found.cuts = Cuts(e, broken)
  BY <1>1, <1>7 DEF Looks, Cuts, A
<1>14. Outcome(found, e, broken)
  BY <1>1, <1>8, <1>9, <1>11, <1>12, <1>13 DEF Outcome, A
<1> QED
  BY <1>14 DEF found

-----------------------------------------------------------------------------
(* Types. *)

\* The inductive invariant of types: every window has its history.
Typed ==
    /\ TypeOK
    /\ left \in [Kinds -> Nat]
    /\ DOMAIN windows \subseteq DOMAIN log

LEMMA InitTyped == Init => Typed
BY DetectionAssumption DEF Init, Typed, TypeOK

\* What is left of a budget after a step is a budget.
LEMMA SpendTyped ==
    ASSUME left \in [Kinds -> Nat], NEW kind \in Kinds, Spend(kind)
    PROVE  left' \in [Kinds -> Nat]
BY DEF Spend

LEMMA FinishTyped ==
    ASSUME left \in [Kinds -> Nat], NEW i, NEW again \in BOOLEAN, NEW faults \in Nat,
           Possible(again, faults), Finish(i, again, faults)
    PROVE  left' \in [Kinds -> Nat]
<1>1. left.redeliveries \in Nat /\ left.faults \in Nat
  BY DEF Kinds
<1>2. /\ left.redeliveries - (IF again THEN 1 ELSE 0) \in Nat
      /\ left.faults - faults \in Nat
  BY <1>1 DEF Possible
<1> QED
  BY <1>2 DEF Finish, Kinds

\* A window as the evaluation leaves it is part of its history, and expires
\* later.
LEMMA LookedFacts ==
    ASSUME Typed, NEW e, NEW broken, NEW w \in Asked(e, broken)
    PROVE  /\ Looked(w, e).members \subseteq
                 IF w.mode = "add" THEN LogAt(log, w.key) \cup {Member(w, e)} ELSE LogAt(log, w.key)
           /\ Looked(w, e).members # {} => Looked(w, e).expiry > clock
           /\ w.mode = "add" => Looked(w, e).expiry = clock + Params[w.rule].window + Slack
           /\ w.mode # "add" => Looked(w, e).expiry = Kept(w.key).expiry
           /\ w.mode = "add" =>
                Looked(w, e).members
                  = {m \in MembersAt(windows, w.key) : m.ts > e.timestamp - Params[w.rule].window}
                       \cup {Member(w, e)}
           /\ w.mode # "add" =>
                Looked(w, e).members
                  = {m \in MembersAt(windows, w.key) : m.ts > clock - Params[w.rule].window}
<1>1. w.rule \in WindowRules
  BY AskedFacts
<1>2. Params[w.rule].window \in Nat /\ Params[w.rule].window > 0 /\ Slack \in Nat /\ clock \in Nat
  BY <1>1, DetectionAssumption DEF Typed, TypeOK
<1>3. Kept(w.key).members = MembersAt(windows, w.key)
  BY DEF Kept, MembersAt
<1>4. MembersAt(windows, w.key) \subseteq LogAt(log, w.key)
  BY DEF Typed, TypeOK, MembersAt, LogAt
<1>5. CASE w.mode = "add"
  <2>1. Looked(w, e) = AddAndMeasure(w, e)
    BY <1>5 DEF Looked
  <2>2. /\ Looked(w, e).members
             = {m \in MembersAt(windows, w.key) : m.ts > e.timestamp - Params[w.rule].window}
                 \cup {Member(w, e)}
        /\ Looked(w, e).expiry = clock + Params[w.rule].window + Slack
    BY <1>3, <2>1 DEF AddAndMeasure, After, Member, ExpireAt
  <2> QED
    BY <1>2, <1>4, <1>5, <2>2
<1>6. CASE w.mode # "add"
  <2>1. Looked(w, e) = MeasureOnly(w)
    BY <1>6 DEF Looked
  <2>2. /\ Looked(w, e).members
             = {m \in MembersAt(windows, w.key) : m.ts > clock - Params[w.rule].window}
        /\ Looked(w, e).expiry = Kept(w.key).expiry
    BY <1>3, <2>1 DEF MeasureOnly, After
  <2>3. Looked(w, e).members # {} => w.key \in DOMAIN windows
    BY <2>2 DEF MembersAt
  <2>4. w.key \in DOMAIN windows => Kept(w.key).expiry > clock
    BY DEF Typed, TypeOK, Kept
  <2> QED
    BY <1>4, <1>6, <2>2, <2>3, <2>4
<1> QED
  BY <1>5, <1>6

LEMMA EvaluateTyped ==
    ASSUME Typed, NEW e, NEW broken, NEW mine, Evaluate(e, broken, mine), clock' = clock
    PROVE  /\ DOMAIN windows' \subseteq DOMAIN log'
           /\ \A k \in DOMAIN windows' :
                windows'[k].members # {} /\ windows'[k].expiry > clock' /\ windows'[k].members \subseteq log'[k]
<1>1. PICK found : Outcome(found, e, broken) /\ windows' = found.windows /\ log' = found.log
  BY EvaluationFacts DEF Evaluate
<1> SUFFICES ASSUME NEW k \in DOMAIN windows'
             PROVE  /\ windows'[k].members # {} /\ windows'[k].expiry > clock
                    /\ k \in DOMAIN log' /\ windows'[k].members \subseteq log'[k]
  OBVIOUS
<1>2. windows'[k].members # {}
  BY <1>1 DEF Outcome
<1>3. windows'[k].expiry > clock /\ windows'[k].members \subseteq LogAt(log', k)
  <2>1. CASE k \in {w.key : w \in Asked(e, broken)}
    <3>1. PICK w \in Asked(e, broken) : w.key = k
      BY <2>1
    <3>2. /\ w.key \in DOMAIN found.windows => found.windows[w.key] = Looked(w, e)
          /\ LogAt(found.log, w.key)
               = IF w.mode = "add" THEN LogAt(log, w.key) \cup {Member(w, e)}
                 ELSE LogAt(log, w.key)
      BY <1>1 DEF Outcome, AsksFor
    <3>3. /\ windows'[k] = Looked(w, e)
          /\ LogAt(log', k) = IF w.mode = "add" THEN LogAt(log, w.key) \cup {Member(w, e)}
                              ELSE LogAt(log, w.key)
      BY <1>1, <3>1, <3>2
    <3> QED
      BY <1>2, <3>3, LookedFacts
  <2>2. CASE k \notin {w.key : w \in Asked(e, broken)}
    <3>1. /\ LogAt(log', k) = LogAt(log, k) /\ k \in DOMAIN windows
          /\ windows'[k] = windows[k]
      BY <1>1, <2>2 DEF Outcome, LeavesAlone
    <3> QED
      BY <3>1 DEF Typed, TypeOK, LogAt
  <2> QED
    BY <2>1, <2>2
<1>4. k \in DOMAIN log'
  BY <1>2, <1>3 DEF LogAt
<1> QED
  BY <1>2, <1>3, <1>4 DEF LogAt

LEMMA BrokenFacts ==
    ASSUME NEW broken \in {{}} \cup {{rule} : rule \in Rules}
    PROVE  Cardinality(broken) \in Nat
<1>1. CASE broken = {}
  BY <1>1, FS_EmptySet
<1>2. ASSUME NEW rule \in Rules, broken = {rule}
      PROVE  Cardinality(broken) = 1
  BY <1>2, FS_Singleton
<1> QED
  BY <1>1, <1>2

LEMMA StepTyped == Typed /\ [Next]_vars => Typed'
<1> SUFFICES ASSUME Typed, [Next]_vars PROVE Typed'
  OBVIOUS
<1> USE DEF Typed
<1>1. CASE Tick
  <2>1. left' \in [Kinds -> Nat]
    BY <1>1, SpendTyped DEF Tick, Kinds
  <2>2. clock' = clock + 1 /\ clock \in Nat
        /\ windows' = [k \in {w \in DOMAIN windows : windows[w].expiry > clock + 1} |-> windows[k]]
        /\ log' = log /\ rows' = rows /\ seen' = seen /\ taken' = taken
    BY <1>1 DEF Tick, TypeOK
  <2>3. \A k \in DOMAIN windows' : /\ k \in DOMAIN windows /\ windows'[k] = windows[k]
                                   /\ windows'[k].expiry > clock'
    BY <2>2
  <2>4. \A k \in DOMAIN windows' : /\ windows'[k].members # {} /\ windows'[k].members \subseteq log'[k]
                                   /\ k \in DOMAIN log'
    BY <2>2, <2>3 DEF TypeOK
  <2>5. {r.id : r \in rows'} \subseteq seen' /\ seen' = {t.id : t \in taken'}
    BY <2>2 DEF TypeOK
  <2>6. clock' \in Nat /\ \A kind \in DOMAIN left' : left'[kind] \in Nat
    BY <2>1, <2>2
  <2> QED
    BY <2>1, <2>3, <2>4, <2>5, <2>6 DEF TypeOK
<1>2. ASSUME NEW kind \in Kinds, Spend(kind), UNCHANGED <<clock, windows, log, rows, seen, taken>>
      PROVE  Typed'
  <2>1. left' \in [Kinds -> Nat]
    BY <1>2, SpendTyped
  <2>2. TypeOK'
    BY <1>2, <2>1 DEF TypeOK
  <2> QED
    BY <1>2, <2>1, <2>2
<1>3. ASSUME NEW name \in Names, Launch(name)
      PROVE  Typed'
  BY <1>2, <1>3 DEF Launch, Kinds
<1>4. CASE EmitFails \/ EmitNormal \/ Foreign
  BY <1>2, <1>4 DEF EmitFails, EmitNormal, Foreign, Kinds
<1>5. CASE EmitAttack
  BY <1>5 DEF EmitAttack, TypeOK
<1>6. ASSUME NEW i \in 1..InFlight, NEW again \in BOOLEAN, Reject(i, again) \/ Duplicate(i, again)
      PROVE  Typed'
  <2>1. left' \in [Kinds -> Nat]
    BY <1>6, FinishTyped DEF Reject, Duplicate
  <2> QED
    BY <1>6, <2>1 DEF Reject, Duplicate, TypeOK
<1>7. ASSUME NEW i \in 1..InFlight, NEW again \in BOOLEAN,
             NEW broken \in {{}} \cup {{rule} : rule \in Rules}, Process(i, broken, again)
      PROVE  Typed'
  <2>1. left' \in [Kinds -> Nat]
    BY <1>7, BrokenFacts, FinishTyped DEF Process
  <2>2. PICK e : /\ seen' = seen \cup {e.event_id}
                 /\ Evaluate(e, broken, topic[i].from = "attack")
                 /\ rows' = IF Fits(RowFromEvent(e)) THEN rows \cup {RowFromEvent(e)} ELSE rows
                 /\ taken' = taken \cup {[of |-> topic[i].n, nth |-> Cardinality(taken),
                                          from |-> topic[i].from, id |-> e.event_id,
                                           named |-> topic[i].raw.event_id # NoId,
                                           long |-> Overlong \in {e.source, e.username, e.service} \cup e.action]}
    BY <1>7 DEF Process
  <2>3. clock' = clock
    BY <1>7 DEF Process
  <2>4. /\ DOMAIN windows' \subseteq DOMAIN log'
        /\ \A k \in DOMAIN windows' :
             windows'[k].members # {} /\ windows'[k].expiry > clock' /\ windows'[k].members \subseteq log'[k]
    BY <2>2, <2>3, EvaluateTyped
  <2>5. {r.id : r \in rows'} \subseteq seen'
    BY <2>2 DEF TypeOK, RowFromEvent
  <2>6. seen' = {t.id : t \in taken'}
    <3> DEFINE t == [of |-> topic[i].n, nth |-> Cardinality(taken),
                     from |-> topic[i].from, id |-> e.event_id,
                     named |-> topic[i].raw.event_id # NoId,
                     long |-> Overlong \in {e.source, e.username, e.service} \cup e.action]
    <3>1. t.id = e.event_id /\ taken' = taken \cup {t}
      BY <2>2
    <3> HIDE DEF t
    <3>2. seen = {u.id : u \in taken} /\ seen' = seen \cup {e.event_id}
      BY <2>2 DEF TypeOK
    <3> QED
      BY <3>1, <3>2
  <2> QED
    BY <2>1, <2>3, <2>4, <2>5, <2>6 DEF TypeOK
<1>8. CASE UNCHANGED vars
  BY <1>8 DEF vars, TypeOK
<1> QED
  BY <1>1, <1>3, <1>4, <1>5, <1>6, <1>7, <1>8 DEF Next

LEMMA AlwaysTyped == Spec => []Typed
BY InitTyped, StepTyped, PTL DEF Spec

\* Types; what is in a window has been added to it, and what has a row has been
\* seen.
THEOREM TypeOKHolds == Spec => []TypeOK
<1>1. Typed => TypeOK
  BY DEF Typed
<1> QED
  BY <1>1, AlwaysTyped, PTL

-----------------------------------------------------------------------------
(* What is accepted is stored.                                             *)

\* An event whose texts fit their columns has a row that fits: the validators
\* leave a source that is not null.
LEMMA EventFits ==
    ASSUME NEW raw, NEW now, NEW fresh, NEW e, e = FromRaw(raw, now, fresh),
           Overlong \notin {e.source, e.username, e.service} \cup e.action
    PROVE  Fits(RowFromEvent(e))
<1>1. e.source = ClipSource(raw.source)
  BY DEF FromRaw
<1>2. e.source # None
  BY <1>1 DEF ClipSource, None
<1> QED
  BY <1>2 DEF Fits, RowFromEvent

LEMMA StepStores == AcceptedIsStored /\ [Next]_vars => AcceptedIsStored'
<1> SUFFICES ASSUME AcceptedIsStored, [Next]_vars PROVE AcceptedIsStored'
  OBVIOUS
<1>1. ASSUME UNCHANGED <<rows, taken>>
      PROVE  AcceptedIsStored'
  BY <1>1 DEF AcceptedIsStored
<1>2. ASSUME NEW i \in 1..InFlight, NEW again \in BOOLEAN,
             NEW broken \in {{}} \cup {{rule} : rule \in Rules}, Process(i, broken, again)
      PROVE  AcceptedIsStored'
  <2>1. PICK e : /\ e = Event(i)
                 /\ rows' = IF Fits(RowFromEvent(e)) THEN rows \cup {RowFromEvent(e)} ELSE rows
                 /\ taken' = taken \cup {[of |-> topic[i].n, nth |-> Cardinality(taken),
                                          from |-> topic[i].from, id |-> e.event_id,
                                           named |-> topic[i].raw.event_id # NoId,
                                           long |-> Overlong \in {e.source, e.username, e.service} \cup e.action]}
    BY <1>2 DEF Process
  <2>2. Overlong \notin {e.source, e.username, e.service} \cup e.action => Fits(RowFromEvent(e))
    BY <2>1, EventFits DEF Event
  <2>3. RowFromEvent(e).id = e.event_id
    BY DEF RowFromEvent
  <2>4. ASSUME NEW t \in taken', ~t.long
        PROVE  \E r \in rows' : r.id = t.id
    <3>1. CASE t \in taken
      BY <2>1, <2>4, <3>1 DEF AcceptedIsStored
    <3>2. CASE t \notin taken
      <4>1. t.id = e.event_id /\ t.long = (Overlong \in {e.source, e.username, e.service} \cup e.action)
        BY <2>1, <3>2
      <4>2. rows' = rows \cup {RowFromEvent(e)}
        BY <2>1, <2>2, <2>4, <4>1
      <4> QED
        BY <2>3, <4>1, <4>2
    <3> QED
      BY <3>1, <3>2
  <2> QED
    BY <2>4 DEF AcceptedIsStored
<1>3. ASSUME NEW name \in Names, Launch(name)
      PROVE  AcceptedIsStored'
  BY <1>1, <1>3 DEF Launch
<1>4. ASSUME NEW i \in 1..InFlight, NEW again \in BOOLEAN, Reject(i, again) \/ Duplicate(i, again)
      PROVE  AcceptedIsStored'
  BY <1>1, <1>4 DEF Reject, Duplicate
<1>5. CASE Tick \/ EmitAttack \/ EmitFails \/ EmitNormal \/ Foreign \/ UNCHANGED vars
  BY <1>1, <1>5 DEF Tick, EmitAttack, EmitFails, EmitNormal, Foreign, vars
<1> QED
  BY <1>2, <1>3, <1>4, <1>5 DEF Next

\* Every event that validation accepts has its row, but for a source, user name,
\* service or action longer than its column.
THEOREM AcceptedIsStoredHolds == Spec => []AcceptedIsStored
<1>1. Init => AcceptedIsStored
  BY DEF Init, AcceptedIsStored
<1> QED
  BY <1>1, StepStores, PTL DEF Spec

-----------------------------------------------------------------------------
(* The topic and its messages.                                             *)

\* A sequence without its i-th element is the others, in their order.
LEMMA Without1 ==
    ASSUME NEW S, NEW s \in Seq(S), NEW i \in 1..Len(s)
    PROVE  LET r == SubSeq(s, 1, i - 1) \o SubSeq(s, i + 1, Len(s))
           IN  /\ r \in Seq(S) /\ Len(r) = Len(s) - 1
               /\ \A j \in 1..Len(r) : r[j] = s[IF j < i THEN j ELSE j + 1]
<1> DEFINE a == SubSeq(s, 1, i - 1)
           b == SubSeq(s, i + 1, Len(s))
<1>1. Len(s) \in Nat /\ i \in Nat /\ 1 <= i /\ i <= Len(s)
  OBVIOUS
<1>2. \A k \in 1..Len(s) : s[k] \in S
  OBVIOUS
<1>3. a \in Seq(S) /\ Len(a) = i - 1 /\ \A j \in 1..(i - 1) : a[j] = s[j]
  BY <1>1
<1>4. b \in Seq(S) /\ Len(b) = Len(s) - i /\ \A j \in 1..(Len(s) - i) : b[j] = s[i + j]
  BY <1>1
<1> HIDE DEF a, b
<1>5. a \o b \in Seq(S) /\ Len(a \o b) = Len(s) - 1
  <2>1. a \o b \in Seq(S) /\ Len(a \o b) = Len(a) + Len(b)
    <3>1. a \in Seq(S) /\ b \in Seq(S)
      BY <1>3, <1>4
    <3> QED
      BY <3>1
  <2>2. Len(a) + Len(b) = Len(s) - 1
    BY <1>1, <1>3, <1>4
  <2> QED
    BY <2>1, <2>2
<1>6. ASSUME NEW j \in 1..Len(a \o b)
      PROVE  (a \o b)[j] = s[IF j < i THEN j ELSE j + 1]
  <2>1. CASE j < i
    BY <1>1, <1>3, <1>4, <1>5, <2>1
  <2>2. CASE j >= i
    <3>1. (a \o b)[j] = b[j - Len(a)]
      BY <1>1, <1>3, <1>4, <1>5, <2>2
    <3>2. j - Len(a) = j - i + 1 /\ j - i + 1 \in 1..(Len(s) - i) /\ i + (j - i + 1) = j + 1
      BY <1>1, <1>3, <1>5, <2>2
    <3>3. b[j - Len(a)] = s[i + (j - i + 1)]
      BY <1>4, <3>2
    <3> QED
      BY <2>2, <3>1, <3>2, <3>3
  <2> QED
    BY <1>1, <1>5, <2>1, <2>2
<1> QED
  BY <1>5, <1>6 DEF a, b

IsTopic(s) == \E S : s \in Seq(S)

\* Where the messages of the next topic were before the step.
LEMMA FinishTopic ==
    ASSUME IsTopic(topic), NEW i, NEW again, NEW faults, i \in 1..Len(topic), Finish(i, again, faults)
    PROVE  /\ IsTopic(topic')
           /\ \A j \in 1..Len(topic') : \E k \in 1..Len(topic) :
                 /\ topic'[j] = topic[k]
                 /\ \/ again /\ j = k
                    \/ ~again /\ k # i /\ k = IF j < i THEN j ELSE j + 1
<1>1. PICK S : topic \in Seq(S)
  BY DEF IsTopic
<1>2. CASE again
  BY <1>2 DEF Finish
<1>3. CASE ~again
  <2> DEFINE r == SubSeq(topic, 1, i - 1) \o SubSeq(topic, i + 1, Len(topic))
  <2>1. topic' = r
    BY <1>3 DEF Finish
  <2>2. /\ r \in Seq(S) /\ Len(r) = Len(topic) - 1
        /\ \A j \in 1..Len(r) : r[j] = topic[IF j < i THEN j ELSE j + 1]
    BY <1>1, Without1
  <2> HIDE DEF r
  <2>3. ASSUME NEW j \in 1..Len(topic')
        PROVE  \E k \in 1..Len(topic) : /\ topic'[j] = topic[k]
                                        /\ k # i /\ k = IF j < i THEN j ELSE j + 1
    <3> DEFINE k == IF j < i THEN j ELSE j + 1
    <3>1. k \in 1..Len(topic) /\ k # i
      BY <1>1, <2>1, <2>2
    <3>2. topic'[j] = topic[k]
      BY <2>1, <2>2
    <3> QED
      BY <3>1, <3>2
  <2> QED
    BY <1>3, <2>1, <2>2, <2>3 DEF IsTopic
<1> QED
  BY <1>2, <1>3

LEMMA SendTopic ==
    ASSUME IsTopic(topic), NEW raw, NEW from, Send(raw, from)
    PROVE  /\ IsTopic(topic')
           /\ Len(topic') = Len(topic) + 1 /\ Len(topic) \in Nat
           /\ \A j \in 1..Len(topic) : topic'[j] = topic[j]
           /\ topic'[Len(topic) + 1] = [raw |-> raw, sent |-> clock, n |-> sends, from |-> from]
<1>1. PICK S : topic \in Seq(S)
  BY DEF IsTopic
<1> DEFINE m == [raw |-> raw, sent |-> clock, n |-> sends, from |-> from]
<1>2. topic' = Append(topic, m)
  BY DEF Send
<1> HIDE DEF m
<1>3. topic \in Seq(S \cup {m}) /\ m \in S \cup {m}
  BY <1>1
<1>4. /\ topic' \in Seq(S \cup {m}) /\ Len(topic') = Len(topic) + 1 /\ Len(topic) \in Nat
      /\ \A j \in 1..Len(topic) : topic'[j] = topic[j]
      /\ topic'[Len(topic) + 1] = m
  BY <1>2, <1>3
<1> QED
  BY <1>4 DEF IsTopic, m

\* A message stamped at t, as the simulator makes them.
Stamped(x, t) == {"event_id", "timestamp", "source_ip"} \subseteq DOMAIN x /\ x.timestamp = At(t)

LEMMA MakeStamped ==
    ASSUME NEW now, NEW source_type, NEW event_type, NEW status
    PROVE  /\ Stamped(MakeEvent(now, source_type, event_type, status), now)
           /\ MakeEvent(now, source_type, event_type, status).event_id = NoId
BY DEF MakeEvent, Stamped

LEMMA LoginStamped ==
    ASSUME NEW now, NEW source_type, NEW ok, NEW user, NEW ip
    PROVE  /\ Stamped(Login(now, source_type, ok, user, ip), now)
           /\ Login(now, source_type, ok, user, ip).event_id = NoId
BY MakeStamped DEF Login, Stamped

LEMMA StampedWithId ==
    ASSUME NEW x, NEW t, Stamped(x, t), NEW id
    PROVE  Stamped([x EXCEPT !.event_id = id], t) /\ [x EXCEPT !.event_id = id].event_id = id
BY DEF Stamped

LEMMA FlowStamped ==
    ASSUME NEW now, NEW type, NEW ip, NEW port
    PROVE  Stamped(Flow(now, type, ip, port), now)
<1> DEFINE m == MakeEvent(now, "firewall", type, "allowed")
<1>1. Stamped(m, now)
  BY MakeStamped
<1>2. Flow(now, type, ip, port) = [m EXCEPT !.source_ip = ip, !.destination_ip = "inside", !.destination_port = <<port>>,
                                        !.bytes_out = <<1>>]
  BY DEF Flow
<1> HIDE DEF m
<1> QED
  BY <1>1, <1>2 DEF Stamped

LEMMA SignOffStamped ==
    ASSUME NEW now, NEW u, NEW ip
    PROVE  Stamped(SignOff(now, u, ip), now)
<1> DEFINE m == MakeEvent(now, "linux_server", "logout", "success")
<1>1. Stamped(m, now)
  BY MakeStamped
<1>2. SignOff(now, u, ip) = [m EXCEPT !.source_ip = ip, !.username = u]
  BY DEF SignOff
<1> HIDE DEF m
<1> QED
  BY <1>1, <1>2 DEF Stamped

LEMMA InjectedStamped ==
    ASSUME NEW now, NEW type, NEW q, NEW count
    PROVE  Stamped(Injected(now, type, q, count), now)
<1> DEFINE m == MakeEvent(now, "database", type, "success")
<1>1. Stamped(m, now)
  BY MakeStamped
<1>2. Injected(now, type, q, count) = [m EXCEPT !.source_ip = AttackIp, !.username = "svc_api",
                                              !.message = q,
                                              !.metadata = [query |-> q, rows_returned |-> <<count>>]]
  BY DEF Injected
<1> HIDE DEF m
<1> QED
  BY <1>1, <1>2 DEF Stamped

LEMMA NormalStamped ==
    ASSUME NEW now, NEW raw \in NormalEvent(now)
    PROVE  Stamped(raw, now)
<1>1. CASE raw \in SshLogin(now) \cup IdpEvent(now)
  BY <1>1, LoginStamped DEF SshLogin, IdpEvent
<1>2. CASE raw \in HttpRequest(now)
  <2>1. PICK ip \in InternalIps \cup ExternalIps :
          raw = [MakeEvent(now, "web_server", "http_request", "success") EXCEPT !.source_ip = ip, !.destination_port = <<443>>, !.bytes_out = <<1>>]
    BY <1>2 DEF HttpRequest
  <2> DEFINE m == MakeEvent(now, "web_server", "http_request", "success")
  <2>2. Stamped(m, now)
    BY MakeStamped
  <2>3. raw = [m EXCEPT !.source_ip = ip, !.destination_port = <<443>>, !.bytes_out = <<1>>]
    BY <2>1
  <2> HIDE DEF m
  <2> QED
    BY <2>2, <2>3 DEF Stamped
<1>3. CASE raw \in DbQuery(now)
  <2>1. PICK ip \in InternalIps :
          raw = [MakeEvent(now, "database", "db_query", "success") EXCEPT !.source_ip = ip, !.username = "svc_api",
                    !.metadata = [query |-> {"text"}, rows_returned |-> <<120>>]]
    BY <1>3 DEF DbQuery
  <2> DEFINE m == MakeEvent(now, "database", "db_query", "success")
  <2>2. Stamped(m, now)
    BY MakeStamped
  <2>3. raw = [m EXCEPT !.source_ip = ip, !.username = "svc_api",
                    !.metadata = [query |-> {"text"}, rows_returned |-> <<120>>]]
    BY <2>1
  <2> HIDE DEF m
  <2> QED
    BY <2>2, <2>3 DEF Stamped
<1>4. CASE raw \in Firewall(now)
  BY <1>4, FlowStamped DEF Firewall
<1>5. CASE raw \in Dns(now)
  <2>1. PICK ip \in InternalIps :
          raw = [MakeEvent(now, "dns", "dns_query", "success") EXCEPT !.source_ip = ip, !.destination_port = <<53>>]
    BY <1>5 DEF Dns
  <2> DEFINE m == MakeEvent(now, "dns", "dns_query", "success")
  <2>2. Stamped(m, now)
    BY MakeStamped
  <2>3. raw = [m EXCEPT !.source_ip = ip, !.destination_port = <<53>>]
    BY <2>1
  <2> HIDE DEF m
  <2> QED
    BY <2>2, <2>3 DEF Stamped
<1>6. CASE raw \in AppEvent(now)
  <2>1. PICK u \in Members(Users) :
          raw = [MakeEvent(now, "application", "application_event", "success") EXCEPT !.username = u]
    BY <1>6 DEF AppEvent
  <2> DEFINE m == MakeEvent(now, "application", "application_event", "success")
  <2>2. Stamped(m, now)
    BY MakeStamped
  <2>3. raw = [m EXCEPT !.username = u]
    BY <2>1
  <2> HIDE DEF m
  <2> QED
    BY <2>2, <2>3 DEF Stamped
<1>7. CASE raw \in Logout(now)
  BY <1>7, SignOffStamped DEF Logout
<1>8. CASE raw \in ScheduledJob(now)
  BY <1>8, MakeStamped DEF ScheduledJob, Stamped
<1> QED
  BY <1>1, <1>2, <1>3, <1>4, <1>5, <1>6, <1>7, <1>8 DEF NormalEvent

\* The instances of the scenarios are sequences of messages stamped alike.
IsInstance(s, now) == IsTopic(s) /\ \A i \in 1..Len(s) : Stamped(s[i], now)

LEMMA FunctionInstance ==
    ASSUME NEW now, NEW n \in Nat, NEW s, DOMAIN s = 1..n, s = [i \in 1..n |-> s[i]],
           \A i \in 1..n : Stamped(s[i], now)
    PROVE  IsInstance(s, now)
<1>1. s \in [1..n -> {s[i] : i \in 1..n}]
  OBVIOUS
<1> DEFINE S == {s[i] : i \in 1..n}
<1>2. s \in Seq(S) /\ Len(s) = n
  <2> HIDE DEF S
  <2>1. s \in [1..n -> S] => s \in Seq(S) /\ Len(s) = n
    OBVIOUS
  <2> QED
    BY <1>1, <2>1 DEF S
<1> QED
  BY <1>2 DEF IsInstance, IsTopic

LEMMA AppendInstance ==
    ASSUME NEW now, NEW s, IsInstance(s, now), NEW x, Stamped(x, now)
    PROVE  IsInstance(Append(s, x), now)
<1>1. PICK S : s \in Seq(S)
  BY DEF IsInstance, IsTopic
<1>2. s \in Seq(S \cup {x}) /\ x \in S \cup {x}
  BY <1>1
<1>3. /\ Append(s, x) \in Seq(S \cup {x}) /\ Len(Append(s, x)) = Len(s) + 1 /\ Len(s) \in Nat
      /\ \A i \in 1..Len(s) : Append(s, x)[i] = s[i]
      /\ Append(s, x)[Len(s) + 1] = x
  BY <1>2
<1> QED
  BY <1>3 DEF IsInstance, IsTopic

LEMMA InstancesStamped ==
    ASSUME NEW now, NEW name \in Names, NEW s \in Instances(name, now)
    PROVE  IsInstance(s, now)
<1> DEFINE n == Sizes[name]
<1>1. name \in Catalogue /\ n \in Nat
  BY SizesAssumption DEF Names
<1> HIDE DEF n
<1>2. CASE name = "ssh_brute_force"
  <2> DEFINE user(i) == IF (i - 1) % 3 = 0 THEN "root" ELSE Users[1 + (i % 2)]
             spree == [i \in 1..n |-> Login(now, "linux_server", FALSE, user(i), AttackIp)]
             breach == Login(now, "linux_server", TRUE, Users[1], AttackIp)
  <2>1. s \in {spree, Append(spree, breach)}
    BY <1>2 DEF Instances, SshBruteForce, n
  <2> HIDE DEF user
  <2>2. DOMAIN spree = 1..n /\ \A i \in 1..n : Stamped(spree[i], now)
    BY LoginStamped
  <2>3. Stamped(breach, now)
    BY LoginStamped
  <2>4. spree = [i \in 1..n |-> spree[i]]
    OBVIOUS
  <2> HIDE DEF spree, breach
  <2> QED
    BY <1>1, <2>1, <2>2, <2>3, <2>4, FunctionInstance, AppendInstance
<1>3. CASE name = "credential_attack"
  <2> DEFINE spray == [i \in 1..n |-> Login(now, "identity", FALSE, Users[i], AttackIp)]
             lucky == Login(now, "identity", TRUE, Users[1], AttackIp)
  <2>1. s \in {spray, Append(spray, lucky)}
    BY <1>3 DEF Instances, CredentialAttack, n
  <2>2. DOMAIN spray = 1..n /\ \A i \in 1..n : Stamped(spray[i], now)
    BY LoginStamped
  <2>3. Stamped(lucky, now)
    BY LoginStamped
  <2>4. spray = [i \in 1..n |-> spray[i]]
    OBVIOUS
  <2> HIDE DEF spray, lucky
  <2> QED
    BY <1>1, <2>1, <2>2, <2>3, <2>4, FunctionInstance, AppendInstance
<1>4. CASE name = "port_scan"
  <2> DEFINE probe(i) == IF i % 7 = 1
                         THEN MakeEvent(now, "firewall", "connection_attempt", "failure")
                         ELSE MakeEvent(now, "firewall", "firewall_deny", "denied")
             scan == [i \in 1..n |-> [probe(i) EXCEPT !.source_ip = AttackIp,
                                                      !.destination_port = <<ScanPorts[i]>>]]
  <2>1. s = scan
    BY <1>4 DEF Instances, PortScan, n
  <2>2. \A i \in 1..n : Stamped(probe(i), now)
    BY MakeStamped
  <2> HIDE DEF probe
  <2>3. DOMAIN scan = 1..n /\ \A i \in 1..n : Stamped(scan[i], now)
    BY <2>2 DEF Stamped
  <2>4. scan = [i \in 1..n |-> scan[i]]
    OBVIOUS
  <2> HIDE DEF scan
  <2> QED
    BY <1>1, <2>1, <2>3, <2>4, FunctionInstance
<1>5. CASE name = "privilege_escalation"
  <2> DEFINE step(i) == IF i = 1 THEN Login(now, "linux_server", TRUE, Users[1], AttackIp)
                        ELSE [MakeEvent(now, "linux_server", "privilege_escalation", "failure")
                                 EXCEPT !.source_ip = AttackIp, !.username = Users[1],
                                        !.action = {"text", "command"},
                                        !.message = {"text", "command"}]
             steps == [i \in 1..n |-> step(i)]
  <2>1. s = steps
    BY <1>5 DEF Instances, PrivilegeEscalation, n
  <2>2. \A i \in 1..n : Stamped(step(i), now)
    BY LoginStamped, MakeStamped DEF Stamped
  <2> HIDE DEF step
  <2>3. DOMAIN steps = 1..n /\ (\A i \in 1..n : Stamped(steps[i], now)) /\ steps = [i \in 1..n |-> steps[i]]
    BY <2>2
  <2> HIDE DEF steps
  <2> QED
    BY <1>1, <2>1, <2>3, FunctionInstance
<1>6. CASE name = "data_exfiltration"
  <2>1. PICK bytes \in Chunk :
          s = [i \in 1..n |-> [MakeEvent(now, "application", "network_flow", "allowed")
                  EXCEPT !.source_ip = AttackIp, !.destination_ip = "outside",
                         !.destination_port = <<443>>, !.bytes_out = <<bytes>>]]
    BY <1>6 DEF Instances, DataExfiltration, n
  <2> DEFINE m == MakeEvent(now, "application", "network_flow", "allowed")
             x == [m EXCEPT !.source_ip = AttackIp, !.destination_ip = "outside",
                         !.destination_port = <<443>>, !.bytes_out = <<bytes>>]
  <2>2. Stamped(m, now) /\ s = [i \in 1..n |-> x]
    BY <2>1, MakeStamped
  <2> HIDE DEF m
  <2>3. Stamped(x, now)
    BY <2>2 DEF Stamped
  <2> HIDE DEF x
  <2>4. DOMAIN s = 1..n /\ (\A i \in 1..n : Stamped(s[i], now)) /\ s = [i \in 1..n |-> s[i]]
    BY <2>2, <2>3
  <2> QED
    BY <1>1, <2>4, FunctionInstance
<1>7. CASE name = "sql_attack"
  <2>1. PICK type \in {"db_error", "db_query"}, q \in MaliciousQueries, count \in RowCounts :
          s = [i \in 1..n |-> Injected(now, type, q, count)]
    BY <1>7 DEF Instances, SqlAttack, n
  <2>2. DOMAIN s = 1..n /\ (\A i \in 1..n : Stamped(s[i], now)) /\ s = [i \in 1..n |-> s[i]]
    BY <2>1, InjectedStamped
  <2> QED
    BY <1>1, <2>2, FunctionInstance
<1>8. CASE name = "web_attack"
  <2>1. s = [i \in 1..n |-> [MakeEvent(now, "web_server", "http_request", "error")
                  EXCEPT !.source_ip = AttackIp, !.destination_port = <<443>>,
                         !.action = {"text", "command"}, !.bytes_out = <<1>>]]
    BY <1>8 DEF Instances, WebAttack, n
  <2> DEFINE m == MakeEvent(now, "web_server", "http_request", "error")
             x == [m EXCEPT !.source_ip = AttackIp, !.destination_port = <<443>>,
                         !.action = {"text", "command"}, !.bytes_out = <<1>>]
  <2>2. Stamped(m, now) /\ s = [i \in 1..n |-> x]
    BY <2>1, MakeStamped
  <2> HIDE DEF m
  <2>3. Stamped(x, now)
    BY <2>2 DEF Stamped
  <2> HIDE DEF x
  <2>4. DOMAIN s = 1..n /\ (\A i \in 1..n : Stamped(s[i], now)) /\ s = [i \in 1..n |-> s[i]]
    BY <2>2, <2>3
  <2> QED
    BY <1>1, <2>4, FunctionInstance
<1> QED
  BY <1>1, <1>2, <1>3, <1>4, <1>5, <1>6, <1>7, <1>8 DEF Catalogue

-----------------------------------------------------------------------------
(* No message that has an id is counted twice.                             *)

\* An id is missing, or it decides under which id the event is known.
IdFormed(raw) == raw.event_id = NoId \/ raw.event_id.form \in {"text", "uuid"}
KnownAs(raw) ==
    IF raw.event_id.form = "uuid" THEN raw.event_id ELSE [form |-> "uuid5", n |-> raw.event_id.n]

LEMMA KnownAsFacts ==
    ASSUME NEW raw, IdFormed(raw), raw.event_id # NoId, NEW now, NEW fresh
    PROVE  FromRaw(raw, now, fresh).event_id = KnownAs(raw)
<1>1. FromRaw(raw, now, fresh).event_id = EventId(raw, fresh)
  BY DEF FromRaw
<1>2. raw.event_id.form \in {"text", "uuid"}
  BY DEF IdFormed
<1> QED
  BY <1>1, <1>2 DEF EventId, KnownAs

LEMMA ForeignFormed ==
    ASSUME NEW now, NEW raw \in ForeignMessages(now)
    PROVE  IdFormed(raw)
<1> DEFINE login == Login(now, "linux_server", FALSE, Users[1], AttackIp)
           failure == [login EXCEPT !.event_id = [form |-> "text", n |-> 0]]
           change == MakeEvent(now, "scheduler", "config_change", "success")
           command == [change EXCEPT !.username = "root", !.action = {},
                                     !.message = {"text", "command"},
                                     !.extra = [user_role |-> "admin"], !.metadata = <<>>]
<1>1. "event_id" \in DOMAIN login /\ "event_id" \in DOMAIN change /\ change.event_id = NoId
  BY LoginStamped, MakeStamped DEF Stamped
<1>2. raw \in {failure,
         [failure EXCEPT !.event_id = NoId, !.timestamp = NoTimestamp],
         [failure EXCEPT !.timestamp = Garbage],
         [failure EXCEPT !.timestamp = At(now + Day)],
         [failure EXCEPT !.timestamp = At(now + 2 * Day)],
         [failure EXCEPT !.source = Blank, !.source_type = "mainframe"],
         [failure EXCEPT !.username = Overlong, !.status = "refused"],
         [failure EXCEPT !.service = Overlong],
         [failure EXCEPT !.action = {"text", Overlong}],
         [failure EXCEPT !.source_ip = "-", !.event_type = "logon"],
         command,
         [command EXCEPT !.event_type = "db_query", !.username = "app",
                         !.metadata = [query |-> {"text", "union"}, rows_returned |-> <<>>]]}
  BY DEF ForeignMessages
<1> HIDE DEF login, change
<1>3. /\ "event_id" \in DOMAIN failure /\ failure.event_id.form = "text"
      /\ "event_id" \in DOMAIN command /\ command.event_id = NoId
  BY <1>1
<1> HIDE DEF failure, command
<1> QED
  BY <1>2, <1>3 DEF IdFormed

\* The inductive invariant: messages are numbered, and one that was evaluated is
\* known under its id for as long as it can be read again.
Numbered ==
    /\ IsTopic(topic) /\ sends \in Nat
    /\ \A i \in 1..Len(topic) : /\ topic[i].n \in 0..(sends - 1) /\ IdFormed(topic[i].raw)
                                /\ \A j \in 1..Len(topic) : topic[i].n = topic[j].n => i = j
    /\ \A t \in taken : t.of \in 0..(sends - 1)
    /\ \A t \in taken : \A i \in 1..Len(topic) : t.of = topic[i].n =>
         /\ t.named <=> topic[i].raw.event_id # NoId
         /\ t.named => t.id = KnownAs(topic[i].raw)

IsQueue(q) == IsTopic(q) /\ \A i \in 1..Len(q) : "event_id" \in DOMAIN q[i]

IdInv == Typed /\ Numbered /\ IsQueue(queue) /\ OnlyIdlessCountTwice

LEMMA HeadTail ==
    ASSUME NEW q, IsTopic(q), q # <<>>
    PROVE  /\ IsTopic(Tail(q)) /\ 1 \in 1..Len(q) /\ Head(q) = q[1]
           /\ \A i \in 1..Len(Tail(q)) : i + 1 \in 1..Len(q) /\ Tail(q)[i] = q[i + 1]
<1>1. PICK S : q \in Seq(S)
  BY DEF IsTopic
<1>2. /\ Tail(q) \in Seq(S) /\ Len(q) \in Nat /\ Len(q) > 0 /\ Len(Tail(q)) = Len(q) - 1
      /\ Head(q) = q[1]
  BY <1>1
<1>3. \A i \in 1..Len(Tail(q)) : Tail(q)[i] = q[i + 1]
  BY <1>1, <1>2
<1> QED
  BY <1>2, <1>3 DEF IsTopic

LEMMA SendNumbered ==
    ASSUME Numbered, NEW raw, NEW from, IdFormed(raw), Send(raw, from), taken' = taken
    PROVE  Numbered'
<1>1. /\ IsTopic(topic') /\ Len(topic') = Len(topic) + 1 /\ Len(topic) \in Nat
      /\ \A j \in 1..Len(topic) : topic'[j] = topic[j]
      /\ topic'[Len(topic) + 1] = [raw |-> raw, sent |-> clock, n |-> sends, from |-> from]
  BY SendTopic DEF Numbered
<1>2. sends' = sends + 1 /\ sends \in Nat /\ sends' \in Nat
  BY DEF Send, Numbered
<1>3. 1..Len(topic') = 1..Len(topic) \cup {Len(topic) + 1} /\ Len(topic) + 1 \notin 1..Len(topic)
  BY <1>1
<1>4. /\ topic'[Len(topic) + 1].n = sends /\ topic'[Len(topic) + 1].raw = raw
      /\ \A j \in 1..Len(topic) : topic[j].n \in 0..(sends - 1) /\ topic'[j].n = topic[j].n
                                  /\ topic'[j].raw = topic[j].raw
  BY <1>1 DEF Numbered
<1>5. \A i \in 1..Len(topic') : topic'[i].n \in 0..(sends' - 1) /\ IdFormed(topic'[i].raw)
  <2>1. \A i \in 1..Len(topic) : IdFormed(topic[i].raw)
    BY DEF Numbered
  <2>2. 0..(sends' - 1) = 0..(sends - 1) \cup {sends}
    BY <1>2
  <2> QED
    BY <1>3, <1>4, <2>1, <2>2
<1>6. \A i, j \in 1..Len(topic') : topic'[i].n = topic'[j].n => i = j
  <2>1. sends \notin 0..(sends - 1)
    BY <1>2
  <2>2. \A i, j \in 1..Len(topic) : topic[i].n = topic[j].n => i = j
    BY DEF Numbered
  <2> QED
    BY <1>3, <1>4, <2>1, <2>2
<1>7. \A t \in taken' : t.of \in 0..(sends' - 1) /\ t.of # sends
  BY <1>2 DEF Numbered
<1>8. ASSUME NEW t \in taken', NEW i \in 1..Len(topic'), t.of = topic'[i].n
      PROVE  /\ t.named <=> topic'[i].raw.event_id # NoId
             /\ t.named => t.id = KnownAs(topic'[i].raw)
  <2>1. i \in 1..Len(topic) /\ t.of = topic[i].n /\ topic'[i].raw = topic[i].raw
    BY <1>3, <1>4, <1>7, <1>8
  <2> QED
    BY <2>1 DEF Numbered
<1> QED
  BY <1>1, <1>2, <1>5, <1>6, <1>7, <1>8 DEF Numbered

\* Taking a message away, or leaving it to be read again.
LEMMA FinishNumbered ==
    ASSUME Numbered, NEW i \in 1..Len(topic), NEW again \in BOOLEAN, NEW faults,
           Finish(i, again, faults), sends' = sends
    PROVE  /\ IsTopic(topic')
           /\ \A j \in 1..Len(topic') :
                /\ topic'[j].n \in 0..(sends' - 1) /\ IdFormed(topic'[j].raw)
                /\ \A k \in 1..Len(topic') : topic'[j].n = topic'[k].n => j = k
           /\ \A j \in 1..Len(topic') : \E k \in 1..Len(topic) : topic'[j] = topic[k]
<1>1. /\ IsTopic(topic')
      /\ \A j \in 1..Len(topic') : \E k \in 1..Len(topic) :
            /\ topic'[j] = topic[k]
            /\ \/ again /\ j = k
               \/ ~again /\ k # i /\ k = IF j < i THEN j ELSE j + 1
  BY FinishTopic DEF Numbered
<1>2. ASSUME NEW j \in 1..Len(topic')
      PROVE  topic'[j].n \in 0..(sends' - 1) /\ IdFormed(topic'[j].raw)
  BY <1>1 DEF Numbered
<1>3. ASSUME NEW j \in 1..Len(topic'), NEW k \in 1..Len(topic'), topic'[j].n = topic'[k].n
      PROVE  j = k
  <2>1. PICK a \in 1..Len(topic) : /\ topic'[j] = topic[a]
                                   /\ \/ again /\ j = a
                                      \/ ~again /\ a # i /\ a = IF j < i THEN j ELSE j + 1
    BY <1>1
  <2>2. PICK b \in 1..Len(topic) : /\ topic'[k] = topic[b]
                                   /\ \/ again /\ k = b
                                      \/ ~again /\ b # i /\ b = IF k < i THEN k ELSE k + 1
    BY <1>1
  <2>3. a = b
    BY <1>3, <2>1, <2>2 DEF Numbered
  <2> HIDE DEF Numbered
  <2>4. i \in Int /\ j \in Int /\ k \in Int /\ a \in Int
    OBVIOUS
  <2>5. \/ j = a /\ k = a
        \/ a = (IF j < i THEN j ELSE j + 1) /\ a = (IF k < i THEN k ELSE k + 1) /\ a # i
    BY <2>1, <2>2, <2>3
  <2> QED
    BY <2>4, <2>5
<1> QED
  BY <1>1, <1>2, <1>3

LEMMA FinishSame ==
    ASSUME Numbered, NEW i \in 1..Len(topic), NEW again \in BOOLEAN, NEW faults,
           Finish(i, again, faults), UNCHANGED <<sends, taken>>
    PROVE  Numbered'
<1>1. \A t \in taken' : \A j \in 1..Len(topic') : t.of = topic'[j].n =>
         /\ t.named <=> topic'[j].raw.event_id # NoId
         /\ t.named => t.id = KnownAs(topic'[j].raw)
  <2> SUFFICES ASSUME NEW t \in taken', NEW j \in 1..Len(topic'), t.of = topic'[j].n
               PROVE  /\ t.named <=> topic'[j].raw.event_id # NoId
                      /\ t.named => t.id = KnownAs(topic'[j].raw)
    OBVIOUS
  <2>1. PICK k \in 1..Len(topic) : topic'[j] = topic[k]
    BY FinishNumbered
  <2> QED
    BY <2>1 DEF Numbered
<1>2. /\ IsTopic(topic') /\ sends' \in Nat
      /\ \A j \in 1..Len(topic') :
           /\ topic'[j].n \in 0..(sends' - 1) /\ IdFormed(topic'[j].raw)
           /\ \A k \in 1..Len(topic') : topic'[j].n = topic'[k].n => j = k
  BY FinishNumbered DEF Numbered
<1>3. \A t \in taken' : t.of \in 0..(sends' - 1)
  BY DEF Numbered
<1> QED
  BY <1>1, <1>2, <1>3 DEF Numbered

LEMMA IdStep == IdInv /\ [Next]_vars => IdInv'
<1> SUFFICES ASSUME IdInv, [Next]_vars PROVE Numbered' /\ IsQueue(queue') /\ OnlyIdlessCountTwice'
  BY StepTyped DEF IdInv
<1> USE DEF IdInv
<1>1. IsQueue(queue')
  <2>1. ASSUME NEW name \in Names, Launch(name)
        PROVE  IsQueue(queue')
    BY <2>1, InstancesStamped DEF Launch, IsInstance, IsQueue, Stamped
  <2>2. CASE EmitAttack \/ EmitFails
    <3>1. queue # <<>> /\ queue' = Tail(queue)
      BY <2>2 DEF EmitAttack, EmitFails
    <3> DEFINE rest == Tail(queue)
    <3>2. IsTopic(rest) /\ \A i \in 1..Len(rest) : i + 1 \in 1..Len(queue) /\ rest[i] = queue[i + 1]
      BY <3>1, HeadTail DEF IsQueue
    <3> HIDE DEF rest
    <3>3. IsQueue(rest)
      BY <3>2 DEF IsQueue
    <3> QED
      BY <3>1, <3>3 DEF rest
  <2>3. ASSUME NEW i \in 1..InFlight, NEW again \in BOOLEAN,
               \/ Reject(i, again) \/ Duplicate(i, again)
               \/ \E broken \in {{}} \cup {{rule} : rule \in Rules} : Process(i, broken, again)
        PROVE  queue' = queue
    BY <2>3 DEF Reject, Duplicate, Process
  <2>4. CASE Tick \/ EmitNormal \/ Foreign \/ UNCHANGED vars
    BY <2>4 DEF Tick, EmitNormal, Foreign, vars
  <2> QED
    BY <2>1, <2>2, <2>3, <2>4 DEF Next
<1>2. ASSUME NEW raw, NEW from, IdFormed(raw), Send(raw, from), taken' = taken
      PROVE  Numbered' /\ OnlyIdlessCountTwice'
  BY <1>2, SendNumbered DEF OnlyIdlessCountTwice
<1>4. CASE EmitAttack
  <2> DEFINE raw == [Head(queue) EXCEPT !.event_id = Uuid]
  <2>1. "event_id" \in DOMAIN Head(queue)
    BY <1>4, HeadTail DEF EmitAttack, IsQueue
  <2>2. raw.event_id = Uuid
    BY <2>1
  <2>3. Send(raw, "attack") /\ taken' = taken
    BY <1>4 DEF EmitAttack
  <2> HIDE DEF raw
  <2> QED
    BY <1>1, <1>2, <2>2, <2>3 DEF IdFormed, Uuid
<1>5. CASE EmitNormal
  <2>1. PICK x \in NormalEvent(clock) : Send([x EXCEPT !.event_id = Uuid], "normal") /\ taken' = taken
    BY <1>5 DEF EmitNormal
  <2> DEFINE raw == [x EXCEPT !.event_id = Uuid]
  <2>2. raw.event_id = Uuid
    BY NormalStamped, StampedWithId
  <2>3. Send(raw, "normal")
    BY <2>1
  <2> HIDE DEF raw
  <2> QED
    BY <1>1, <1>2, <2>1, <2>2, <2>3 DEF IdFormed, Uuid
<1>6. CASE Foreign
  BY <1>1, <1>2, <1>6, ForeignFormed DEF Foreign
<1>7. ASSUME UNCHANGED <<topic, sends, taken>>
      PROVE  Numbered' /\ OnlyIdlessCountTwice'
  BY <1>7 DEF Numbered, IsTopic, OnlyIdlessCountTwice
<1>8. CASE Tick \/ EmitFails \/ UNCHANGED vars \/ \E name \in Names : Launch(name)
  BY <1>1, <1>7, <1>8 DEF Tick, EmitFails, vars, Launch
<1>9. ASSUME NEW i \in 1..InFlight, Deliverable(i)
      PROVE  i \in 1..Len(topic)
  <2>1. PICK S : topic \in Seq(S)
    BY DEF Numbered, IsTopic
  <2> QED
    BY <1>9, <2>1, DetectionAssumption DEF Deliverable
<1>10. ASSUME NEW i \in 1..InFlight, NEW again \in BOOLEAN, Reject(i, again) \/ Duplicate(i, again)
       PROVE  Numbered' /\ OnlyIdlessCountTwice'
  BY <1>9, <1>10, FinishSame DEF Reject, Duplicate, OnlyIdlessCountTwice
<1>11. ASSUME NEW i \in 1..InFlight, NEW again \in BOOLEAN,
              NEW broken \in {{}} \cup {{rule} : rule \in Rules}, Process(i, broken, again)
       PROVE  Numbered' /\ OnlyIdlessCountTwice'
  <2> DEFINE raw == topic[i].raw
  <2>1. i \in 1..Len(topic) /\ sends' = sends /\ Finish(i, again, Cardinality(broken))
    BY <1>9, <1>11 DEF Process
  <2>2. PICK new, e :
          /\ e = Event(i) /\ e.event_id \notin seen
          /\ taken' = taken \cup {new}
          /\ new.of = topic[i].n /\ new.id = e.event_id /\ (new.named <=> raw.event_id # NoId)
    <3>1. PICK e : /\ e = Event(i) /\ e.event_id \notin seen
                   /\ taken' = taken \cup {[of |-> topic[i].n, nth |-> Cardinality(taken),
                                            from |-> topic[i].from, id |-> e.event_id,
                                             named |-> raw.event_id # NoId,
                                             long |-> Overlong \in {e.source, e.username, e.service} \cup e.action]}
      BY <1>11 DEF Process
    <3> DEFINE new == [of |-> topic[i].n, nth |-> Cardinality(taken),
                       from |-> topic[i].from, id |-> e.event_id,
                       named |-> raw.event_id # NoId, long |-> Overlong \in {e.source, e.username, e.service} \cup e.action]
    <3>2. new.of = topic[i].n /\ new.id = e.event_id /\ (new.named <=> raw.event_id # NoId)
      OBVIOUS
    <3> HIDE DEF new
    <3>3. taken' = taken \cup {new}
      BY <3>1 DEF new
    <3> QED
      BY <3>1, <3>2, <3>3
  <2>3. raw.event_id # NoId => new.id = KnownAs(raw)
    BY <2>1, <2>2, KnownAsFacts DEF Event, Numbered
  <2>4. \A t \in taken : t.id # new.id
    BY <2>2 DEF Typed, TypeOK
  <2>5. \A t \in taken : t.of = new.of => ~t.named
    BY <2>1, <2>2, <2>3, <2>4 DEF Numbered
  <2>6. \A t \in taken : t.of = new.of => ~new.named
    BY <2>1, <2>2, <2>5 DEF Numbered
  <2>7. OnlyIdlessCountTwice'
    BY <2>2, <2>5, <2>6 DEF OnlyIdlessCountTwice
  <2>8. ASSUME NEW t \in taken', NEW j \in 1..Len(topic'), t.of = topic'[j].n
        PROVE  /\ t.named <=> topic'[j].raw.event_id # NoId
               /\ t.named => t.id = KnownAs(topic'[j].raw)
    <3>1. PICK k \in 1..Len(topic) : topic'[j] = topic[k]
      BY <2>1, FinishNumbered
    <3>2. CASE t \in taken
      BY <2>8, <3>1, <3>2 DEF Numbered
    <3>3. CASE t = new
      <4>1. k = i
        BY <2>1, <2>2, <2>8, <3>1, <3>3 DEF Numbered
      <4> QED
        BY <2>2, <2>3, <3>1, <3>3, <4>1
    <3> QED
      BY <2>2, <3>2, <3>3
  <2>9. \A t \in taken' : t.of \in 0..(sends' - 1)
    BY <2>1, <2>2 DEF Numbered
  <2>10. Numbered'
    BY <2>1, <2>8, <2>9, FinishNumbered DEF Numbered
  <2> QED
    BY <2>7, <2>10
<1> QED
  BY <1>1, <1>4, <1>5, <1>6, <1>8, <1>10, <1>11 DEF Next

\* A message that is read again is not counted again, unless it has no id.
THEOREM OnlyIdlessCountTwiceHolds == Spec => []OnlyIdlessCountTwice
<1>1. Init => IdInv
  <2>1. IsTopic(<<>>) /\ Len(<<>>) = 0
    BY DEF IsTopic
  <2> QED
    BY <2>1, InitTyped DEF Init, IdInv, Numbered, IsQueue, OnlyIdlessCountTwice
<1>2. IdInv => OnlyIdlessCountTwice
  BY DEF IdInv
<1> QED
  BY <1>1, <1>2, IdStep, PTL DEF Spec

-----------------------------------------------------------------------------
(* The order of the events, when the simulator is the only producer: then  *)
(* messages are sent in the order of their timestamps, no timestamp is of  *)
(* the future, and what an address's window has counted is no later than   *)
(* what is still to be read.                                               *)

Alone == \A budget \in Budgets : budget.foreign = 0

Ts(m) == m.raw.timestamp.at

Sent ==
    /\ IsTopic(topic)
    /\ \A i \in 1..Len(topic) : /\ topic[i].raw.timestamp = At(Ts(topic[i]))
                                /\ Ts(topic[i]) \in Nat /\ Ts(topic[i]) <= clock
                                /\ queue # <<>> => Ts(topic[i]) <= attack.at
    /\ \A i, j \in 1..Len(topic) : i < j => Ts(topic[i]) <= Ts(topic[j])

Queued ==
    /\ IsInstance(queue, attack.at)
    /\ attack.at \in Nat /\ attack.at <= clock

Counted ==
    \A k \in DOMAIN log : \A m \in log[k] :
        /\ m.ts \in Nat /\ m.ts <= clock /\ m.n \in seen
        /\ queue # <<>> => m.ts <= attack.at
        /\ RuleOf(k) \in ByAddress =>
             \A i \in 1..Len(topic) : PartitionKey(topic[i].raw) = Owner(k) => m.ts <= Ts(topic[i])

Ordered == Sent /\ Queued /\ Counted /\ left.foreign = 0

\* An event in order: what evaluate() reads of the message.
LEMMA EventFacts ==
    ASSUME Typed, Sent, NEW i \in 1..Len(topic), NEW e, e = Event(i)
    PROVE  /\ e.timestamp = Ts(topic[i]) /\ e.timestamp \in Nat /\ e.timestamp <= clock
           /\ e.source_ip # None => e.source_ip = PartitionKey(topic[i].raw)
<1>1. /\ e.timestamp = NormalizeTimestamp(topic[i].raw.timestamp, clock)
      /\ e.source_ip = CoerceIp(topic[i].raw.source_ip)
  BY DEF Event, FromRaw
<1>2. /\ topic[i].raw.timestamp = At(Ts(topic[i])) /\ Ts(topic[i]) \in Nat
      /\ Ts(topic[i]) <= clock /\ clock \in Nat
  BY DEF Sent, Typed, TypeOK
<1>3. e.timestamp = Ts(topic[i])
  <2> DEFINE t == Ts(topic[i])
  <2> HIDE DEF t
  <2>1. t \in Nat /\ clock \in Nat /\ t <= clock /\ e.timestamp = NormalizeTimestamp(At(t), clock)
    BY <1>1, <1>2 DEF t
  <2>2. ~(t - clock > Day)
    BY <2>1, DayAssumption
  <2>3. e.timestamp = t
    BY <2>1, <2>2 DEF NormalizeTimestamp, At
  <2> QED
    BY <2>3 DEF t
<1> QED
  BY <1>1, <1>2, <1>3 DEF CoerceIp, PartitionKey

\* Sending the next message, stamped no earlier than the others.
LEMMA SendOrdered ==
    ASSUME Typed, Sent, Counted, NEW raw, NEW from, NEW t \in Nat, Stamped(raw, t), t <= clock,
           Send(raw, from), UNCHANGED <<clock, log, seen, attack>>,
           \A i \in 1..Len(topic) : Ts(topic[i]) <= t,
           \A k \in DOMAIN log : \A m \in log[k] : m.ts <= t,
           queue' # <<>> => t <= attack.at /\ queue # <<>>
    PROVE  Sent' /\ Counted'
<1>1. /\ IsTopic(topic') /\ Len(topic') = Len(topic) + 1 /\ Len(topic) \in Nat
      /\ \A j \in 1..Len(topic) : topic'[j] = topic[j]
      /\ topic'[Len(topic) + 1] = [raw |-> raw, sent |-> clock, n |-> sends, from |-> from]
  BY SendTopic DEF Sent
<1>2. topic'[Len(topic) + 1].raw.timestamp = At(t) /\ Ts(topic'[Len(topic) + 1]) = t
  BY <1>1 DEF Stamped, Ts, At
<1>3. 1..Len(topic') = 1..Len(topic) \cup {Len(topic) + 1}
  BY <1>1
<1>4. \A j \in 1..Len(topic) : Ts(topic'[j]) = Ts(topic[j])
  BY <1>1
<1>5. \A i \in 1..Len(topic') : /\ topic'[i].raw.timestamp = At(Ts(topic'[i]))
                                /\ Ts(topic'[i]) \in Nat /\ Ts(topic'[i]) <= clock'
                                /\ queue' # <<>> => Ts(topic'[i]) <= attack'.at
  BY <1>1, <1>2, <1>3, <1>4 DEF Sent
<1>6. \A i, j \in 1..Len(topic') : i < j => Ts(topic'[i]) <= Ts(topic'[j])
  <2> SUFFICES ASSUME NEW i \in 1..Len(topic'), NEW j \in 1..Len(topic'), i < j
               PROVE  Ts(topic'[i]) <= Ts(topic'[j])
    OBVIOUS
  <2>1. i \in 1..Len(topic)
    BY <1>1
  <2>2. CASE j \in 1..Len(topic)
    BY <1>4, <2>1, <2>2 DEF Sent
  <2>3. CASE j = Len(topic) + 1
    BY <1>2, <1>4, <2>1, <2>3
  <2> QED
    BY <1>3, <2>2, <2>3
<1>7. Sent'
  <2>1. \A i \in 1..Len(topic') : Ts(topic[i])' = Ts(topic'[i])
    BY DEF Ts
  <2> QED
    BY <1>1, <1>5, <1>6 DEF Sent, Ts
<1>8. Counted'
  <2> SUFFICES ASSUME NEW k \in DOMAIN log, NEW m \in log[k]
               PROVE  /\ m.ts \in Nat /\ m.ts <= clock /\ m.n \in seen
                      /\ queue' # <<>> => m.ts <= attack.at
                      /\ RuleOf(k) \in ByAddress =>
                           \A i \in 1..Len(topic') :
                              PartitionKey(topic'[i].raw) = Owner(k) => m.ts <= Ts(topic'[i])
    BY DEF Counted, Ts
  <2>1. m.ts \in Nat /\ m.ts <= clock /\ m.n \in seen /\ (queue' # <<>> => m.ts <= attack.at)
    BY DEF Counted
  <2>2. ASSUME RuleOf(k) \in ByAddress, NEW i \in 1..Len(topic'), PartitionKey(topic'[i].raw) = Owner(k)
        PROVE  m.ts <= Ts(topic'[i])
    BY <1>1, <1>2, <1>3, <1>4, <2>2 DEF Counted
  <2> QED
    BY <2>1, <2>2
<1> QED
  BY <1>7, <1>8

LEMMA FinishOrdered ==
    ASSUME Sent, NEW i \in 1..Len(topic), NEW again \in BOOLEAN, NEW faults, Finish(i, again, faults),
           UNCHANGED <<clock, queue>>, attack'.at = attack.at
    PROVE  Sent' /\ \A j \in 1..Len(topic') : \E k \in 1..Len(topic) : topic'[j] = topic[k]
<1>1. /\ IsTopic(topic')
      /\ \A j \in 1..Len(topic') : \E k \in 1..Len(topic) :
            /\ topic'[j] = topic[k]
            /\ \/ again /\ j = k
               \/ ~again /\ k # i /\ k = IF j < i THEN j ELSE j + 1
  BY FinishTopic DEF Sent
<1>2. \A j \in 1..Len(topic') : /\ topic'[j].raw.timestamp = At(Ts(topic'[j]))
                                /\ Ts(topic'[j]) \in Nat /\ Ts(topic'[j]) <= clock'
                                /\ queue' # <<>> => Ts(topic'[j]) <= attack'.at
  BY <1>1 DEF Sent
<1>3. ASSUME NEW j \in 1..Len(topic'), NEW k \in 1..Len(topic'), j < k
      PROVE  Ts(topic'[j]) <= Ts(topic'[k])
  <2>1. PICK a \in 1..Len(topic) : /\ topic'[j] = topic[a]
                                   /\ \/ again /\ j = a
                                      \/ ~again /\ a # i /\ a = IF j < i THEN j ELSE j + 1
    BY <1>1
  <2>2. PICK b \in 1..Len(topic) : /\ topic'[k] = topic[b]
                                   /\ \/ again /\ k = b
                                      \/ ~again /\ b # i /\ b = IF k < i THEN k ELSE k + 1
    BY <1>1
  <2>3. a < b
    BY <1>3, <2>1, <2>2
  <2> QED
    BY <2>1, <2>2, <2>3 DEF Sent
<1> QED
  BY <1>1, <1>2, <1>3 DEF Sent, Ts

\* What process_batch does with the next event of its partition: the facts the
\* proofs below need of a step.
Handles(i, e, broken, again) ==
    /\ i \in 1..Len(topic) /\ e = Event(i) /\ e.event_id \notin seen /\ clock' = clock
    /\ seen' = seen \cup {e.event_id} /\ queue' = queue
    /\ Evaluate(e, broken, topic[i].from = "attack")
    /\ Finish(i, again, Cardinality(broken))
    /\ \A j \in 1..(i - 1) : PartitionKey(topic[j].raw) # PartitionKey(topic[i].raw)

LEMMA ProcessHandles ==
    ASSUME IsTopic(topic), NEW i \in 1..InFlight, NEW again \in BOOLEAN, NEW broken, Process(i, broken, again)
    PROVE  \E e : Handles(i, e, broken, again)
<1>1. PICK S : topic \in Seq(S)
  BY DEF IsTopic
<1>2. i \in 1..Len(topic)
  BY <1>1, DetectionAssumption DEF Process, Deliverable
<1> QED
  BY <1>2 DEF Process, Handles, Deliverable

\* The history grows by the events that are evaluated.
LEMMA EvaluateLog ==
    ASSUME NEW e, NEW broken, NEW mine, Evaluate(e, broken, mine), NEW k \in DOMAIN log', NEW m \in log'[k]
    PROVE  \/ k \in DOMAIN log /\ m \in log[k]
           \/ \E w \in Asked(e, broken) : w.mode = "add" /\ w.key = k /\ m = Member(w, e)
<1>1. PICK found : Outcome(found, e, broken) /\ log' = found.log
  BY EvaluationFacts DEF Evaluate
<1>2. CASE \E w \in Asked(e, broken) : w.key = k
  <2>1. PICK w \in Asked(e, broken) : w.key = k
    BY <1>2
  <2>2. LogAt(log', k) = IF w.mode = "add" THEN LogAt(log, k) \cup {Member(w, e)} ELSE LogAt(log, k)
    BY <1>1, <2>1 DEF Outcome, AsksFor
  <2> QED
    BY <2>1, <2>2 DEF LogAt
<1>3. CASE ~\E w \in Asked(e, broken) : w.key = k
  <2>1. LogAt(log', k) = LogAt(log, k)
    BY <1>1, <1>3 DEF Outcome, LeavesAlone
  <2> QED
    BY <2>1 DEF LogAt
<1> QED
  BY <1>2, <1>3

\* Among them is one of the address only when it is the next of its partition.
LEMMA HandleCounted ==
    ASSUME Typed, Ordered, NEW i, NEW e, NEW broken, NEW again \in BOOLEAN, Handles(i, e, broken, again)
    PROVE  Sent' /\ Counted' /\ attack'.at = attack.at
<1> USE DEF Handles
<1>1. attack'.at = attack.at
  BY DEF Evaluate
<1>2. Sent' /\ \A j \in 1..Len(topic') : \E k \in 1..Len(topic) : topic'[j] = topic[k]
  BY <1>1, FinishOrdered DEF Ordered
<1>3. /\ e.timestamp = Ts(topic[i]) /\ e.timestamp \in Nat /\ e.timestamp <= clock
      /\ e.source_ip # None => e.source_ip = PartitionKey(topic[i].raw)
  BY EventFacts DEF Ordered
<1>4. Counted'
  <2> SUFFICES ASSUME NEW k \in DOMAIN log', NEW m \in log'[k]
               PROVE  /\ m.ts \in Nat /\ m.ts <= clock' /\ m.n \in seen'
                      /\ queue' # <<>> => m.ts <= attack'.at
                      /\ RuleOf(k) \in ByAddress =>
                           \A j \in 1..Len(topic') :
                              PartitionKey(topic'[j].raw) = Owner(k) => m.ts <= Ts(topic'[j])
    BY DEF Counted, Ts
  <2>1. CASE k \in DOMAIN log /\ m \in log[k]
    BY <1>1, <1>2, <2>1 DEF Ordered, Counted
  <2>2. ASSUME NEW w \in Asked(e, broken), w.mode = "add", w.key = k, m = Member(w, e)
        PROVE  /\ m.ts \in Nat /\ m.ts <= clock' /\ m.n \in seen'
               /\ queue' # <<>> => m.ts <= attack'.at
               /\ RuleOf(k) \in ByAddress =>
                    \A j \in 1..Len(topic') :
                       PartitionKey(topic'[j].raw) = Owner(k) => m.ts <= Ts(topic'[j])
    <3>1. m.ts = e.timestamp /\ m.n = e.event_id
      BY <2>2 DEF Member
    <3>2. queue' # <<>> => m.ts <= attack'.at
      BY <1>1, <1>3, <3>1 DEF Ordered, Sent
    <3>3. ASSUME RuleOf(k) \in ByAddress, NEW j \in 1..Len(topic'),
                 PartitionKey(topic'[j].raw) = Owner(k)
          PROVE  m.ts <= Ts(topic'[j])
      <4>1. w.rule \in ByAddress /\ Owner(k) = e.source_ip
        BY <2>2, <3>3, AskedFacts
      <4>2. e.source_ip # None
        <5>1. Applies(w.rule, e) /\ w.rule \in {"RULE-001", "RULE-002", "RULE-003", "RULE-006"}
          BY <4>1, AskedFacts DEF ByAddress
        <5> QED
          BY <5>1 DEF Applies, BruteForceApplies, SprayApplies, ScanApplies, ExfilApplies
      <4>3. PICK a \in 1..Len(topic) : topic'[j] = topic[a]
        BY <1>2
      <4>4. PartitionKey(topic[a].raw) = PartitionKey(topic[i].raw)
        BY <1>3, <3>3, <4>1, <4>2, <4>3
      <4>5. a >= i
        BY <4>4
      <4> QED
        BY <1>3, <3>1, <4>3, <4>5 DEF Ordered, Sent
    <3> QED
      BY <1>3, <3>1, <3>2, <3>3
  <2> QED
    BY <2>1, <2>2, EvaluateLog
<1> QED
  BY <1>1, <1>2, <1>4

LEMMA OrderedStep == Typed /\ Ordered /\ [Next]_vars => Ordered'
<1> SUFFICES ASSUME Typed, Ordered, [Next]_vars PROVE Ordered'
  OBVIOUS
<1> USE DEF Ordered
<1>0. clock \in Nat /\ left \in [Kinds -> Nat] /\ left.foreign = 0
  BY DEF Typed, TypeOK
<1>1. ASSUME UNCHANGED <<topic, log, seen, queue, attack, left>>, clock' \in Nat, clock <= clock'
      PROVE  Ordered'
  <2>1. IsTopic(topic') /\ IsInstance(queue', attack'.at)
    BY <1>1 DEF Sent, Queued
  <2>2. Queued'
    BY <1>0, <1>1, <2>1 DEF Queued
  <2>3. Sent'
    <3>1. \A i \in 1..Len(topic) : Ts(topic[i]) <= clock'
      BY <1>0, <1>1 DEF Sent
    <3> QED
      BY <1>1, <2>1, <3>1 DEF Sent, Ts
  <2>4. Counted'
    <3>1. \A k \in DOMAIN log : \A m \in log[k] : m.ts <= clock'
      BY <1>0, <1>1 DEF Counted
    <3> QED
      BY <1>1, <3>1 DEF Counted, Ts
  <2> QED
    BY <1>1, <2>2, <2>3, <2>4
<1>2. CASE Tick
  <2>1. clock' = clock + 1 /\ UNCHANGED <<topic, log, seen, queue, attack>> /\ left'.foreign = 0
    BY <1>0, <1>2 DEF Tick, Spend, Kinds
  <2>2. Ordered'
    <3>1. IsTopic(topic') /\ IsInstance(queue', attack'.at)
      BY <2>1 DEF Sent, Queued
    <3>2. Queued'
      BY <1>0, <2>1, <3>1 DEF Queued
    <3>3. \A i \in 1..Len(topic) : Ts(topic[i]) <= clock'
      BY <1>0, <2>1 DEF Sent
    <3>4. Sent'
      BY <2>1, <3>1, <3>3 DEF Sent, Ts
    <3>5. \A k \in DOMAIN log : \A m \in log[k] : m.ts <= clock'
      BY <1>0, <2>1 DEF Counted
    <3>6. Counted'
      BY <2>1, <3>5 DEF Counted, Ts
    <3> QED
      BY <2>1, <3>2, <3>4, <3>6
  <2> QED
    BY <2>2
<1>3. ASSUME NEW name \in Names, Launch(name)
      PROVE  Ordered'
  <2>1. PICK s \in Instances(name, clock) : queue' = s
    BY <1>3 DEF Launch
  <2>2. UNCHANGED <<clock, topic, log, seen>> /\ attack'.at = clock /\ left'.foreign = 0
    BY <1>0, <1>3 DEF Launch, Spend, Kinds, NoAttack
  <2>3. Queued'
    BY <1>0, <2>1, <2>2, InstancesStamped DEF Queued
  <2>4. Sent'
    BY <2>2 DEF Sent, Ts
  <2>5. Counted'
    BY <2>2 DEF Counted, Ts
  <2> QED
    BY <2>2, <2>3, <2>4, <2>5
<1>4. CASE EmitFails
  <2>1. /\ queue # <<>> /\ queue' = Tail(queue) /\ UNCHANGED <<clock, topic, log, seen, attack>>
        /\ left'.foreign = 0
    BY <1>0, <1>4 DEF EmitFails, Spend, Kinds
  <2> DEFINE rest == Tail(queue)
  <2>2. IsTopic(rest) /\ \A i \in 1..Len(rest) : i + 1 \in 1..Len(queue) /\ rest[i] = queue[i + 1]
    BY <2>1, HeadTail DEF Queued, IsInstance
  <2>3. queue' = rest
    BY <2>1
  <2> HIDE DEF rest
  <2>4. IsInstance(rest, attack.at)
    BY <2>2 DEF Queued, IsInstance
  <2>5. Queued' /\ Sent' /\ Counted'
    BY <2>1, <2>3, <2>4 DEF Queued, Sent, Counted, Ts
  <2> QED
    BY <2>1, <2>5
<1>5. CASE EmitAttack
  <2>1. /\ queue # <<>> /\ queue' = Tail(queue) /\ UNCHANGED <<clock, log, seen, attack, left>>
        /\ Send([Head(queue) EXCEPT !.event_id = Uuid], "attack")
    BY <1>5 DEF EmitAttack
  <2> DEFINE rest == Tail(queue)
             raw == [Head(queue) EXCEPT !.event_id = Uuid]
  <2>2. /\ IsTopic(rest) /\ \A i \in 1..Len(rest) : i + 1 \in 1..Len(queue) /\ rest[i] = queue[i + 1]
        /\ 1 \in 1..Len(queue) /\ Head(queue) = queue[1]
    BY <2>1, HeadTail DEF Queued, IsInstance
  <2>3. Stamped(Head(queue), attack.at)
    BY <2>2 DEF Queued, IsInstance
  <2>4. Stamped(raw, attack.at)
    BY <2>3, StampedWithId
  <2>5. Send(raw, "attack") /\ queue' = rest
    BY <2>1
  <2> HIDE DEF rest, raw
  <2>6. IsInstance(rest, attack.at)
    BY <2>2 DEF Queued, IsInstance
  <2>7. Queued'
    BY <2>1, <2>5, <2>6 DEF Queued
  <2>8. attack.at \in Nat /\ attack.at <= clock
    BY DEF Queued
  <2>9. \A i \in 1..Len(topic) : Ts(topic[i]) <= attack.at
    BY <2>1 DEF Sent
  <2>10. \A k \in DOMAIN log : \A m \in log[k] : m.ts <= attack.at
    BY <2>1 DEF Counted
  <2>11. Sent' /\ Counted'
    BY <2>1, <2>4, <2>5, <2>8, <2>9, <2>10, SendOrdered
  <2> QED
    BY <2>1, <2>7, <2>11
<1>6. CASE EmitNormal
  <2>1. PICK x \in NormalEvent(clock) :
          /\ Send([x EXCEPT !.event_id = Uuid], "normal")
          /\ queue = <<>> /\ UNCHANGED <<clock, queue, log, seen, attack>> /\ left'.foreign = 0
    BY <1>0, <1>6 DEF EmitNormal, Spend, Kinds
  <2> DEFINE raw == [x EXCEPT !.event_id = Uuid]
  <2>2. Stamped(raw, clock)
    BY NormalStamped, StampedWithId
  <2>3. Send(raw, "normal")
    BY <2>1
  <2> HIDE DEF raw
  <2>4. Queued'
    BY <2>1 DEF Queued
  <2>5. \A i \in 1..Len(topic) : Ts(topic[i]) <= clock
    BY DEF Sent
  <2>6. \A k \in DOMAIN log : \A m \in log[k] : m.ts <= clock
    BY DEF Counted
  <2>7. Sent' /\ Counted'
    BY <1>0, <2>1, <2>2, <2>3, <2>5, <2>6, SendOrdered
  <2> QED
    BY <2>1, <2>4, <2>7
<1>7. CASE Foreign
  BY <1>0, <1>7 DEF Foreign, Spend
<1>8. ASSUME NEW i \in 1..InFlight, NEW again \in BOOLEAN, NEW faults,
             Possible(again, faults), Finish(i, again, faults)
      PROVE  left'.foreign = 0
  BY <1>0, <1>8 DEF Finish, Kinds
<1>9. ASSUME NEW i \in 1..InFlight, NEW again \in BOOLEAN, Reject(i, again) \/ Duplicate(i, again)
      PROVE  Ordered'
  <2>1. PICK S : topic \in Seq(S)
    BY DEF Sent, IsTopic
  <2>2. /\ i \in 1..Len(topic) /\ Finish(i, again, 0)
        /\ UNCHANGED <<clock, queue, log, seen, attack>> /\ left'.foreign = 0
    BY <1>8, <1>9, <2>1, DetectionAssumption DEF Reject, Duplicate, Deliverable
  <2>3. Sent' /\ \A j \in 1..Len(topic') : \E k \in 1..Len(topic) : topic'[j] = topic[k]
    BY <2>2, FinishOrdered
  <2>4. Queued'
    BY <2>2 DEF Queued
  <2>5. Counted'
    <3>1. ASSUME NEW k \in DOMAIN log, NEW m \in log[k], RuleOf(k) \in ByAddress,
                 NEW j \in 1..Len(topic'), PartitionKey(topic'[j].raw) = Owner(k)
          PROVE  m.ts <= Ts(topic'[j])
      <4>1. PICK n \in 1..Len(topic) : topic'[j] = topic[n]
        BY <2>3
      <4> QED
        BY <3>1, <4>1 DEF Counted
    <3> QED
      BY <2>2, <3>1 DEF Counted, Ts
  <2> QED
    BY <2>2, <2>3, <2>4, <2>5
<1>10. ASSUME NEW i \in 1..InFlight, NEW again \in BOOLEAN,
              NEW broken \in {{}} \cup {{rule} : rule \in Rules}, Process(i, broken, again)
       PROVE  Ordered'
  <2>1. PICK e : Handles(i, e, broken, again)
    BY <1>10, ProcessHandles DEF Sent
  <2>2. Sent' /\ Counted' /\ attack'.at = attack.at
    BY <2>1, HandleCounted
  <2>3. Queued'
    BY <2>1, <2>2 DEF Queued, Handles
  <2>4. left'.foreign = 0
    BY <1>8, <1>10 DEF Process
  <2> QED
    BY <2>2, <2>3, <2>4
<1>11. CASE UNCHANGED vars
  BY <1>0, <1>1, <1>11 DEF vars
<1> QED
  BY <1>2, <1>3, <1>4, <1>5, <1>6, <1>7, <1>9, <1>10, <1>11 DEF Next

-----------------------------------------------------------------------------
(* The windows of an address are exact.  What its history holds and its    *)
(* window does not was cut off by a measure(), or is a whole window older  *)
(* than an event that was counted, or has been added so long ago that the  *)
(* key may have expired: then no event that is still to come can miss it.  *)

Span(k) == Params[RuleOf(k)].window
IsCut(k, m) == [key |-> k, member |-> m] \in cuts

Cut == \A c \in cuts : /\ c = [key |-> c.key, member |-> c.member]
                       /\ c.key \in DOMAIN log /\ c.member \in log[c.key]

HeldUncut == \A k : \A m \in MembersAt(windows, k) : ~IsCut(k, m)

HeldLong ==
    \A k \in DOMAIN windows :
        /\ windows[k].expiry \in Nat
        /\ \A m \in windows[k].members : m.ts + Span(k) + Slack <= windows[k].expiry

Missed(m, k) ==
    \/ IsCut(k, m)
    \/ \E n \in LogAt(log, k) : m.ts <= n.ts - Span(k)
    \/ m.ts + Span(k) + Slack <= clock

KeptOrMissed == \A k \in DOMAIN log : \A m \in log[k] : m \in MembersAt(windows, k) \/ Missed(m, k)

Exact == Cut /\ HeldUncut /\ HeldLong /\ KeptOrMissed

LEMMA SpanNat ==
    ASSUME NEW k
    PROVE  Span(k) \in Nat /\ Span(k) > 0 /\ Slack \in Nat
<1>1. RuleOf(k) \in WindowRules
  BY DetectionAssumption DEF RuleOf
<1> QED
  BY <1>1, DetectionAssumption DEF Span

\* Members of a window are in the history, with all that is known of it.
LEMMA HeldFacts ==
    ASSUME Typed, Ordered, NEW k, NEW m \in MembersAt(windows, k)
    PROVE  k \in DOMAIN windows /\ k \in DOMAIN log /\ m \in log[k] /\ m.ts \in Nat /\ m.ts <= clock
BY DEF MembersAt, Typed, TypeOK, Ordered, Counted

\* Time takes away only what has long been counted.
LEMMA TickExact ==
    ASSUME Typed, Ordered, Exact, Tick
    PROVE  Exact'
<1>1. /\ clock' = clock + 1 /\ clock \in Nat /\ log' = log /\ cuts' = cuts
      /\ windows' = [k \in {w \in DOMAIN windows : windows[w].expiry > clock + 1} |-> windows[k]]
  BY DEF Tick, Typed, TypeOK
<1>2. \A k \in DOMAIN windows' : k \in DOMAIN windows /\ windows'[k] = windows[k]
  BY <1>1
<1>3. \A k : MembersAt(windows', k) \subseteq MembersAt(windows, k)
  BY <1>2 DEF MembersAt
<1>4. Cut' /\ HeldUncut' /\ HeldLong'
  BY <1>1, <1>2, <1>3 DEF Exact, Cut, HeldUncut, HeldLong, IsCut, Span
<1>5. ASSUME NEW k \in DOMAIN log, NEW m \in log[k], m \notin MembersAt(windows', k)
      PROVE  \/ IsCut(k, m) \/ \E n \in LogAt(log, k) : m.ts <= n.ts - Span(k)
             \/ m.ts + Span(k) + Slack <= clock'
  <2>1. m.ts \in Nat /\ Span(k) \in Nat /\ Slack \in Nat
    BY SpanNat DEF Ordered, Counted
  <2>2. CASE m \in MembersAt(windows, k)
    <3>1. k \in DOMAIN windows /\ m \in windows[k].members /\ ~(windows[k].expiry > clock + 1)
      BY <1>1, <1>5, <2>2 DEF MembersAt
    <3>2. m.ts + Span(k) + Slack <= windows[k].expiry /\ windows[k].expiry \in Nat
      BY <3>1 DEF Exact, HeldLong
    <3>3. m.ts + Span(k) + Slack <= clock'
      BY <1>1, <2>1, <3>1, <3>2
    <3> QED
      BY <3>3
  <2>3. CASE m \notin MembersAt(windows, k)
    <3>1. Missed(m, k)
      BY <2>3 DEF Exact, KeptOrMissed
    <3> QED
      BY <1>1, <2>1, <3>1 DEF Missed
  <2> QED
    BY <2>2, <2>3
<1>6. KeptOrMissed'
  BY <1>1, <1>5 DEF KeptOrMissed, Missed, IsCut, Span
<1> QED
  BY <1>4, <1>6 DEF Exact

\* The keys an evaluation asks for ...
Touches(k, w, e, broken) == w \in Asked(e, broken) /\ w.key = k

\* ... and what it makes of them.
LEMMA HandledFacts ==
    ASSUME Typed, Ordered, Exact, NEW i, NEW e, NEW broken, NEW again, Handles(i, e, broken, again),
           NEW k, NEW w, Touches(k, w, e, broken)
    PROVE  /\ Span(k) = Params[w.rule].window
           /\ LogAt(log', k) = IF w.mode = "add" THEN LogAt(log, k) \cup {Member(w, e)} ELSE LogAt(log, k)
           /\ MembersAt(windows', k)
                = IF w.mode = "add"
                  THEN {m \in MembersAt(windows, k) : m.ts > e.timestamp - Span(k)} \cup {Member(w, e)}
                  ELSE {m \in MembersAt(windows, k) : m.ts > clock - Span(k)}
           /\ k \in DOMAIN windows' =>
                windows'[k].expiry = IF w.mode = "add" THEN clock + Span(k) + Slack ELSE windows[k].expiry
           /\ k \in DOMAIN windows' /\ w.mode # "add" => k \in DOMAIN windows
           /\ \A m : [key |-> k, member |-> m] \in cuts' <=>
                \/ IsCut(k, m)
                \/ w.mode # "add" /\ m \in LogAt(log, k) /\ m.ts <= clock - Span(k)
           /\ Member(w, e).ts = e.timestamp /\ Member(w, e) \notin LogAt(log, k)
<1>1. PICK found : /\ Outcome(found, e, broken) /\ windows' = found.windows /\ log' = found.log
                   /\ cuts' = cuts \cup found.cuts
  BY EvaluationFacts DEF Handles, Evaluate
<1>2. w \in Asked(e, broken) /\ w.key = k
  BY DEF Touches
<1>3. Span(k) = Params[w.rule].window
  BY <1>2, AskedFacts DEF Span
<1>4. /\ MembersAt(windows', k) = Looked(w, e).members
      /\ k \in DOMAIN windows' => windows'[k] = Looked(w, e)
      /\ LogAt(log', k) = IF w.mode = "add" THEN LogAt(log, k) \cup {Member(w, e)} ELSE LogAt(log, k)
  BY <1>1, <1>2 DEF Outcome, AsksFor
<1>5. /\ w.mode = "add" => Looked(w, e).expiry = clock + Span(k) + Slack
      /\ w.mode # "add" => Looked(w, e).expiry = Kept(k).expiry
      /\ w.mode = "add" =>
           Looked(w, e).members
             = {m \in MembersAt(windows, k) : m.ts > e.timestamp - Span(k)} \cup {Member(w, e)}
      /\ w.mode # "add" =>
           Looked(w, e).members = {m \in MembersAt(windows, k) : m.ts > clock - Span(k)}
  BY <1>2, <1>3, LookedFacts
<1>6. k \in DOMAIN windows' /\ w.mode # "add" => k \in DOMAIN windows
  <2>1. k \in DOMAIN windows' => windows'[k].members # {}
    BY <1>1 DEF Outcome
  <2> QED
    BY <1>4, <1>5, <2>1 DEF MembersAt
<1>7. k \in DOMAIN windows' =>
        windows'[k].expiry = IF w.mode = "add" THEN clock + Span(k) + Slack ELSE windows[k].expiry
  BY <1>4, <1>5, <1>6 DEF Kept
<1>8. ASSUME NEW m
      PROVE  [key |-> k, member |-> m] \in found.cuts <=>
               w.mode # "add" /\ m \in LogAt(log, k) /\ m.ts <= clock - Span(k)
  <2>1. Outdated(w) = {x \in LogAt(log, k) : x.ts <= clock - Span(k)}
    BY <1>2, <1>3 DEF Outdated, LogAt
  <2>2. \A v \in Asked(e, broken) : v.key = k => v = w
    BY <1>2, AskedFacts
  <2>3. found.cuts = Cuts(e, broken)
    BY <1>1 DEF Outcome
  <2>4. ASSUME [key |-> k, member |-> m] \in found.cuts
        PROVE  w.mode # "add" /\ m \in LogAt(log, k) /\ m.ts <= clock - Span(k)
    <3>1. PICK v \in Asked(e, broken) : \E x \in Outdated(v) :
            v.mode # "add" /\ [key |-> k, member |-> m] = [key |-> v.key, member |-> x]
      <4>1. PICK v \in {u \in Asked(e, broken) : u.mode # "add"} :
              [key |-> k, member |-> m] \in {[key |-> v.key, member |-> x] : x \in Outdated(v)}
        <5>1. [key |-> k, member |-> m] \in Cuts(e, broken)
          BY <2>3, <2>4
        <5> QED
          BY <5>1 DEF Cuts
      <4> QED
        BY <4>1
    <3>2. v.key = k /\ m \in Outdated(v)
      BY <3>1
    <3> QED
      BY <2>1, <2>2, <3>1, <3>2
  <2>5. ASSUME w.mode # "add", m \in LogAt(log, k), m.ts <= clock - Span(k)
        PROVE  [key |-> k, member |-> m] \in found.cuts
    <3>1. m \in Outdated(w)
      BY <2>1, <2>5
    <3> QED
      BY <1>2, <2>3, <2>5, <3>1 DEF Cuts
  <2> QED
    BY <2>4, <2>5
<1>9. Member(w, e).ts = e.timestamp /\ Member(w, e).n \notin seen
  BY DEF Member, Handles
<1>10. Member(w, e) \notin LogAt(log, k)
  BY <1>9 DEF LogAt, Ordered, Counted
<1> QED
  BY <1>1, <1>3, <1>4, <1>5, <1>6, <1>7, <1>8, <1>9, <1>10 DEF IsCut

LEMMA LeftAlone ==
    ASSUME NEW i, NEW e, NEW broken, NEW again, Handles(i, e, broken, again),
           NEW k, \A w \in Asked(e, broken) : w.key # k
    PROVE  /\ LogAt(log', k) = LogAt(log, k)
           /\ k \in DOMAIN windows' => k \in DOMAIN windows /\ windows'[k] = windows[k]
           /\ MembersAt(windows', k) = MembersAt(windows, k)
           /\ \A m : [key |-> k, member |-> m] \in cuts' <=> IsCut(k, m)
<1>1. PICK found : /\ Outcome(found, e, broken) /\ windows' = found.windows /\ log' = found.log
                   /\ cuts' = cuts \cup found.cuts
  BY EvaluationFacts DEF Handles, Evaluate
<1>2. LeavesAlone(found, k)
  BY <1>1 DEF Outcome
<1>3. MembersAt(windows', k) = MembersAt(windows, k)
  BY <1>1, <1>2 DEF LeavesAlone, MembersAt
<1>4. ASSUME NEW m
      PROVE  [key |-> k, member |-> m] \notin found.cuts
  <2> SUFFICES ASSUME [key |-> k, member |-> m] \in found.cuts
               PROVE  FALSE
    OBVIOUS
  <2>1. PICK v \in Asked(e, broken) : \E x \in Outdated(v) :
          [key |-> k, member |-> m] = [key |-> v.key, member |-> x]
    BY <1>1 DEF Outcome, Cuts
  <2> QED
    BY <2>1
<1> QED
  BY <1>1, <1>2, <1>3, <1>4 DEF LeavesAlone, IsCut

\* The window of one key, through an evaluation.
LEMMA HandleKey ==
    ASSUME Typed, Ordered, Exact, NEW i, NEW e, NEW broken, NEW again, Handles(i, e, broken, again),
           NEW k, NEW w, Touches(k, w, e, broken)
    PROVE  /\ \A m \in LogAt(log', k) :
                \/ m \in MembersAt(windows', k) \/ [key |-> k, member |-> m] \in cuts'
                \/ \E n \in LogAt(log', k) : m.ts <= n.ts - Span(k)
                \/ m.ts + Span(k) + Slack <= clock'
           /\ \A m \in MembersAt(windows', k) : [key |-> k, member |-> m] \notin cuts'
           /\ k \in DOMAIN windows' =>
                /\ windows'[k].expiry \in Nat
                /\ \A m \in MembersAt(windows', k) : m.ts + Span(k) + Slack <= windows'[k].expiry
<1> DEFINE new == Member(w, e)
<1>1. clock' = clock /\ clock \in Nat /\ Span(k) \in Nat /\ Span(k) > 0 /\ Slack \in Nat
  BY SpanNat DEF Handles, Typed, TypeOK
<1>2. new.ts = e.timestamp /\ e.timestamp \in Nat /\ e.timestamp <= clock /\ new \notin LogAt(log, k)
  BY EventFacts, HandledFacts DEF Ordered, Handles
<1>3. \A m \in MembersAt(windows, k) : k \in DOMAIN windows /\ m \in LogAt(log, k) /\ ~IsCut(k, m)
  BY HeldFacts DEF Exact, HeldUncut, LogAt
<1>4. \A m \in LogAt(log, k) : /\ m.ts \in Nat /\ m.ts <= clock
                               /\ m \in MembersAt(windows, k) \/ Missed(m, k)
  BY DEF LogAt, Ordered, Counted, Exact, KeptOrMissed
<1>5. ~IsCut(k, new)
  BY <1>2 DEF Exact, Cut, IsCut, LogAt
<1>6. k \in DOMAIN windows => /\ windows[k].expiry \in Nat
                              /\ \A m \in MembersAt(windows, k) : m.ts + Span(k) + Slack <= windows[k].expiry
  BY DEF Exact, HeldLong, MembersAt
<1>7. CASE w.mode = "add"
  <2>1. /\ LogAt(log', k) = LogAt(log, k) \cup {new}
        /\ MembersAt(windows', k) = {m \in MembersAt(windows, k) : m.ts > e.timestamp - Span(k)} \cup {new}
        /\ k \in DOMAIN windows' => windows'[k].expiry = clock + Span(k) + Slack
        /\ \A m : [key |-> k, member |-> m] \in cuts' <=> IsCut(k, m)
    BY <1>7, HandledFacts
  <2> HIDE DEF new
  <2>2. ASSUME NEW m \in LogAt(log, k), m \in MembersAt(windows, k)
        PROVE  \/ m \in MembersAt(windows', k)
               \/ \E n \in LogAt(log', k) : m.ts <= n.ts - Span(k)
    <3>1. m.ts > e.timestamp - Span(k) \/ m.ts <= new.ts - Span(k)
      BY <1>1, <1>2, <1>4
    <3> QED
      BY <2>1, <2>2, <3>1
  <2>3. ASSUME NEW m \in LogAt(log, k), Missed(m, k)
        PROVE  \/ [key |-> k, member |-> m] \in cuts'
               \/ \E n \in LogAt(log', k) : m.ts <= n.ts - Span(k)
               \/ m.ts + Span(k) + Slack <= clock'
    BY <1>1, <2>1, <2>3 DEF Missed
  <2>4. ASSUME NEW m \in MembersAt(windows', k)
        PROVE  /\ [key |-> k, member |-> m] \notin cuts'
               /\ m.ts + Span(k) + Slack <= clock + Span(k) + Slack
    <3>1. m = new \/ m \in MembersAt(windows, k)
      BY <2>1
    <3>2. ~IsCut(k, m) /\ m.ts \in Nat /\ m.ts <= clock
      BY <1>2, <1>3, <1>4, <1>5, <3>1
    <3> QED
      BY <1>1, <2>1, <3>2
  <2>5. clock + Span(k) + Slack \in Nat
    BY <1>1
  <2> QED
    BY <1>4, <2>1, <2>2, <2>3, <2>4, <2>5
<1>8. CASE w.mode # "add"
  <2>1. /\ LogAt(log', k) = LogAt(log, k)
        /\ MembersAt(windows', k) = {m \in MembersAt(windows, k) : m.ts > clock - Span(k)}
        /\ k \in DOMAIN windows' => k \in DOMAIN windows /\ windows'[k].expiry = windows[k].expiry
        /\ \A m : [key |-> k, member |-> m] \in cuts' <=>
                    IsCut(k, m) \/ (m \in LogAt(log, k) /\ m.ts <= clock - Span(k))
    BY <1>8, HandledFacts
  <2> HIDE DEF new
  <2>2. \A m \in LogAt(log, k) : m.ts > clock - Span(k) \/ m.ts <= clock - Span(k)
    BY <1>1, <1>4
  <2>3. \A m \in LogAt(log, k) : m \in MembersAt(windows, k) =>
          m \in MembersAt(windows', k) \/ [key |-> k, member |-> m] \in cuts'
    BY <2>1, <2>2
  <2>4. ASSUME NEW m \in LogAt(log, k), Missed(m, k)
        PROVE  \/ [key |-> k, member |-> m] \in cuts'
               \/ \E n \in LogAt(log', k) : m.ts <= n.ts - Span(k)
               \/ m.ts + Span(k) + Slack <= clock'
    BY <1>1, <2>1, <2>4 DEF Missed
  <2>5. \A m \in MembersAt(windows', k) : [key |-> k, member |-> m] \notin cuts'
    <3> SUFFICES ASSUME NEW m \in MembersAt(windows', k)
                 PROVE  [key |-> k, member |-> m] \notin cuts'
      OBVIOUS
    <3>1. m \in MembersAt(windows, k) /\ m.ts > clock - Span(k)
      BY <2>1
    <3>2. ~IsCut(k, m) /\ m.ts \in Nat
      BY <1>3, <1>4, <3>1
    <3>3. ~(m.ts <= clock - Span(k))
      BY <1>1, <3>1, <3>2
    <3> QED
      BY <2>1, <3>2, <3>3
  <2> QED
    BY <1>4, <1>6, <2>1, <2>3, <2>4, <2>5
<1> QED
  BY <1>7, <1>8

LEMMA HandleExact ==
    ASSUME Typed, Ordered, Exact, NEW i, NEW e, NEW broken, NEW again, Handles(i, e, broken, again)
    PROVE  Exact'
<1>1. clock' = clock
  BY DEF Handles
<1>2. ASSUME NEW k
      PROVE  /\ \A m \in LogAt(log', k) :
                  \/ m \in MembersAt(windows', k) \/ [key |-> k, member |-> m] \in cuts'
                  \/ \E n \in LogAt(log', k) : m.ts <= n.ts - Span(k)
                  \/ m.ts + Span(k) + Slack <= clock'
             /\ \A m \in MembersAt(windows', k) : [key |-> k, member |-> m] \notin cuts'
             /\ k \in DOMAIN windows' =>
                  /\ windows'[k].expiry \in Nat
                  /\ \A m \in MembersAt(windows', k) : m.ts + Span(k) + Slack <= windows'[k].expiry
  <2>1. CASE \E w \in Asked(e, broken) : w.key = k
    BY <2>1, HandleKey DEF Touches
  <2>2. CASE ~\E w \in Asked(e, broken) : w.key = k
    <3>1. /\ LogAt(log', k) = LogAt(log, k)
          /\ k \in DOMAIN windows' => k \in DOMAIN windows /\ windows'[k] = windows[k]
          /\ MembersAt(windows', k) = MembersAt(windows, k)
          /\ \A m : [key |-> k, member |-> m] \in cuts' <=> IsCut(k, m)
      BY <2>2, LeftAlone
    <3>2. \A m \in LogAt(log, k) : m \in MembersAt(windows, k) \/ Missed(m, k)
      BY DEF Exact, KeptOrMissed, LogAt
    <3>3. \A m \in MembersAt(windows, k) : ~IsCut(k, m)
      BY DEF Exact, HeldUncut
    <3>4. k \in DOMAIN windows => /\ windows[k].expiry \in Nat
                                  /\ \A m \in MembersAt(windows, k) :
                                       m.ts + Span(k) + Slack <= windows[k].expiry
      BY DEF Exact, HeldLong, MembersAt
    <3> QED
      BY <1>1, <3>1, <3>2, <3>3, <3>4 DEF Missed
  <2> QED
    BY <2>1, <2>2
<1>3. Cut'
  <2> SUFFICES ASSUME NEW c \in cuts'
               PROVE  /\ c = [key |-> c.key, member |-> c.member]
                      /\ c.key \in DOMAIN log' /\ c.member \in log'[c.key]
    BY DEF Cut
  <2>1. c = [key |-> c.key, member |-> c.member]
    <3>1. PICK found : Outcome(found, e, broken) /\ cuts' = cuts \cup found.cuts
      BY EvaluationFacts DEF Handles, Evaluate
    <3>2. CASE c \in found.cuts
      <4>1. PICK w \in {v \in Asked(e, broken) : v.mode # "add"} :
              c \in {[key |-> w.key, member |-> m] : m \in Outdated(w)}
        BY <3>1, <3>2 DEF Outcome, Cuts
      <4> QED
        BY <4>1
    <3> QED
      BY <3>1, <3>2 DEF Exact, Cut
  <2> DEFINE k == c.key
  <2>2. [key |-> k, member |-> c.member] \in cuts'
    BY <2>1
  <2>3. IsCut(k, c.member) => c.member \in LogAt(log, k)
    BY DEF IsCut, Exact, Cut, LogAt
  <2>4. c.member \in LogAt(log', k)
    <3>1. CASE \E w \in Asked(e, broken) : w.key = k
      <4>1. PICK w \in Asked(e, broken) : w.key = k
        BY <3>1
      <4> QED
        BY <2>2, <2>3, <4>1, HandledFacts DEF Touches
    <3>2. CASE ~\E w \in Asked(e, broken) : w.key = k
      BY <2>2, <2>3, <3>2, LeftAlone
    <3> QED
      BY <3>1, <3>2
  <2> QED
    BY <2>1, <2>4 DEF LogAt
<1>4. HeldUncut'
  BY <1>2 DEF HeldUncut, IsCut
<1>5. HeldLong'
  BY <1>2 DEF HeldLong, MembersAt, Span
<1>6. KeptOrMissed'
  BY <1>2 DEF KeptOrMissed, Missed, IsCut, LogAt, Span
<1> QED
  BY <1>3, <1>4, <1>5, <1>6 DEF Exact

\* An evaluation in order counts the window exactly, and reports a span within it.
LEMMA HandleCountsExactly ==
    ASSUME Typed, Ordered, Exact, NEW i, NEW e, NEW broken, NEW again, Handles(i, e, broken, again)
    PROVE  CountsWindowExactly' /\ FiresWithinWindow'
<1> SUFFICES ASSUME NEW l \in last'.looks
             PROVE  /\ l.rule \in ByAddress /\ (l.mode = "add" => last'.at - l.ts <= Slack) =>
                         LET now == IF l.mode = "add" THEN l.ts ELSE last'.at
                             due == {m \in LogAt(log', l.key) :
                                        /\ m.ts > now - Params[l.rule].window
                                        /\ [key |-> l.key, member |-> m] \notin cuts'}
                         IN  l.members = due
                    /\ \A f, g \in l.members :
                         f.ts - g.ts < Params[l.rule].window
                                         + (IF l.rule \in ByAddress THEN 0 ELSE last'.at - l.ts)
  BY DEF CountsWindowExactly, FiresWithinWindow, LogAt
<1>1. PICK found : Outcome(found, e, broken) /\ last'.looks = found.looks /\ last'.at = clock
  BY EvaluationFacts DEF Handles, Evaluate
<1>2. PICK w \in Asked(e, broken) :
        l = [key |-> w.key, rule |-> w.rule, mode |-> w.mode, ts |-> e.timestamp,
             members |-> Looked(w, e).members]
  BY <1>1 DEF Outcome, Looks
<1> DEFINE k == w.key
           new == Member(w, e)
<1>3. l.key = k /\ l.rule = w.rule /\ l.mode = w.mode /\ l.ts = e.timestamp /\ Touches(k, w, e, broken)
  BY <1>2 DEF Touches
<1>4. l.members = MembersAt(windows', k)
  <2>1. PICK done : Outcome(done, e, broken) /\ windows' = done.windows
    BY EvaluationFacts DEF Handles, Evaluate
  <2> QED
    BY <1>2, <2>1 DEF Outcome, AsksFor
<1>5. clock \in Nat /\ Span(k) \in Nat /\ Span(k) > 0 /\ Slack \in Nat /\ Params[w.rule].window = Span(k)
  <2>1. clock \in Nat
    BY DEF Typed, TypeOK
  <2>2. Params[w.rule].window = Span(k)
    BY <1>3, HandledFacts
  <2> QED
    BY <2>1, <2>2, SpanNat
<1>6. new.ts = e.timestamp /\ e.timestamp \in Nat /\ e.timestamp <= clock /\ new \notin LogAt(log, k)
  BY <1>3, EventFacts, HandledFacts DEF Ordered, Handles
<1>7. \A m \in MembersAt(windows, k) : m \in LogAt(log, k) /\ ~IsCut(k, m)
  BY HeldFacts DEF Exact, HeldUncut, LogAt
<1>8. \A m \in LogAt(log, k) : /\ m.ts \in Nat /\ m.ts <= clock
                               /\ m \in MembersAt(windows, k) \/ Missed(m, k)
  BY DEF LogAt, Ordered, Counted, Exact, KeptOrMissed
<1>9. ~IsCut(k, new)
  BY <1>6 DEF Exact, Cut, IsCut, LogAt
\* What the address's window has counted is no later than the event.
<1>10. ASSUME w.rule \in ByAddress, NEW m \in LogAt(log, k)
       PROVE  m.ts <= e.timestamp
  <2>1. RuleOf(k) \in ByAddress /\ Owner(k) = e.source_ip
    BY <1>10, AskedFacts
  <2>2. e.source_ip # None
    <3>1. Applies(w.rule, e) /\ w.rule \in {"RULE-001", "RULE-002", "RULE-003", "RULE-006"}
      BY <1>10, AskedFacts DEF ByAddress
    <3> QED
      BY <3>1 DEF Applies, BruteForceApplies, SprayApplies, ScanApplies, ExfilApplies
  <2>3. PartitionKey(topic[i].raw) = Owner(k) /\ e.timestamp = Ts(topic[i]) /\ i \in 1..Len(topic)
    BY <2>1, <2>2, EventFacts DEF Ordered, Handles
  <2> QED
    BY <2>1, <2>3 DEF LogAt, Ordered, Counted
<1>11. CASE w.mode = "add"
  <2>1. /\ LogAt(log', k) = LogAt(log, k) \cup {new}
        /\ MembersAt(windows', k) = {m \in MembersAt(windows, k) : m.ts > e.timestamp - Span(k)} \cup {new}
        /\ \A m : [key |-> k, member |-> m] \in cuts' <=> IsCut(k, m)
    BY <1>3, <1>11, HandledFacts
  <2> HIDE DEF new, k
  <2>2. ASSUME w.rule \in ByAddress, clock - e.timestamp <= Slack
        PROVE  MembersAt(windows', k)
                 = {m \in LogAt(log', k) : /\ m.ts > e.timestamp - Span(k)
                                           /\ [key |-> k, member |-> m] \notin cuts'}
    <3>1. new.ts > e.timestamp - Span(k)
      BY <1>5, <1>6
    <3>2. ASSUME NEW m \in LogAt(log, k), Missed(m, k), ~IsCut(k, m)
          PROVE  ~(m.ts > e.timestamp - Span(k))
      <4>1. m.ts \in Nat
        BY <1>8
      <4>2. CASE \E n \in LogAt(log, k) : m.ts <= n.ts - Span(k)
        <5>1. PICK n \in LogAt(log, k) : m.ts <= n.ts - Span(k)
          BY <4>2
        <5>2. n.ts \in Nat /\ n.ts <= e.timestamp
          BY <1>8, <1>10, <2>2
        <5> QED
          BY <1>5, <1>6, <4>1, <5>1, <5>2
      <4>3. CASE m.ts + Span(k) + Slack <= clock
        BY <1>5, <1>6, <2>2, <4>1, <4>3
      <4> QED
        BY <3>2, <4>2, <4>3 DEF Missed
    <3> QED
      BY <1>7, <1>8, <1>9, <2>1, <3>1, <3>2
  <2>3. ASSUME NEW f \in MembersAt(windows', k), NEW g \in MembersAt(windows', k)
        PROVE  f.ts - g.ts < Span(k) + (IF w.rule \in ByAddress THEN 0 ELSE clock - e.timestamp)
    <3>1. f.ts \in Nat /\ f.ts <= clock /\ (w.rule \in ByAddress => f.ts <= e.timestamp)
      BY <1>6, <1>7, <1>8, <1>10, <2>1 DEF k
    <3>2. g.ts \in Nat /\ g.ts > e.timestamp - Span(k)
      BY <1>5, <1>6, <1>7, <1>8, <2>1
    <3> QED
      BY <1>5, <1>6, <3>1, <3>2
  <2> QED
    BY <1>1, <1>3, <1>4, <1>5, <1>11, <2>2, <2>3 DEF k
<1>12. CASE w.mode # "add"
  <2>1. /\ LogAt(log', k) = LogAt(log, k)
        /\ MembersAt(windows', k) = {m \in MembersAt(windows, k) : m.ts > clock - Span(k)}
        /\ \A m : [key |-> k, member |-> m] \in cuts' <=>
                    IsCut(k, m) \/ (m \in LogAt(log, k) /\ m.ts <= clock - Span(k))
    BY <1>3, <1>12, HandledFacts
  <2>2. w.rule \in ByAddress
    BY <1>12, AskedFacts
  <2> HIDE DEF new, k
  <2>3. MembersAt(windows', k)
          = {m \in LogAt(log', k) : /\ m.ts > clock - Span(k)
                                    /\ [key |-> k, member |-> m] \notin cuts'}
    <3>1. ASSUME NEW m \in LogAt(log, k), Missed(m, k), ~IsCut(k, m)
          PROVE  ~(m.ts > clock - Span(k))
      <4>1. m.ts \in Nat
        BY <1>8
      <4>2. CASE \E n \in LogAt(log, k) : m.ts <= n.ts - Span(k)
        <5>1. PICK n \in LogAt(log, k) : m.ts <= n.ts - Span(k)
          BY <4>2
        <5>2. n.ts \in Nat /\ n.ts <= clock
          BY <1>8
        <5> QED
          BY <1>5, <4>1, <5>1, <5>2
      <4>3. CASE m.ts + Span(k) + Slack <= clock
        BY <1>5, <4>1, <4>3
      <4> QED
        BY <3>1, <4>2, <4>3 DEF Missed
    <3>2. \A m \in LogAt(log, k) : m.ts > clock - Span(k) => ~(m.ts <= clock - Span(k))
      BY <1>5, <1>8
    <3> QED
      BY <1>7, <1>8, <2>1, <3>1, <3>2
  <2>4. ASSUME NEW f \in MembersAt(windows', k), NEW g \in MembersAt(windows', k)
        PROVE  f.ts - g.ts < Span(k) + 0
    <3>1. f.ts \in Nat /\ f.ts <= clock
      BY <1>7, <1>8, <2>1
    <3>2. g.ts \in Nat /\ g.ts > clock - Span(k)
      BY <1>7, <1>8, <2>1
    <3> QED
      BY <1>5, <3>1, <3>2
  <2> QED
    BY <1>1, <1>3, <1>4, <1>5, <1>12, <2>2, <2>3, <2>4 DEF k
<1> QED
  BY <1>11, <1>12

ExactInv == Typed /\ Ordered /\ Exact /\ CountsWindowExactly /\ FiresWithinWindow

LEMMA ExactStep == ExactInv /\ [Next]_vars => ExactInv'
<1> SUFFICES ASSUME ExactInv, [Next]_vars PROVE Exact' /\ CountsWindowExactly' /\ FiresWithinWindow'
  BY StepTyped, OrderedStep DEF ExactInv
<1> USE DEF ExactInv
<1>1. ASSUME UNCHANGED <<log, cuts, last>>
      PROVE  CountsWindowExactly' /\ FiresWithinWindow'
  BY <1>1 DEF CountsWindowExactly, FiresWithinWindow, OnTime
<1>2. ASSUME UNCHANGED <<clock, windows, log, cuts, last>>
      PROVE  Exact' /\ CountsWindowExactly' /\ FiresWithinWindow'
  BY <1>1, <1>2 DEF Exact, Cut, HeldUncut, HeldLong, KeptOrMissed, Missed, IsCut
<1>3. CASE Tick
  BY <1>1, <1>3, TickExact DEF Tick
<1>4. CASE EmitAttack \/ EmitFails \/ EmitNormal \/ Foreign \/ UNCHANGED vars
  BY <1>2, <1>4 DEF EmitAttack, EmitFails, EmitNormal, Foreign, Send, vars
<1>5. ASSUME NEW name \in Names, Launch(name)
      PROVE  Exact' /\ CountsWindowExactly' /\ FiresWithinWindow'
  BY <1>2, <1>5 DEF Launch
<1>6. ASSUME NEW i \in 1..InFlight, NEW again \in BOOLEAN, Reject(i, again) \/ Duplicate(i, again)
      PROVE  Exact' /\ CountsWindowExactly' /\ FiresWithinWindow'
  BY <1>2, <1>6 DEF Reject, Duplicate
<1>7. ASSUME NEW i \in 1..InFlight, NEW again \in BOOLEAN,
             NEW broken \in {{}} \cup {{rule} : rule \in Rules}, Process(i, broken, again)
      PROVE  Exact' /\ CountsWindowExactly' /\ FiresWithinWindow'
  <2>1. PICK e : Handles(i, e, broken, again)
    BY <1>7, ProcessHandles DEF Ordered, Sent
  <2> QED
    BY <2>1, HandleExact, HandleCountsExactly
<1> QED
  BY <1>3, <1>4, <1>5, <1>6, <1>7 DEF Next

LEMMA InitExact == Alone /\ Init => ExactInv
<1> SUFFICES ASSUME Alone, Init PROVE ExactInv
  OBVIOUS
<1>1. IsTopic(<<>>) /\ Len(<<>>) = 0
  BY DEF IsTopic
<1>2. Ordered
  BY <1>1 DEF Init, Alone, Ordered, Sent, Queued, Counted, IsInstance, NoAttack
<1>3. Exact
  BY DEF Init, Exact, Cut, HeldUncut, HeldLong, KeptOrMissed, MembersAt
<1>4. CountsWindowExactly /\ FiresWithinWindow
  BY DEF Init, Nothing, CountsWindowExactly, FiresWithinWindow
<1> QED
  BY <1>2, <1>3, <1>4, InitTyped DEF ExactInv

\* With the simulator as the only producer, an evaluation of a rule that watches
\* an address counts exactly the events of its window, for an event no longer on
\* its way than the slack of expire(), but for those a measure() has cut off.
THEOREM CountsWindowExactlyHolds ==
    ASSUME Alone
    PROVE  Spec => []CountsWindowExactly
<1>1. Init => ExactInv
  BY InitExact
<1>2. ExactInv => CountsWindowExactly
  BY DEF ExactInv
<1> QED
  BY <1>1, <1>2, ExactStep, PTL DEF Spec

\* With the simulator as the only producer, the span of what a rule counts lies
\* within one window, or, for a rule that watches an account, exceeds it by no
\* more than the evaluated event was late.
THEOREM FiresWithinWindowHolds ==
    ASSUME Alone
    PROVE  Spec => []FiresWithinWindow
<1>1. Init => ExactInv
  BY InitExact
<1>2. ExactInv => FiresWithinWindow
  BY DEF ExactInv
<1> QED
  BY <1>1, <1>2, ExactStep, PTL DEF Spec

-----------------------------------------------------------------------------
(* Sums over a finite set.  MapThenSumSet is a recursive function on the    *)
(* subsets; that it is well defined, and what it is bounded by, follows    *)
(* from a least counterexample among them.                                 *)

\* MapThenSumSet, unfolded: the member it takes first, the function on subsets.
One(s) == CHOOSE x \in s : TRUE
Adds(f, S) == f = [s \in SUBSET S |-> IF s = {} THEN 0 ELSE One(s).value + f[s \ {One(s)}]]
Total(S) == MapThenSumSet(LAMBDA m : m.value, S)

\* The volume of a window is that function at the set itself.
LEMMA TotalDef ==
    ASSUME NEW S
    PROVE Total(S) = (CHOOSE f : Adds(f, S))[S]
BY Zenon DEF Total, MapThenSumSet, MapThenFoldSet, Adds, One

\* A set that is not empty has a first member.
LEMMA OneIn == ASSUME NEW s, s # {} PROVE One(s) \in s
BY DEF One

\* The least counterexample among the subsets of a finite set.
LEMMA Least ==
    ASSUME NEW S, IsFiniteSet(S), NEW Bad, Bad \subseteq SUBSET S, Bad # {}
    PROVE  \E T \in Bad : \A U \in Bad : U \subseteq T => U = T
<1>1. IsWellFoundedOn(StrictSubsetOrdering(S), SUBSET S)
  BY FS_StrictSubsetOrderingWellFounded, FS_FiniteSubsetsOfFinite
<1>2. PICK T \in Bad : \A U \in Bad : ~(<<U, T>> \in StrictSubsetOrdering(S))
  BY <1>1, WFMin
<1>3. ASSUME NEW U \in Bad, U \subseteq T
      PROVE  U = T
  BY <1>2, <1>3 DEF StrictSubsetOrdering
<1> QED
  BY <1>3

\* Two such functions agree where both are defined ...
LEMMA AddsUnique ==
    ASSUME NEW S, IsFiniteSet(S), NEW T, NEW f, NEW g, Adds(f, S), Adds(g, T), NEW W \in SUBSET S, W \in SUBSET T
    PROVE  f[W] = g[W]
<1> DEFINE Bad == {U \in SUBSET W : f[U] # g[U]}
<1> SUFFICES ASSUME Bad # {} PROVE FALSE
  OBVIOUS
<1>1. IsFiniteSet(W)
  BY FS_Subset
<1>2. PICK U \in Bad : \A V \in Bad : V \subseteq U => V = U
  <2>1. Bad \subseteq SUBSET W
    OBVIOUS
  <2> HIDE DEF Bad
  <2> QED
    BY <1>1, <2>1, Least
<1>3. U \in SUBSET S /\ U \in SUBSET T /\ f[U] # g[U]
  BY <1>2
<1>4. f[U] = IF U = {} THEN 0 ELSE One(U).value + f[U \ {One(U)}]
  BY <1>3 DEF Adds
<1>5. g[U] = IF U = {} THEN 0 ELSE One(U).value + g[U \ {One(U)}]
  BY <1>3 DEF Adds
<1>6. U # {} /\ f[U \ {One(U)}] # g[U \ {One(U)}]
  BY <1>3, <1>4, <1>5
<1>7. U \ {One(U)} \in Bad /\ One(U) \in U
  BY <1>6, <1>2, OneIn
<1> QED
  BY <1>2, <1>7

\* ... and there is one on the subsets of every finite set.
LEMMA AddsExists ==
    ASSUME NEW S, IsFiniteSet(S)
    PROVE  \E f : Adds(f, S)
<1> DEFINE Bad == {T \in SUBSET S : ~\E f : Adds(f, T)}
<1> SUFFICES ASSUME Bad # {} PROVE FALSE
  OBVIOUS
<1>1. PICK T \in Bad : \A U \in Bad : U \subseteq T => U = T
  <2>1. Bad \subseteq SUBSET S
    OBVIOUS
  <2> HIDE DEF Bad
  <2> QED
    BY <2>1, Least
<1> DEFINE G(u) == (CHOOSE g : Adds(g, u))[u]
           value(s) == IF s = {} THEN 0 ELSE One(s).value + G(s \ {One(s)})
           f == [s \in SUBSET T |-> value(s)]
<1>2. T \in SUBSET S /\ IsFiniteSet(T)
  BY <1>1, FS_Subset
<1>3. ASSUME NEW u \in SUBSET T, u # T
      PROVE  G(u) = value(u)
  <2> DEFINE g == CHOOSE g : Adds(g, u)
  <2>1. Adds(g, u)
    BY <1>1, <1>2, <1>3
  <2>2. G(u) = g[u]
    OBVIOUS
  <2>3. g[u] = IF u = {} THEN 0 ELSE One(u).value + g[u \ {One(u)}]
    <3> HIDE DEF g
    <3> QED
      BY <2>1 DEF Adds
  <2>4. CASE u # {}
    <3> DEFINE r == u \ {One(u)}
               h == CHOOSE h : Adds(h, r)
    <3>1. r \in SUBSET T /\ r # T /\ r \in SUBSET u /\ IsFiniteSet(u)
      BY <1>2, <1>3, <2>4, OneIn, FS_Subset
    <3>2. Adds(h, r)
      BY <1>1, <1>2, <3>1
    <3>3. g[r] = h[r]
      <4> HIDE DEF g, h, r
      <4> QED
        BY <2>1, <3>1, <3>2, AddsUnique
    <3>4. G(r) = h[r]
      OBVIOUS
    <3> QED
      BY <2>2, <2>3, <2>4, <3>3, <3>4
  <2> QED
    BY <2>2, <2>3, <2>4
<1>4. ASSUME NEW s \in SUBSET T
      PROVE  f[s] = IF s = {} THEN 0 ELSE One(s).value + f[s \ {One(s)}]
  <2>1. CASE s # {}
    <3>1. s \ {One(s)} \in SUBSET T /\ s \ {One(s)} # T
      BY <2>1, OneIn
    <3>2. f[s \ {One(s)}] = G(s \ {One(s)})
      BY <1>3, <3>1
    <3> HIDE DEF G
    <3> QED
      BY <2>1, <3>2
  <2> HIDE DEF G
  <2> QED
    BY <2>1
<1>5. Adds(f, T)
  <2>1. f = [s \in SUBSET T |-> f[s]]
    BY DEF value
  <2> HIDE DEF f
  <2> QED
    BY <1>4, <2>1 DEF Adds
<1> QED
  BY <1>1, <1>5

\* The sum of a finite set is that of the others and one of its members.
LEMMA TotalStep ==
    ASSUME NEW S, IsFiniteSet(S)
    PROVE  Total(S) = IF S = {} THEN 0 ELSE One(S).value + Total(S \ {One(S)})
<1> DEFINE f == CHOOSE f : Adds(f, S)
           r == S \ {One(S)}
           g == CHOOSE g : Adds(g, r)
<1>1. Adds(f, S) /\ Total(S) = f[S]
  BY AddsExists, TotalDef
<1>2. IsFiniteSet(r)
  BY FS_Subset
<1>3. Adds(g, r) /\ Total(r) = g[r]
  BY <1>2, AddsExists, TotalDef
<1> HIDE DEF f, g
<1>4. f[S] = IF S = {} THEN 0 ELSE One(S).value + f[r]
  BY <1>1 DEF Adds
<1>5. f[r] = g[r]
  <2> HIDE DEF r
  <2>1. r \in SUBSET S
    BY DEF r
  <2> QED
    BY <1>1, <1>3, <2>1, AddsUnique
<1> QED
  BY <1>1, <1>3, <1>4, <1>5

\* Sums of values that lie between two bounds.
LEMMA TotalBounds ==
    ASSUME NEW S, IsFiniteSet(S), NEW least \in Nat, NEW most \in Nat,
           \A m \in S : m.value \in Nat /\ least <= m.value /\ m.value <= most
    PROVE  /\ Total(S) \in Nat
           /\ least * Cardinality(S) <= Total(S) /\ Total(S) <= most * Cardinality(S)
<1> DEFINE Good(T) == /\ Total(T) \in Nat
           /\ least * Cardinality(T) <= Total(T) /\ Total(T) <= most * Cardinality(T)
  Bad == {T \in SUBSET S : ~Good(T)}
<1> SUFFICES ASSUME Bad # {} PROVE FALSE
  OBVIOUS
<1>1. PICK T \in Bad : \A U \in Bad : U \subseteq T => U = T
  <2>1. Bad \subseteq SUBSET S
    OBVIOUS
  <2> HIDE DEF Bad
  <2> QED
    BY <2>1, Least
<1>2. T \in SUBSET S /\ IsFiniteSet(T) /\ ~Good(T)
  BY <1>1, FS_Subset
<1> HIDE DEF Good
<1>3. CASE T = {}
  <2>1. Total(T) = 0 /\ Cardinality(T) = 0
    BY <1>2, <1>3, TotalStep, FS_EmptySet
  <2> QED
    BY <1>2, <2>1 DEF Good
<1>4. CASE T # {}
  <2> DEFINE x == One(T)
             U == T \ {x}
  <2>1. x \in T /\ x \in S
    BY <1>2, <1>4, OneIn
  <2>2. U \in SUBSET S /\ U # T /\ U \subseteq T
    BY <1>2, <2>1
  <2>3. Good(U)
    BY <1>1, <2>2
  <2>4. Total(T) = x.value + Total(U)
    BY <1>2, <1>4, TotalStep
  <2>5. Cardinality(U) = Cardinality(T) - 1 /\ Cardinality(T) \in Nat /\ Cardinality(U) \in Nat
    <3>1. IsFiniteSet(U)
      BY <1>2, FS_RemoveElement
    <3> HIDE DEF U, x
    <3>2. Cardinality(U) = Cardinality(T) - 1
      BY <1>2, <2>1, FS_RemoveElement DEF U
    <3> QED
      BY <3>1, <3>2, <1>2, FS_CardinalityType
  <2>6. x.value \in Nat /\ least <= x.value /\ x.value <= most
    BY <2>1
  <2> DEFINE v == x.value
             c == Cardinality(U)
             u == Total(U)
  <2>7. least * (c + 1) = least * c + least /\ most * (c + 1) = most * c + most
    BY <2>5
  <2>8. Cardinality(T) = c + 1
    BY <2>5
  <2>9. u \in Nat /\ least * c <= u /\ u <= most * c
    BY <2>3 DEF Good
  <2> HIDE DEF v, c, u
  <2>10. least * c \in Nat /\ most * c \in Nat
    BY <2>5 DEF c
  <2>11. v + u \in Nat /\ least * c + least <= v + u /\ v + u <= most * c + most
    BY <2>6, <2>9, <2>10 DEF v
  <2>12. Good(T)
    BY <2>4, <2>7, <2>8, <2>11 DEF Good, v, u
  <2> QED
    BY <1>2, <2>12
<1> QED
  BY <1>3, <1>4

-----------------------------------------------------------------------------
(* The background: what the rules can see of what NormalEvent draws.       *)

\* The fields of a message, the events of GeoRule, and an account's addresses.
Fields == {"event_id", "timestamp", "source", "source_type", "event_type", "status", "source_ip",
           "destination_ip", "destination_port", "username", "service", "action", "message", "bytes_out",
           "metadata", "extra"}
LoginTypes == {"authentication_success", "authentication_failure"}
Devices(u) == {HomeOf[u], SecondOf[u]}

\* What the rules can see of a background message ...
Calm(x) ==
    /\ Fields \subseteq DOMAIN x
    /\ x.event_type \in LoginTypes \cup {"http_request", "db_query", "firewall_allow", "firewall_deny",
                                         "dns_query", "application_event", "logout", "scheduled_job"}
    /\ x.action = {"text"} /\ x.message = {"text"} /\ x.bytes_out \in {<<0>>, <<1>>}
    /\ x.event_type \in LoginTypes => x.username \in Members(Users) /\ x.source_ip \in Devices(x.username)
    /\ x.event_type \in ScanEvents => \E p \in FirewallPorts : x.destination_port = <<p>>
    /\ x.event_type = "db_query" => x.metadata = [query |-> {"text"}, rows_returned |-> <<120>>]

\* What make_event fills in.
LEMMA MakeFields ==
    ASSUME NEW now, NEW source_type, NEW event_type, NEW status
    PROVE  LET m == MakeEvent(now, source_type, event_type, status)
           IN  /\ DOMAIN m = Fields /\ m.event_type = event_type
               /\ m.action = {"text"} /\ m.message = {"text"} /\ m.bytes_out = <<0>>
BY DEF MakeEvent, Fields

\* ... of every generator of normal.py ...
LEMMA NormalCalm ==
    ASSUME NEW now, NEW x \in NormalEvent(now)
    PROVE  Calm(x)
<1> USE DEF LoginTypes, ScanEvents
<1>1. CASE x \in SshLogin(now) \cup IdpEvent(now)
  <2>1. PICK type \in {"linux_server", "identity"}, u \in Members(Users), ok \in BOOLEAN :
          \E ip \in UserIps(u) : x = Login(now, type, ok, u, ip)
    BY <1>1 DEF SshLogin, IdpEvent
  <2>6. PICK ip \in UserIps(u) : x = Login(now, type, ok, u, ip)
    BY <2>1
  <2> DEFINE event_type == IF ok THEN "authentication_success" ELSE "authentication_failure"
             m == MakeEvent(now, type, event_type, IF ok THEN "success" ELSE "failure")
  <2>2. x = [m EXCEPT !.source_ip = ip, !.username = u]
    BY <2>6 DEF Login
  <2>3. /\ DOMAIN m = Fields /\ m.event_type = event_type
               /\ m.action = {"text"} /\ m.message = {"text"} /\ m.bytes_out = <<0>>
    BY MakeFields
  <2> HIDE DEF m
  <2>4. /\ DOMAIN x = Fields /\ x.event_type = m.event_type /\ x.action = m.action /\ x.message = m.message
        /\ x.bytes_out = m.bytes_out /\ x.source_ip = ip /\ x.username = u
    BY <2>2, <2>3 DEF Fields
  <2>5. ip \in Devices(u)
    BY DEF UserIps, Devices
  <2> QED
    BY <2>3, <2>4, <2>5 DEF Calm
<1>2. CASE x \in HttpRequest(now)
  <2> DEFINE m == MakeEvent(now, "web_server", "http_request", "success")
  <2>1. PICK ip \in InternalIps \cup ExternalIps :
          x = [m EXCEPT !.source_ip = ip, !.destination_port = <<443>>, !.bytes_out = <<1>>]
    BY <1>2, Zenon DEF HttpRequest
  <2>3. /\ DOMAIN m = Fields /\ m.event_type = "http_request"
               /\ m.action = {"text"} /\ m.message = {"text"} /\ m.bytes_out = <<0>>
    BY MakeFields
  <2> HIDE DEF m
  <2>4. /\ DOMAIN x = Fields /\ x.event_type = m.event_type /\ x.action = m.action /\ x.message = m.message
        /\ x.bytes_out = <<1>>
    BY <2>1, <2>3 DEF Fields
  <2> QED
    BY <2>3, <2>4 DEF Calm
<1>3. CASE x \in DbQuery(now)
  <2> DEFINE m == MakeEvent(now, "database", "db_query", "success")
  <2>1. PICK ip : x = [m EXCEPT !.source_ip = ip, !.username = "svc_api",
                          !.metadata = [query |-> {"text"}, rows_returned |-> <<120>>]]
    BY <1>3 DEF DbQuery
  <2>3. /\ DOMAIN m = Fields /\ m.event_type = "db_query"
               /\ m.action = {"text"} /\ m.message = {"text"} /\ m.bytes_out = <<0>>
    BY MakeFields
  <2> HIDE DEF m
  <2>4. /\ DOMAIN x = Fields /\ x.event_type = m.event_type /\ x.action = m.action /\ x.message = m.message
        /\ x.bytes_out = m.bytes_out /\ x.metadata = [query |-> {"text"}, rows_returned |-> <<120>>]
    BY <2>1, <2>3 DEF Fields
  <2> QED
    BY <2>3, <2>4 DEF Calm
<1>4. CASE x \in Firewall(now)
  <2>1. PICK type \in {"firewall_allow", "firewall_deny"}, port \in FirewallPorts,
             ip \in InternalIps \cup ExternalIps : x = Flow(now, type, ip, port)
    BY <1>4 DEF Firewall
  <2> DEFINE m == MakeEvent(now, "firewall", type, "allowed")
  <2>2. x = [m EXCEPT !.source_ip = ip, !.destination_ip = "inside", !.destination_port = <<port>>,
                      !.bytes_out = <<1>>]
    BY <2>1 DEF Flow
  <2>3. /\ DOMAIN m = Fields /\ m.event_type = type
               /\ m.action = {"text"} /\ m.message = {"text"} /\ m.bytes_out = <<0>>
    BY MakeFields
  <2> HIDE DEF m
  <2>4. /\ DOMAIN x = Fields /\ x.event_type = m.event_type /\ x.action = m.action /\ x.message = m.message
        /\ x.bytes_out = <<1>> /\ x.destination_port = <<port>>
    BY <2>2, <2>3 DEF Fields
  <2> QED
    BY <2>1, <2>3, <2>4 DEF Calm
<1>5. CASE x \in Dns(now)
  <2> DEFINE m == MakeEvent(now, "dns", "dns_query", "success")
  <2>1. PICK ip : x = [m EXCEPT !.source_ip = ip, !.destination_port = <<53>>]
    BY <1>5 DEF Dns
  <2>3. /\ DOMAIN m = Fields /\ m.event_type = "dns_query"
               /\ m.action = {"text"} /\ m.message = {"text"} /\ m.bytes_out = <<0>>
    BY MakeFields
  <2> HIDE DEF m
  <2>4. /\ DOMAIN x = Fields /\ x.event_type = m.event_type /\ x.action = m.action /\ x.message = m.message
        /\ x.bytes_out = m.bytes_out
    BY <2>1, <2>3 DEF Fields
  <2> QED
    BY <2>3, <2>4 DEF Calm
<1>6. CASE x \in AppEvent(now) \cup ScheduledJob(now)
  <2>1. PICK type \in {"application", "scheduler"}, event_type \in {"application_event", "scheduled_job"} :
          \E u : x = [MakeEvent(now, type, event_type, "success") EXCEPT !.username = u]
    BY <1>6 DEF AppEvent, ScheduledJob
  <2> DEFINE m == MakeEvent(now, type, event_type, "success")
  <2>2. PICK u : x = [m EXCEPT !.username = u]
    BY <2>1
  <2>3. /\ DOMAIN m = Fields /\ m.event_type = event_type
               /\ m.action = {"text"} /\ m.message = {"text"} /\ m.bytes_out = <<0>>
    BY MakeFields
  <2> HIDE DEF m
  <2>4. /\ DOMAIN x = Fields /\ x.event_type = m.event_type /\ x.action = m.action /\ x.message = m.message
        /\ x.bytes_out = m.bytes_out
    BY <2>2, <2>3 DEF Fields
  <2> QED
    BY <2>1, <2>3, <2>4 DEF Calm
<1>7. CASE x \in Logout(now)
  <2>1. PICK u, ip : x = SignOff(now, u, ip)
    BY <1>7 DEF Logout
  <2> DEFINE m == MakeEvent(now, "linux_server", "logout", "success")
  <2>2. x = [m EXCEPT !.source_ip = ip, !.username = u]
    BY <2>1 DEF SignOff
  <2>3. /\ DOMAIN m = Fields /\ m.event_type = "logout"
               /\ m.action = {"text"} /\ m.message = {"text"} /\ m.bytes_out = <<0>>
    BY MakeFields
  <2> HIDE DEF m
  <2>4. /\ DOMAIN x = Fields /\ x.event_type = m.event_type /\ x.action = m.action /\ x.message = m.message
        /\ x.bytes_out = m.bytes_out
    BY <2>2, <2>3 DEF Fields
  <2> QED
    BY <2>3, <2>4 DEF Calm
<1> QED
  BY <1>1, <1>2, <1>3, <1>4, <1>5, <1>6, <1>7 DEF NormalEvent

\* ... whatever its uuid4.
LEMMA CalmWithId ==
    ASSUME NEW x, Calm(x), NEW id
    PROVE  Calm([x EXCEPT !.event_id = id])
<1> DEFINE y == [x EXCEPT !.event_id = id]
<1>1. /\ DOMAIN y = DOMAIN x /\ y.event_type = x.event_type /\ y.action = x.action /\ y.message = x.message
      /\ y.bytes_out = x.bytes_out /\ y.username = x.username /\ y.source_ip = x.source_ip
      /\ y.destination_port = x.destination_port /\ y.metadata = x.metadata
  BY DEF Calm, Fields
<1> HIDE DEF y
<1>2. Calm(y)
  BY <1>1 DEF Calm
<1> QED
  BY <1>2, Zenon DEF y

-----------------------------------------------------------------------------
(* ... of the event a worker makes of it, and of the windows it is added   *)
(* to.                                                                     *)

\* ... and what the detectors make of the event.
Harmless(e) ==
    /\ e.event_type \in LoginTypes \cup {"http_request", "db_query", "firewall_allow", "firewall_deny",
                                         "dns_query", "application_event", "logout", "scheduled_job"}
    /\ e.action = {"text"} /\ e.message = {"text"} /\ e.bytes_out \in {0, 1}
    /\ e.event_type \in LoginTypes =>
         \E u \in Members(Users) : e.username \in {u, None} /\ e.source_ip \in (Devices(u) \cap Addresses) \cup {None}
    /\ e.event_type \in ScanEvents /\ e.destination_port # <<>> =>
         \E p \in FirewallPorts : e.destination_port = <<p>>
    /\ e.event_type = "db_query" => e.metadata.query = {"text"} /\ e.metadata.rows_returned = <<120>>

\* The port validator keeps a port or drops it.
LEMMA PortKept ==
    ASSUME NEW port
    PROVE  ValidatePort(port) \in {port, <<>>}
BY DEF ValidatePort

\* from_raw makes nothing else of it.
LEMMA CalmHarmless ==
    ASSUME NEW x, Calm(x), NEW now, NEW fresh
    PROVE  Harmless(FromRaw(x, now, fresh))
<1> DEFINE e == FromRaw(x, now, fresh)
<1>1. /\ e.event_type = CoerceEnum(x.event_type, EventTypes, "unknown")
      /\ e.action = x.action /\ e.message = x.message /\ e.bytes_out = ValidateBytes(x.bytes_out)
      /\ e.username = Clip(x.username) /\ e.source_ip = CoerceIp(x.source_ip)
      /\ e.destination_port = ValidatePort(x.destination_port) /\ e.metadata = Metadata(x)
  BY DEF FromRaw
<1> HIDE DEF e
<1>2. e.event_type = x.event_type
  BY <1>1 DEF Calm, CoerceEnum, EventTypes, LoginTypes
<1>3. e.bytes_out \in {0, 1}
  <2>1. MaxBytes \in Nat
    BY BackgroundAssumption
  <2>2. x.bytes_out \in {<<0>>, <<1>>}
    BY DEF Calm
  <2>3. CASE x.bytes_out = <<0>>
    BY <1>1, <2>1, <2>3 DEF ValidateBytes
  <2>4. CASE x.bytes_out = <<1>>
    BY <1>1, <2>1, <2>4 DEF ValidateBytes
  <2> QED
    BY <2>2, <2>3, <2>4
<1>4. e.event_type \in LoginTypes =>
         \E u \in Members(Users) : e.username \in {u, None} /\ e.source_ip \in (Devices(u) \cap Addresses) \cup {None}
  BY <1>1, <1>2 DEF Calm, Clip, CoerceIp
<1>5. e.event_type \in ScanEvents /\ e.destination_port # <<>> =>
         \E p \in FirewallPorts : e.destination_port = <<p>>
  <2>1. e.destination_port \in {x.destination_port, <<>>}
    BY <1>1, PortKept
  <2> QED
    BY <1>1, <1>2, <2>1 DEF Calm
<1>6. ASSUME e.event_type = "db_query"
      PROVE  e.metadata.query = {"text"} /\ e.metadata.rows_returned = <<120>>
  <2>1. x.metadata = [query |-> {"text"}, rows_returned |-> <<120>>]
    BY <1>2, <1>6 DEF Calm
  <2>2. DOMAIN Missing = {"user_role", "query", "rows_returned"}
    BY DEF Missing
  <2>3. e.metadata.query = x.metadata.query /\ e.metadata.rows_returned = x.metadata.rows_returned
    BY <1>1, <2>1, <2>2 DEF Metadata
  <2> QED
    BY <2>1, <2>3
<1>7. Harmless(e)
  BY <1>1, <1>2, <1>3, <1>4, <1>5, <1>6 DEF Calm, Harmless
<1> QED
  BY <1>7 DEF e

\* What the background leaves in a window.
Likely(key, value) ==
    /\ key[1] = "spray" =>
         value = None \/ (value \in Members(Users) /\ key[2] \in Devices(value) \cap Addresses)
    /\ key[1] = "portscan" => \E p \in FirewallPorts : value = <<p>>
    /\ key[1] = "exfil" => value = 1
    /\ key[1] = "authgeo_ok" => key[2] \in Members(Users) /\ value \in Devices(key[2])

\* Each rule that runs adds no other value under its key.
LEMMA AddsLikely ==
    ASSUME NEW e, Harmless(e), NEW broken, NEW w \in Asked(e, broken), w.mode = "add"
    PROVE  Likely(w.key, w.value)
<1>1. PICK rule \in Run(e, broken) \cap WindowRules : w = Window(rule, e)
  BY DEF Asked
<1>2. rule \in {"RULE-001", "RULE-002", "RULE-003", "RULE-006", "RULE-007"} /\ Applies(rule, e)
  BY <1>1, DetectionAssumption DEF Run
<1>3. CASE rule = "RULE-001"
  <2>1. w.key[1] = "bruteforce"
    BY <1>1, <1>3 DEF Window, BruteForceWindow, Measure, Add
  <2> QED
    BY <2>1 DEF Likely
<1>4. CASE rule = "RULE-002"
  <2>1. w.key = <<"spray", e.source_ip>> /\ w.value = e.username
    BY <1>1, <1>4 DEF Window, SprayWindow, Add
  <2>2. e.event_type \in LoginTypes /\ e.source_ip # None /\ e.username # None
    BY <1>2, <1>4 DEF Applies, SprayApplies, LoginTypes
  <2> QED
    BY <2>1, <2>2 DEF Likely, Harmless
<1>5. CASE rule = "RULE-003"
  <2>1. w.key = <<"portscan", e.source_ip>> /\ w.value = e.destination_port
    BY <1>1, <1>5 DEF Window, ScanWindow, Add
  <2>2. e.event_type \in ScanEvents /\ e.destination_port # <<>>
    BY <1>2, <1>5 DEF Applies, ScanApplies
  <2> QED
    BY <2>1, <2>2 DEF Likely, Harmless
<1>6. CASE rule = "RULE-006"
  <2>1. w.key = <<"exfil", <<e.source_ip, e.destination_ip>>>> /\ w.value = e.bytes_out
    BY <1>1, <1>6 DEF Window, ExfilWindow, Add
  <2>2. e.bytes_out > 0 /\ e.bytes_out \in {0, 1}
    BY <1>2, <1>6 DEF Applies, ExfilApplies, Harmless
  <2> QED
    BY <2>1, <2>2 DEF Likely
<1>7. CASE rule = "RULE-007"
  <2>1. w.key[1] \in {"authgeo_ok", "authgeo_fail"} /\ w.key[2] = e.username /\ w.value = e.source_ip
    BY <1>1, <1>7 DEF Window, GeoWindow, Add
  <2>2. e.event_type \in LoginTypes /\ e.source_ip # None /\ e.username # None
    BY <1>2, <1>7 DEF Applies, GeoApplies, LoginTypes
  <2> QED
    BY <2>1, <2>2 DEF Likely, Harmless
<1> QED
  BY <1>2, <1>3, <1>4, <1>5, <1>6, <1>7

\* A set of so few values has fewer than the rule asks for.
LEMMA Fewer ==
    ASSUME NEW T, IsFiniteSet(T), NEW S, S \subseteq T, NEW max \in Nat, Cardinality(T) < max
    PROVE  Cardinality(S) < max
<1>1. IsFiniteSet(S) /\ Cardinality(S) <= Cardinality(T)
  BY FS_Subset
<1>2. Cardinality(S) \in Nat /\ Cardinality(T) \in Nat
  BY <1>1, FS_CardinalityType
<1> QED
  BY <1>1, <1>2

\* There are finitely many accounts.
LEMMA UsersFinite == IsFiniteSet(Members(Users))
<1>1. Len(Users) \in Nat /\ DOMAIN Users = 1..Len(Users)
  BY BackgroundAssumption
<1>2. IsFiniteSet(1..Len(Users))
  BY <1>1, FS_Interval
<1> DEFINE f == [i \in 1..Len(Users) |-> Users[i]]
<1>3. f \in Surjection(1..Len(Users), Members(Users))
  BY <1>1 DEF Surjection, Members
<1> QED
  BY <1>2, <1>3, FS_Surjection

\* Then every rule but RULE-001 stays quiet.
LEMMA HarmlessIsQuiet ==
    ASSUME NEW e, Harmless(e), NEW rule \in Rules, Applies(rule, e), rule # "RULE-001", NEW W, IsFiniteSet(W),
           rule \in WindowRules => /\ \A m \in W : Likely(Window(rule, e).key, m.value)
                                   /\ Cardinality(W) < Params["RULE-006"].max
    PROVE  Verdict(rule, e, W) = Quiet
<1>0. \A r \in WindowRules : Params[r].max \in Nat
  BY DetectionAssumption
<1>1. CASE rule = "RULE-002"
  <2> DEFINE sharing == {u \in Members(Users) : e.source_ip \in {HomeOf[u], SecondOf[u]}}
  <2>1. rule \in WindowRules /\ Window(rule, e).key = <<"spray", e.source_ip>>
    BY <1>1, DetectionAssumption DEF Window, SprayWindow, Add
  <2>2. Values(W) \ {None} \subseteq sharing
    BY <2>1 DEF Values, Likely, Devices
  <2>3. IsFiniteSet(sharing)
    BY UsersFinite, FS_Subset
  <2>4. CASE Values(W) \ {None} = {}
    <3>1. Cardinality({}) < Params["RULE-002"].max
      BY FS_EmptySet, DetectionAssumption
    <3> QED
      BY <1>1, <2>4, <3>1 DEF Verdict, SprayVerdict
  <2>5. CASE Values(W) \ {None} # {}
    <3>1. e.source_ip \in Addresses
      BY <2>1, <2>5 DEF Values, Likely
    <3>2. Cardinality(sharing) < Params["RULE-002"].max
      BY <3>1, BackgroundAssumption
    <3> HIDE DEF sharing
    <3>3. Params["RULE-002"].max \in Nat
      BY <1>0, <1>1, <2>1
    <3>4. Cardinality(Values(W) \ {None}) < Params["RULE-002"].max
      BY <2>2, <2>3, <3>2, <3>3, Fewer
    <3> QED
      BY <1>1, <3>4 DEF Verdict, SprayVerdict
  <2> QED
    BY <2>4, <2>5
<1>2. CASE rule = "RULE-003"
  <2> DEFINE ports == {<<p>> : p \in FirewallPorts}
  <2>1. rule \in WindowRules /\ Window(rule, e).key = <<"portscan", e.source_ip>>
    BY <1>2, DetectionAssumption DEF Window, ScanWindow, Add
  <2>2. Values(W) \subseteq ports
    BY <2>1 DEF Values, Likely
  <2>3. IsFiniteSet(ports) /\ Cardinality(ports) <= Cardinality(FirewallPorts)
    <3> DEFINE f == [p \in FirewallPorts |-> <<p>>]
    <3>1. f \in Surjection(FirewallPorts, ports)
      BY DEF Surjection
    <3> QED
      BY <3>1, FS_Surjection, BackgroundAssumption
  <2>4. Cardinality(ports) < Params["RULE-003"].max /\ Params["RULE-003"].max \in Nat
    <3>1. Params["RULE-003"].max \in Nat
      BY <1>0, <1>2, <2>1
    <3>2. Cardinality(ports) \in Nat /\ Cardinality(FirewallPorts) \in Nat
      BY <2>3, FS_CardinalityType, BackgroundAssumption
    <3> QED
      BY <2>3, <3>1, <3>2, BackgroundAssumption
  <2> HIDE DEF ports
  <2>5. Cardinality(Values(W)) < Params["RULE-003"].max
    BY <2>2, <2>3, <2>4, Fewer
  <2> QED
    BY <1>2, <2>5 DEF Verdict, ScanVerdict
<1>3. CASE rule = "RULE-004"
  <2>1. EscalationApplies(e)
    BY <1>3 DEF Applies
  <2> QED
    BY <2>1 DEF EscalationApplies, Harmless, Command, LoginTypes
<1>4. CASE rule = "RULE-005"
  <2>1. e.event_type = "db_query"
    BY <1>4 DEF Applies, SqlApplies, Harmless, LoginTypes
  <2>2. e.metadata.query = {"text"} /\ e.metadata.rows_returned = <<120>>
    BY <2>1 DEF Harmless
  <2>3. {"text"} \cap Strong = {} /\ {"text"} \cap Weak = {}
    BY DEF Strong, Weak
  <2>4. LargeRowcount \in Nat /\ 120 < LargeRowcount
    BY BackgroundAssumption
  <2>5. <<120>> # <<>> /\ <<120>>[1] = 120
    OBVIOUS
  <2>6. SqlVerdict(e) = Quiet
    BY <2>2, <2>3, <2>4, <2>5 DEF SqlVerdict
  <2> QED
    BY <1>4, <2>6 DEF Verdict
<1>5. CASE rule = "RULE-006"
  <2>1. rule \in WindowRules /\ Window(rule, e).key[1] = "exfil"
    BY <1>5, DetectionAssumption DEF Window, ExfilWindow, Add
  <2>2. \A m \in W : m.value = 1
    BY <2>1 DEF Likely
  <2>3. Total(W) \in Nat /\ Total(W) <= 1 * Cardinality(W)
    BY <2>2, TotalBounds
  <2>4. Total(W) < Params["RULE-006"].max
    <3>1. Cardinality(W) \in Nat /\ Cardinality(W) < Params["RULE-006"].max /\ Params["RULE-006"].max \in Nat
      BY <1>0, <1>5, <2>1, FS_CardinalityType
    <3> QED
      BY <2>3, <3>1
  <2>5. ExfilVerdict(e, W) = Quiet
    BY Zenon, <2>4 DEF ExfilVerdict, Total
  <2> QED
    BY <1>5, <2>5 DEF Verdict
<1>6. CASE rule = "RULE-007"
  <2> DEFINE user == Window(rule, e).key[2]
  <2>1. rule \in WindowRules /\ Verdict(rule, e, W) = GeoVerdict(e, W)
    BY <1>6, DetectionAssumption DEF Verdict
  <2>2. CASE e.status # "success"
    BY <2>1, <2>2 DEF GeoVerdict
  <2>3. CASE e.status = "success"
    <3>1. Window(rule, e).key = <<"authgeo_ok", e.username>>
      BY <1>6, <2>3 DEF Window, GeoWindow, Add
    <3>2. Values(W) \subseteq Devices(e.username)
      BY <2>1, <3>1 DEF Values, Likely
    <3>3. IsFiniteSet(Devices(e.username)) /\ Cardinality(Devices(e.username)) <= 2
      <4> DEFINE a == HomeOf[e.username]
                 b == SecondOf[e.username]
      <4>1. IsFiniteSet({a}) /\ Cardinality({a}) = 1
        BY FS_Singleton
      <4>2. Devices(e.username) = {a} \cup {b}
        BY DEF Devices
      <4> HIDE DEF a, b
      <4>3. /\ IsFiniteSet({a} \cup {b})
            /\ Cardinality({a} \cup {b}) = IF b \in {a} THEN Cardinality({a}) ELSE Cardinality({a}) + 1
        BY <4>1, FS_AddElement
      <4> QED
        BY <4>1, <4>2, <4>3
    <3>4. Cardinality(Values(W)) < Params["RULE-007"].max
      <4>1. Cardinality(Devices(e.username)) < Params["RULE-007"].max /\ Params["RULE-007"].max \in Nat
        <5>1. Params["RULE-007"].max \in Nat
          BY <1>0, <1>6, <2>1
        <5>2. Cardinality(Devices(e.username)) \in Nat
          BY <3>3, FS_CardinalityType
        <5> QED
          BY <3>3, <5>1, <5>2, BackgroundAssumption
      <4> QED
        BY <3>2, <3>3, <4>1, Fewer
    <3> QED
      BY <2>1, <3>4 DEF GeoVerdict
  <2> QED
    BY <2>2, <2>3
<1> QED
  BY <1>1, <1>2, <1>3, <1>4, <1>5, <1>6 DEF Rules

-----------------------------------------------------------------------------
(* While only background has been evaluated, its windows hold only what it *)
(* leaves there, and no more members than it was given messages.           *)

\* The invariant: what has been evaluated is background; every background message
\* is plain and has an id; no more of them were sent than the budget allows; no
\* window has more members than events were evaluated; the members are likely.
OnlyBackground == \A t \in taken : t.from = "normal"

\* The background messages, sent and evaluated.
Background ==
    {t.of : t \in {u \in taken : u.from = "normal"}}
        \cup {topic[i].n : i \in {j \in 1..Len(topic) : topic[j].from = "normal"}}

Plain ==
    /\ \A i \in 1..Len(topic) : topic[i].from = "normal" =>
         Calm(topic[i].raw) /\ topic[i].raw.event_id # NoId
    /\ \A t \in taken : t.from = "normal" => t.named

Volume ==
    /\ IsFiniteSet(Background)
    /\ Cardinality(Background) + left.normal < Params["RULE-006"].max

Few ==
    /\ IsFiniteSet(taken)
    /\ \A k \in DOMAIN log : IsFiniteSet(log[k]) /\ Cardinality(log[k]) <= Cardinality(taken)

Usual == OnlyBackground => \A k \in DOMAIN log : \A m \in log[k] : Likely(k, m.value)

\* With no id counted twice (IdInv) this is inductive.
QuietInv == IdInv /\ Plain /\ Volume /\ Few /\ Usual /\ BackgroundIsQuiet

\* It holds when nothing has been sent ...
LEMMA InitQuiet == Init => QuietInv
<1> SUFFICES ASSUME Init PROVE QuietInv
  OBVIOUS
<1>0. IsTopic(<<>>) /\ Len(<<>>) = 0
  BY DEF IsTopic
<1>1. IdInv
  BY <1>0, InitTyped DEF Init, IdInv, Numbered, IsQueue, OnlyIdlessCountTwice
<1>2. Plain
  BY <1>0 DEF Init, Plain
<1>3. Volume
  <2>1. Background = {}
    BY <1>0 DEF Init, Background
  <2>2. left.normal \in Nat /\ left.normal < Params["RULE-006"].max
    BY BackgroundAssumption, DetectionAssumption DEF Init, Kinds
  <2> QED
    BY <2>1, <2>2, FS_EmptySet DEF Volume
<1>4. Few
  BY FS_EmptySet DEF Init, Few
<1>5. Usual /\ BackgroundIsQuiet
  BY DEF Init, Usual, BackgroundIsQuiet, Nothing
<1> QED
  BY <1>1, <1>2, <1>3, <1>4, <1>5 DEF QuietInv

\* The invariant of a step that evaluates nothing.
LEMMA StillQuiet ==
    ASSUME QuietInv, UNCHANGED <<taken, log, last>>
    PROVE  Few' /\ Usual' /\ BackgroundIsQuiet'
BY DEF QuietInv, Few, Usual, OnlyBackground, BackgroundIsQuiet

\* The background shrinks, or stays; what it may still send does not grow.
LEMMA VolumeKept ==
    ASSUME Typed, Volume, Background' \subseteq Background, left' \in [Kinds -> Nat], left'.normal <= left.normal
    PROVE  Volume'
<1>1. IsFiniteSet(Background') /\ Cardinality(Background') <= Cardinality(Background)
  BY FS_Subset DEF Volume
<1>2. Cardinality(Background') \in Nat /\ Cardinality(Background) \in Nat
  BY <1>1, FS_CardinalityType DEF Volume
<1>3. left.normal \in Nat /\ left'.normal \in Nat /\ Params["RULE-006"].max \in Nat
  BY DetectionAssumption DEF Typed, Kinds
<1>4. Cardinality(Background') + left'.normal < Params["RULE-006"].max
  BY <1>1, <1>2, <1>3 DEF Volume
<1> QED
  BY <1>1, <1>4 DEF Volume

LEMMA SendPlain ==
    ASSUME Numbered, Plain, NEW raw, NEW from, Send(raw, from), taken' = taken,
           from = "normal" => Calm(raw) /\ raw.event_id # NoId
    PROVE  /\ Plain'
           /\ Background' = IF from = "normal" THEN Background \cup {sends} ELSE Background
<1>1. /\ Len(topic') = Len(topic) + 1 /\ Len(topic) \in Nat
      /\ \A j \in 1..Len(topic) : topic'[j] = topic[j]
      /\ topic'[Len(topic) + 1] = [raw |-> raw, sent |-> clock, n |-> sends, from |-> from]
  BY SendTopic DEF Numbered
<1>2. 1..Len(topic') = 1..Len(topic) \cup {Len(topic) + 1}
  BY <1>1
<1> DEFINE last1 == topic'[Len(topic) + 1]
<1>3. last1.raw = raw /\ last1.n = sends /\ last1.from = from
  BY <1>1
<1>4. Plain'
  BY <1>1, <1>2, <1>3 DEF Plain
<1>5. {topic'[i].n : i \in {j \in 1..Len(topic') : topic'[j].from = "normal"}}
        = {topic[i].n : i \in {j \in 1..Len(topic) : topic[j].from = "normal"}}
            \cup (IF from = "normal" THEN {sends} ELSE {})
  <2> DEFINE old == {j \in 1..Len(topic) : topic[j].from = "normal"}
  <2>1. {j \in 1..Len(topic') : topic'[j].from = "normal"}
          = old \cup (IF from = "normal" THEN {Len(topic) + 1} ELSE {})
    BY <1>1, <1>2, <1>3
  <2>2. \A i \in old : topic'[i].n = topic[i].n
    BY <1>1
  <2> HIDE DEF old
  <2>3. {topic'[i].n : i \in old} = {topic[i].n : i \in old}
    BY <2>2
  <2> QED
    BY <1>3, <2>1, <2>3 DEF old
<1>6. Background' = IF from = "normal" THEN Background \cup {sends} ELSE Background
  BY <1>5 DEF Background
<1> QED
  BY <1>4, <1>6

LEMMA FinishPlain ==
    ASSUME Numbered, Plain, NEW i \in 1..Len(topic), NEW again \in BOOLEAN, NEW faults,
           Finish(i, again, faults), sends' = sends
    PROVE  /\ \A j \in 1..Len(topic') : topic'[j].from = "normal" =>
                Calm(topic'[j].raw) /\ topic'[j].raw.event_id # NoId
           /\ {topic'[j].n : j \in {k \in 1..Len(topic') : topic'[k].from = "normal"}}
                \subseteq {topic[j].n : j \in {k \in 1..Len(topic) : topic[k].from = "normal"}}
<1>1. \A j \in 1..Len(topic') : \E k \in 1..Len(topic) : topic'[j] = topic[k]
  BY FinishNumbered
<1>2. ASSUME NEW j \in 1..Len(topic'), topic'[j].from = "normal"
      PROVE  /\ Calm(topic'[j].raw) /\ topic'[j].raw.event_id # NoId
             /\ topic'[j].n \in {topic[l].n : l \in {k \in 1..Len(topic) : topic[k].from = "normal"}}
  BY <1>1, <1>2 DEF Plain
<1> QED
  BY <1>2

\* An evaluation adds at most one member to each window's history.
LEMMA LogGrows ==
    ASSUME Few, NEW e, NEW broken, NEW mine, Evaluate(e, broken, mine), NEW new, new \notin taken,
           taken' = taken \cup {new}
    PROVE  Few'
<1>1. IsFiniteSet(taken') /\ Cardinality(taken') = Cardinality(taken) + 1 /\ Cardinality(taken) \in Nat
  BY FS_AddElement, FS_CardinalityType DEF Few
<1>2. PICK found : Outcome(found, e, broken) /\ log' = found.log
  BY EvaluationFacts DEF Evaluate
<1>3. ASSUME NEW k \in DOMAIN log'
      PROVE  IsFiniteSet(log'[k]) /\ Cardinality(log'[k]) <= Cardinality(taken')
  <2>1. log'[k] = LogAt(log', k)
    BY DEF LogAt
  <2>2. /\ IsFiniteSet(LogAt(log, k)) /\ Cardinality(LogAt(log, k)) <= Cardinality(taken)
        /\ Cardinality(LogAt(log, k)) \in Nat
    <3>1. CASE k \in DOMAIN log
      BY <3>1, FS_CardinalityType DEF Few, LogAt
    <3>2. CASE k \notin DOMAIN log
      BY <1>1, <3>2, FS_EmptySet DEF LogAt
    <3> QED
      BY <3>1, <3>2
  <2>3. \/ LogAt(log', k) = LogAt(log, k)
        \/ \E m : LogAt(log', k) = LogAt(log, k) \cup {m}
    <3>1. CASE \E w \in Asked(e, broken) : w.key = k
      BY <1>2, <3>1 DEF Outcome, AsksFor
    <3>2. CASE ~\E w \in Asked(e, broken) : w.key = k
      BY <1>2, <3>2 DEF Outcome, LeavesAlone
    <3> QED
      BY <3>1, <3>2
  <2>4. CASE LogAt(log', k) = LogAt(log, k)
    BY <1>1, <2>1, <2>2, <2>4
  <2>5. ASSUME NEW m, LogAt(log', k) = LogAt(log, k) \cup {m}
        PROVE  IsFiniteSet(log'[k]) /\ Cardinality(log'[k]) <= Cardinality(taken')
    <3> DEFINE L == LogAt(log, k)
    <3> HIDE DEF L
    <3>1. /\ IsFiniteSet(L \cup {m})
          /\ Cardinality(L \cup {m}) = IF m \in L THEN Cardinality(L) ELSE Cardinality(L) + 1
      BY <2>2, FS_AddElement DEF L
    <3> QED
      BY <1>1, <2>1, <2>2, <2>5, <3>1 DEF L
  <2> QED
    BY <2>3, <2>4, <2>5
<1> QED
  BY <1>1, <1>3 DEF Few

\* What a detection is made from: the window the rule looked at.
LEMMA Detections ==
    ASSUME NEW e, NEW broken, NEW d \in Evaluation(e, broken).detections
    PROVE  \E W : /\ d[1] \in Run(e, broken) /\ Verdict(d[1], e, W) # Quiet
                  /\ d[1] \in WindowRules => W = Looked(Window(d[1], e), e).members
                  /\ d[1] \notin WindowRules => W = {}
<1> DEFINE run == Run(e, broken)
           asked == {Window(rule, e) : rule \in run \cap WindowRules}
           looks == {[key |-> w.key, rule |-> w.rule, mode |-> w.mode, ts |-> e.timestamp,
                      members |-> Looked(w, e).members] : w \in asked}
           members(rule) == IF rule \in WindowRules
                            THEN (CHOOSE l \in looks : l.rule = rule).members ELSE {}
<1>1. d \in {<<rule, Verdict(rule, e, members(rule))>> : rule \in run} \ (Rules \X {Quiet, "raises"})
  BY DEF Evaluation
<1>2. PICK rule \in run : d = <<rule, Verdict(rule, e, members(rule))>>
  BY <1>1
<1>3. d \notin Rules \X {Quiet, "raises"} /\ rule \in Rules
  BY <1>1 DEF Run
<1>4. Verdict(rule, e, members(rule)) # Quiet
  <2> DEFINE v == Verdict(rule, e, members(rule))
  <2> HIDE DEF v
  <2>1. d = <<rule, v>>
    BY <1>2 DEF v
  <2>2. v # Quiet
    BY <1>3, <2>1
  <2> QED
    BY <2>2 DEF v
<1>5. ASSUME rule \in WindowRules
      PROVE  members(rule) = Looked(Window(rule, e), e).members
  <2>1. Window(rule, e) \in asked /\ Window(rule, e).rule = rule
    BY <1>2, <1>5, WindowFacts
  <2>2. \A w \in asked : w.rule = rule => w = Window(rule, e)
    BY WindowFacts
  <2> DEFINE L == [key |-> Window(rule, e).key, rule |-> Window(rule, e).rule, mode |-> Window(rule, e).mode,
                   ts |-> e.timestamp, members |-> Looked(Window(rule, e), e).members]
  <2>3. L \in looks /\ L.rule = rule
    BY <2>1
  <2>4. \A l \in looks : l.rule = rule => l = L
    <3> SUFFICES ASSUME NEW w \in asked, w.rule = rule
                 PROVE  [key |-> w.key, rule |-> w.rule, mode |-> w.mode, ts |-> e.timestamp,
                         members |-> Looked(w, e).members] = L
      OBVIOUS
    <3> QED
      BY <2>2
  <2>5. (CHOOSE l \in looks : l.rule = rule) = L
    <3> HIDE DEF L, looks
    <3> QED
      BY <2>3, <2>4
  <2>6. L.members = Looked(Window(rule, e), e).members
    OBVIOUS
  <2>7. members(rule) = (CHOOSE l \in looks : l.rule = rule).members
    BY <1>5
  <2> HIDE DEF L, looks, members
  <2> QED
    BY <2>5, <2>6, <2>7
<1> HIDE DEF members
<1> WITNESS members(rule)
<1> QED
  BY <1>2, <1>4, <1>5 DEF members

\* What an evaluation adds is likely if the event is harmless, and then no window
\* it looks at is full enough for a rule but RULE-001.
LEMMA QuietEvaluation ==
    ASSUME QuietInv, NEW i \in 1..InFlight, NEW again \in BOOLEAN,
           NEW broken \in {{}} \cup {{rule} : rule \in Rules}, Process(i, broken, again), IdInv'
    PROVE  Plain' /\ Volume' /\ Few' /\ Usual' /\ BackgroundIsQuiet'
<1>0. Numbered /\ Typed
  BY DEF QuietInv, IdInv
<1>1. i \in 1..Len(topic) /\ sends' = sends /\ Finish(i, again, Cardinality(broken)) /\ Possible(again, Cardinality(broken))
  <2>1. PICK S : topic \in Seq(S)
    BY <1>0 DEF Numbered, IsTopic
  <2> QED
    BY <2>1, DetectionAssumption DEF Process, Deliverable
<1>2. PICK new, e :
        /\ e = Event(i) /\ e.event_id \notin seen /\ Evaluate(e, broken, topic[i].from = "attack")
        /\ taken' = taken \cup {new}
        /\ new.of = topic[i].n /\ new.id = e.event_id /\ new.from = topic[i].from
        /\ (new.named <=> topic[i].raw.event_id # NoId)
  <2>1. PICK e : /\ e = Event(i) /\ e.event_id \notin seen /\ Evaluate(e, broken, topic[i].from = "attack")
                 /\ taken' = taken \cup {[of |-> topic[i].n, nth |-> Cardinality(taken),
                                          from |-> topic[i].from, id |-> e.event_id,
                                           named |-> topic[i].raw.event_id # NoId,
                                           long |-> Overlong \in {e.source, e.username, e.service} \cup e.action]}
    BY DEF Process
  <2> DEFINE new == [of |-> topic[i].n, nth |-> Cardinality(taken),
                     from |-> topic[i].from, id |-> e.event_id,
                     named |-> topic[i].raw.event_id # NoId,
                     long |-> Overlong \in {e.source, e.username, e.service} \cup e.action]
  <2>2. /\ new.of = topic[i].n /\ new.id = e.event_id /\ new.from = topic[i].from
        /\ (new.named <=> topic[i].raw.event_id # NoId)
    OBVIOUS
  <2> HIDE DEF new
  <2>3. taken' = taken \cup {new}
    BY <2>1 DEF new
  <2> QED
    BY <2>1, <2>2, <2>3
<1>3. new \notin taken
  BY <1>0, <1>2 DEF Typed, TypeOK
<1>4. Plain'
  BY <1>0, <1>1, <1>2, FinishPlain DEF QuietInv, Plain
<1>5. Volume'
  <2>1. Background' \subseteq Background
    <3>1. {topic'[j].n : j \in {k \in 1..Len(topic') : topic'[k].from = "normal"}}
            \subseteq {topic[j].n : j \in {k \in 1..Len(topic) : topic[k].from = "normal"}}
      BY <1>0, <1>1, FinishPlain DEF QuietInv
    <3>2. {t.of : t \in {u \in taken' : u.from = "normal"}}
            \subseteq {t.of : t \in {u \in taken : u.from = "normal"}}
                        \cup {topic[j].n : j \in {k \in 1..Len(topic) : topic[k].from = "normal"}}
      BY <1>1, <1>2
    <3> QED
      BY <3>1, <3>2 DEF Background
  <2>2. left' \in [Kinds -> Nat]
    BY <1>0, <1>1, BrokenFacts, FinishTyped DEF Typed
  <2>3. left'.normal = left.normal /\ left.normal \in Nat
    BY <1>0, <1>1 DEF Finish, Typed, Kinds
  <2> QED
    BY <1>0, <2>1, <2>2, <2>3, VolumeKept DEF QuietInv
<1>6. Few'
  BY <1>2, <1>3, LogGrows DEF QuietInv
<1>7. ASSUME OnlyBackground'
      PROVE  /\ OnlyBackground /\ Harmless(e)
             /\ \A k \in DOMAIN log' : \A m \in log'[k] : Likely(k, m.value)
  <2>1. OnlyBackground /\ topic[i].from = "normal"
    BY <1>2, <1>7 DEF OnlyBackground
  <2>2. Harmless(e)
    BY <1>1, <1>2, <2>1, CalmHarmless DEF QuietInv, Plain, Event
  <2>3. ASSUME NEW k \in DOMAIN log', NEW m \in log'[k]
        PROVE  Likely(k, m.value)
    <3>1. CASE k \in DOMAIN log /\ m \in log[k]
      BY <2>1, <3>1 DEF QuietInv, Usual
    <3>2. ASSUME NEW w \in Asked(e, broken), w.mode = "add", w.key = k, m = Member(w, e)
          PROVE  Likely(k, m.value)
      BY <2>2, <3>2, AddsLikely DEF Member
    <3> QED
      BY <1>2, <3>1, <3>2, EvaluateLog
  <2> QED
    BY <2>1, <2>2, <2>3
<1>8. Usual'
  BY <1>7 DEF Usual
<1>9. ASSUME OnlyBackground', NEW d \in last'.detections
      PROVE  d[1] = "RULE-001"
  <2>1. d \in Evaluation(e, broken).detections
    BY <1>2 DEF Evaluate
  <2>2. PICK W : /\ d[1] \in Run(e, broken) /\ Verdict(d[1], e, W) # Quiet
                 /\ d[1] \in WindowRules => W = Looked(Window(d[1], e), e).members
                 /\ d[1] \notin WindowRules => W = {}
    BY <2>1, Detections
  <2>3. d[1] \in Rules /\ Applies(d[1], e)
    BY <2>2 DEF Run
  <2>4. ASSUME d[1] \in WindowRules
        PROVE  /\ IsFiniteSet(W) /\ Cardinality(W) < Params["RULE-006"].max
               /\ \A m \in W : Likely(Window(d[1], e).key, m.value)
    <3> DEFINE w == Window(d[1], e)
    <3>1. w \in Asked(e, broken)
      BY <2>2, <2>4 DEF Asked
    <3>2. PICK found : Outcome(found, e, broken) /\ log' = found.log
      BY <1>2, EvaluationFacts DEF Evaluate
    <3>3. W \subseteq LogAt(log', w.key)
      BY <1>0, <2>2, <2>4, <3>1, <3>2, LookedFacts DEF Outcome, AsksFor
    <3>4. CASE w.key \notin DOMAIN log'
      <4>1. W = {}
        BY <3>3, <3>4 DEF LogAt
      <4> QED
        BY <4>1, FS_EmptySet, DetectionAssumption
    <3>5. CASE w.key \in DOMAIN log'
      <4>1. W \subseteq log'[w.key] /\ IsFiniteSet(log'[w.key])
            /\ Cardinality(log'[w.key]) <= Cardinality(taken') /\ IsFiniteSet(taken')
        BY <1>6, <3>3, <3>5 DEF LogAt, Few
      <4>2. \A m \in W : Likely(w.key, m.value)
        BY <1>7, <1>9, <3>5, <4>1
      <4>3. IsFiniteSet(W) /\ Cardinality(W) <= Cardinality(log'[w.key])
        BY <4>1, FS_Subset
      <4>4. Cardinality(taken') \in Nat /\ Cardinality(taken') < Params["RULE-006"].max
        <5> DEFINE f == [t \in taken' |-> t.of]
        <5>1. f \in Injection(taken', Background')
          <6>1. \A t \in taken' : t.of \in Background'
            BY <1>9 DEF Background, OnlyBackground
          <6>2. \A t, u \in taken' : t.of = u.of => t = u
            BY <1>4, <1>9 DEF IdInv, OnlyIdlessCountTwice, Plain, OnlyBackground
          <6> QED
            BY <6>1, <6>2 DEF Injection, IsInjective
        <5>2. IsFiniteSet(Background') /\ IsFiniteSet(taken')
          BY <1>5, <4>1 DEF Volume
        <5>3. Cardinality(taken') <= Cardinality(Background')
          <6> HIDE DEF f
          <6> QED
            BY <5>1, <5>2, FS_Injection
        <5>4. /\ Cardinality(taken') \in Nat /\ Cardinality(Background') \in Nat /\ left'.normal \in Nat
              /\ Params["RULE-006"].max \in Nat
          BY <5>2, FS_CardinalityType, DetectionAssumption DEF IdInv, Typed, Kinds
        <5> QED
          BY <1>5, <5>3, <5>4 DEF Volume
      <4>5. Cardinality(W) \in Nat /\ Cardinality(log'[w.key]) \in Nat /\ Params["RULE-006"].max \in Nat
        BY <4>1, <4>3, FS_CardinalityType, DetectionAssumption
      <4> QED
        BY <4>1, <4>2, <4>3, <4>4, <4>5
    <3> QED
      BY <3>4, <3>5
  <2>5. IsFiniteSet(W)
    BY <2>2, <2>4, FS_EmptySet
  <2> QED
    BY <1>7, <1>9, <2>2, <2>3, <2>4, <2>5, HarmlessIsQuiet
<1>10. BackgroundIsQuiet'
  BY <1>9 DEF BackgroundIsQuiet, OnlyBackground
<1> QED
  BY <1>4, <1>5, <1>6, <1>8, <1>10

\* ... and every step of the system preserves it.
LEMMA QuietStep == QuietInv /\ [Next]_vars => QuietInv'
<1> SUFFICES ASSUME QuietInv, [Next]_vars PROVE QuietInv'
  OBVIOUS
<1>0. IdInv /\ Numbered /\ Typed /\ IdInv' /\ left' \in [Kinds -> Nat]
  BY IdStep DEF QuietInv, IdInv, Typed
<1>1. ASSUME NEW raw, NEW from, Send(raw, from), UNCHANGED <<taken, log, last>>, from # "normal",
             left'.normal = left.normal
      PROVE  QuietInv'
  <2>1. Plain' /\ Background' = Background
    BY <1>0, <1>1, SendPlain DEF QuietInv
  <2>2. left.normal \in Nat
    BY <1>0 DEF Typed, Kinds
  <2>3. Volume'
    BY <1>0, <1>1, <2>1, <2>2, VolumeKept DEF QuietInv
  <2> QED
    BY <1>0, <1>1, <2>1, <2>3, StillQuiet DEF QuietInv
<1>2. ASSUME UNCHANGED <<topic, taken, log, last>>, left'.normal = left.normal
      PROVE  QuietInv'
  <2>1. Plain' /\ Background' = Background
    BY <1>2 DEF QuietInv, Plain, Background
  <2>2. left.normal \in Nat
    BY <1>0 DEF Typed, Kinds
  <2>3. Volume'
    BY <1>0, <1>2, <2>1, <2>2, VolumeKept DEF QuietInv
  <2> QED
    BY <1>0, <1>2, <2>1, <2>3, StillQuiet DEF QuietInv
<1>3. CASE Tick \/ EmitFails \/ UNCHANGED vars \/ \E name \in Names : Launch(name)
  <2>1. UNCHANGED <<topic, taken, log, last>>
    BY <1>3 DEF Tick, EmitFails, vars, Launch
  <2>2. left'.normal = left.normal
    BY <1>0, <1>3 DEF Tick, EmitFails, vars, Launch, Spend, Typed, Kinds
  <2> QED
    BY <1>2, <2>1, <2>2
<1>4. CASE EmitAttack
  BY <1>1, <1>4 DEF EmitAttack
<1>5. CASE Foreign
  <2>1. left'.normal = left.normal
    BY <1>0, <1>5 DEF Foreign, Spend, Typed, Kinds
  <2>2. PICK raw \in ForeignMessages(clock) : Send(raw, "foreign")
    BY <1>5 DEF Foreign
  <2>3. UNCHANGED <<taken, log, last>>
    BY <1>5 DEF Foreign
  <2> QED
    BY <1>1, <2>1, <2>2, <2>3
<1>6. CASE EmitNormal
  <2>1. PICK x \in NormalEvent(clock) : Send([x EXCEPT !.event_id = Uuid], "normal")
    BY <1>6 DEF EmitNormal
  <2> DEFINE raw == [x EXCEPT !.event_id = Uuid]
  <2>2. Calm(raw)
    BY NormalCalm, CalmWithId
  <2>3. raw.event_id = Uuid
    BY NormalStamped, StampedWithId
  <2>4. raw.event_id # NoId
    BY <2>3 DEF Uuid, NoId
  <2>5. UNCHANGED <<taken, log, last>>
    BY <1>6 DEF EmitNormal
  <2>6. Send(raw, "normal")
    BY <2>1
  <2> HIDE DEF raw
  <2>7. Plain' /\ Background' = Background \cup {sends}
    BY <1>0, <2>2, <2>4, <2>5, <2>6, SendPlain DEF QuietInv
  <2>8. left'.normal = left.normal - 1 /\ left.normal \in Nat /\ left.normal > 0
    BY <1>0, <1>6 DEF EmitNormal, Spend, Typed, Kinds
  <2>9. Volume'
    <3>1. IsFiniteSet(Background) /\ Cardinality(Background) \in Nat /\ Params["RULE-006"].max \in Nat
          /\ Cardinality(Background) + left.normal < Params["RULE-006"].max
      BY FS_CardinalityType, DetectionAssumption DEF QuietInv, Volume
    <3>2. IsFiniteSet(Background') /\ (\/ Cardinality(Background') = Cardinality(Background)
                                       \/ Cardinality(Background') = Cardinality(Background) + 1)
      BY <2>7, <3>1, FS_AddElement
    <3> QED
      BY <2>8, <3>1, <3>2 DEF Volume
  <2> QED
    BY <1>0, <2>5, <2>7, <2>9, StillQuiet DEF QuietInv
<1>7. ASSUME NEW i \in 1..InFlight, NEW again \in BOOLEAN, Reject(i, again) \/ Duplicate(i, again)
      PROVE  QuietInv'
  <2>1. i \in 1..Len(topic) /\ Finish(i, again, 0) /\ UNCHANGED <<sends, taken, log, last>>
    <3>1. PICK S : topic \in Seq(S)
      BY <1>0 DEF Numbered, IsTopic
    <3> QED
      BY <1>7, <3>1, DetectionAssumption DEF Reject, Duplicate, Deliverable
  <2>2. Plain' /\ Background' \subseteq Background
    BY <1>0, <2>1, FinishPlain DEF QuietInv, Plain, Background
  <2>3. left'.normal = left.normal /\ left.normal \in Nat
    BY <1>0, <2>1 DEF Finish, Typed, Kinds
  <2>4. Volume'
    BY <1>0, <2>2, <2>3, VolumeKept DEF QuietInv
  <2> QED
    BY <1>0, <2>1, <2>2, <2>4, StillQuiet DEF QuietInv
<1>8. ASSUME NEW i \in 1..InFlight, NEW again \in BOOLEAN,
             NEW broken \in {{}} \cup {{rule} : rule \in Rules}, Process(i, broken, again)
      PROVE  QuietInv'
  BY <1>0, <1>8, QuietEvaluation DEF QuietInv
<1> QED
  BY <1>3, <1>4, <1>5, <1>6, <1>7, <1>8 DEF Next

(***************************************************************************)
(* Background traffic alone sets off no rule but RULE-001, whatever the    *)
(* accounts, addresses and ports, the order in which workers take it, the  *)
(* detectors that raise and the messages that are read again: normal.py's  *)
(* traffic is below every threshold of detection/rules by construction of  *)
(* its population (models.py:79-93), which BackgroundAssumption states.    *)
(***************************************************************************)
THEOREM BackgroundIsQuietHolds == Spec => []BackgroundIsQuiet
<1>1. QuietInv => BackgroundIsQuiet
  BY DEF QuietInv
<1> QED
  BY <1>1, InitQuiet, QuietStep, PTL DEF Spec

-----------------------------------------------------------------------------
(* An attack: what its messages look like to the rules, and which of them  *)
(* the rule it demonstrates counts.                                        *)

Windowed == {"ssh_brute_force", "credential_attack", "port_scan", "data_exfiltration"}
Launchable == Windowed \cup {"privilege_escalation"}

\* The events of an instance its rule counts, the key it counts them under, and
\* the value that tells two of them apart, if one does.
Aimed(name, raw) ==
    /\ name \in {"ssh_brute_force", "credential_attack"} => raw.event_type = "authentication_failure"
    /\ name = "privilege_escalation" => raw.event_type = "privilege_escalation"
Target(name) ==
    CASE name = "ssh_brute_force" -> <<"bruteforce", AttackIp>>
      [] name = "credential_attack" -> <<"spray", AttackIp>>
      [] name = "port_scan" -> <<"portscan", AttackIp>>
      [] OTHER -> <<"exfil", <<AttackIp, CoerceIp("outside")>>>>
ByValue(name) == name \in {"credential_attack", "port_scan"}
ValueOf(name, raw) ==
    IF name = "credential_attack" THEN Clip(raw.username) ELSE ValidatePort(raw.destination_port)

\* What the rules can see of a message of an instance.
Shot(name, at, raw) ==
    /\ Fields \subseteq DOMAIN raw
    /\ raw.timestamp = At(at) /\ raw.source_ip = AttackIp
    /\ name \in {"ssh_brute_force", "credential_attack"} => raw.event_type \in LoginTypes
    /\ name = "credential_attack" => Clip(raw.username) # None
    /\ name = "port_scan" => raw.event_type \in ScanEvents /\ ValidatePort(raw.destination_port) # <<>>
    /\ name = "privilege_escalation" =>
         raw.event_type \in {"authentication_success", "privilege_escalation"}
    /\ name = "data_exfiltration" =>
         /\ raw.event_type = "network_flow" /\ raw.destination_ip = "outside"
         /\ \E bytes \in Chunk : raw.bytes_out = <<bytes>>

\* The id that send() puts into a message changes none of this.
LEMMA ShotWithId ==
    ASSUME NEW name, NEW at, NEW x, Shot(name, at, x), NEW id
    PROVE  LET y == [x EXCEPT !.event_id = id]
           IN  /\ Shot(name, at, y) /\ y.event_id = id
               /\ Aimed(name, y) <=> Aimed(name, x)
               /\ ValueOf(name, y) = ValueOf(name, x)
<1> DEFINE y == [x EXCEPT !.event_id = id]
<1>1. /\ DOMAIN y = DOMAIN x /\ y.event_type = x.event_type /\ y.bytes_out = x.bytes_out
      /\ y.username = x.username /\ y.source_ip = x.source_ip /\ y.destination_ip = x.destination_ip
      /\ y.destination_port = x.destination_port /\ y.timestamp = x.timestamp /\ y.event_id = id
  BY DEF Shot, Fields
<1> HIDE DEF y
<1>2. /\ Shot(name, at, y) /\ y.event_id = id /\ ValueOf(name, y) = ValueOf(name, x)
      /\ Aimed(name, y) <=> Aimed(name, x)
  BY <1>1 DEF Shot, Aimed, ValueOf
<1> QED
  BY <1>2 DEF y

\* What make_event and the generators of a login fill in.
IsLogin(x, event_type, now, user, ip) ==
    /\ DOMAIN x = Fields /\ x.timestamp = At(now) /\ x.source_ip = ip /\ x.username = user
    /\ x.event_type = event_type

\* A successful and a failed login.
LEMMA LoginFields ==
    ASSUME NEW now, NEW type, NEW user, NEW ip
    PROVE  /\ IsLogin(Login(now, type, TRUE, user, ip), "authentication_success", now, user, ip)
           /\ IsLogin(Login(now, type, FALSE, user, ip), "authentication_failure", now, user, ip)
<1>1. IsLogin(Login(now, type, TRUE, user, ip), "authentication_success", now, user, ip)
  <2> DEFINE m == MakeEvent(now, type, "authentication_success", "success")
             x == [m EXCEPT !.source_ip = ip, !.username = user]
  <2>1. Login(now, type, TRUE, user, ip) = x
    BY DEF Login
  <2>2. DOMAIN m = Fields /\ m.event_type = "authentication_success" /\ m.timestamp = At(now)
    BY MakeFields, MakeStamped DEF Stamped
  <2> HIDE DEF m
  <2>3. /\ DOMAIN x = Fields /\ x.timestamp = At(now) /\ x.source_ip = ip /\ x.username = user
        /\ x.event_type = "authentication_success"
    BY <2>2 DEF Fields
  <2>4. IsLogin(x, "authentication_success", now, user, ip)
    BY <2>3 DEF IsLogin
  <2> HIDE DEF x
  <2> QED
    BY <2>1, <2>4
<1>2. IsLogin(Login(now, type, FALSE, user, ip), "authentication_failure", now, user, ip)
  <2> DEFINE m == MakeEvent(now, type, "authentication_failure", "failure")
             x == [m EXCEPT !.source_ip = ip, !.username = user]
  <2>1. Login(now, type, FALSE, user, ip) = x
    BY DEF Login
  <2>2. DOMAIN m = Fields /\ m.event_type = "authentication_failure" /\ m.timestamp = At(now)
    BY MakeFields, MakeStamped DEF Stamped
  <2> HIDE DEF m
  <2>3. /\ DOMAIN x = Fields /\ x.timestamp = At(now) /\ x.source_ip = ip /\ x.username = user
        /\ x.event_type = "authentication_failure"
    BY <2>2 DEF Fields
  <2>4. IsLogin(x, "authentication_failure", now, user, ip)
    BY <2>3 DEF IsLogin
  <2> HIDE DEF x
  <2> QED
    BY <2>1, <2>4
<1> QED
  BY <1>1, <1>2

\* What the assumptions say of the address and the chunks of an attack.
LEMMA AttackFacts ==
    /\ AttackIp \in Addresses /\ AttackIp # None
    /\ Chunk \subseteq 1..MaxBytes /\ MaxBytes \in Nat
BY AttackAssumption, BackgroundAssumption

\* A chunk of an exfiltration passes validation.
LEMMA ChunkKept ==
    ASSUME NEW bytes \in Chunk
    PROVE  ValidateBytes(<<bytes>>) = bytes /\ bytes \in Nat /\ bytes > 0
<1>1. bytes \in 1..MaxBytes /\ MaxBytes \in Nat
  BY AttackFacts
<1>2. <<bytes>> # <<>> /\ <<bytes>>[1] = bytes
  OBVIOUS
<1>3. ~(bytes < 0) /\ ~(bytes > MaxBytes) /\ bytes \in Nat /\ bytes > 0
  BY <1>1
<1> QED
  BY <1>2, <1>3 DEF ValidateBytes

\* from_raw keeps what makes it a shot, its timestamp among it: the instance was
\* generated before.
LEMMA ShotEvent ==
    ASSUME NEW name, NEW at \in Nat, NEW now \in Nat, at <= now, NEW raw, Shot(name, at, raw), NEW fresh,
           NEW e, e = FromRaw(raw, now, fresh)
    PROVE  /\ e.timestamp = at /\ e.source_ip = AttackIp /\ AttackIp # None
           /\ name \in Launchable => e.event_type = raw.event_type
           /\ e.username = Clip(raw.username) /\ e.destination_port = ValidatePort(raw.destination_port)
           /\ e.destination_ip = CoerceIp(raw.destination_ip) /\ e.bytes_out = ValidateBytes(raw.bytes_out)
<1>1. /\ e.timestamp = NormalizeTimestamp(raw.timestamp, now) /\ e.source_ip = CoerceIp(raw.source_ip)
      /\ e.event_type = CoerceEnum(raw.event_type, EventTypes, "unknown")
      /\ e.username = Clip(raw.username) /\ e.destination_port = ValidatePort(raw.destination_port)
      /\ e.destination_ip = CoerceIp(raw.destination_ip) /\ e.bytes_out = ValidateBytes(raw.bytes_out)
  BY DEF FromRaw
<1>2. e.timestamp = at
  <2>1. e.timestamp = NormalizeTimestamp(At(at), now)
    BY <1>1 DEF Shot
  <2>2. ~(at - now > Day)
    BY DayAssumption
  <2> QED
    BY <2>1, <2>2 DEF NormalizeTimestamp, At
<1>3. e.source_ip = AttackIp /\ AttackIp # None
  BY <1>1, AttackFacts DEF Shot, CoerceIp
<1>4. ASSUME name \in Launchable
      PROVE  e.event_type = raw.event_type
  <2>1. raw.event_type \in EventTypes
    BY <1>4 DEF Shot, Launchable, Windowed, LoginTypes, ScanEvents, EventTypes
  <2> QED
    BY <1>1, <2>1 DEF CoerceEnum
<1> QED
  BY <1>1, <1>2, <1>3, <1>4

\* A scenario with a window is shown by a rule that watches its address.
LEMMA AimFacts ==
    ASSUME NEW name \in Windowed
    PROVE  /\ name \in DOMAIN Demonstrates /\ Demonstrates[name] \in WindowRules
           /\ Demonstrates[name] \in ByAddress /\ Demonstrates[name] \in Rules
           /\ RuleOf(Target(name)) = Demonstrates[name] /\ Owner(Target(name)) = AttackIp
BY DetectionAssumption DEF Windowed, Demonstrates, ByAddress, Rules, RuleOf, Target, Owner

\* Its rule counts it ...
LEMMA ShotCounts ==
    ASSUME NEW name \in Windowed, NEW at \in Nat, NEW now \in Nat, at <= now, NEW raw,
           Shot(name, at, raw), Aimed(name, raw), NEW fresh, NEW e, e = FromRaw(raw, now, fresh)
    PROVE  /\ Applies(Demonstrates[name], e)
           /\ Window(Demonstrates[name], e).key = Target(name)
           /\ Window(Demonstrates[name], e).rule = Demonstrates[name]
           /\ Window(Demonstrates[name], e).mode = "add"
           /\ ByValue(name) => Window(Demonstrates[name], e).value = ValueOf(name, raw)
           /\ name = "credential_attack" => Window(Demonstrates[name], e).value # None
           /\ name = "data_exfiltration" => Window(Demonstrates[name], e).value \in Chunk
<1>1. /\ e.source_ip = AttackIp /\ AttackIp # None /\ e.event_type = raw.event_type
      /\ e.username = Clip(raw.username) /\ e.destination_port = ValidatePort(raw.destination_port)
      /\ e.destination_ip = CoerceIp(raw.destination_ip) /\ e.bytes_out = ValidateBytes(raw.bytes_out)
  <2>1. name \in Launchable
    BY DEF Launchable
  <2> QED
    BY <2>1, ShotEvent
<1>2. CASE name = "ssh_brute_force"
  <2>1. e.event_type = "authentication_failure" /\ Demonstrates[name] = "RULE-001"
    BY <1>1, <1>2 DEF Aimed, Demonstrates
  <2>2. Window(Demonstrates[name], e) = Add("RULE-001", "bruteforce", AttackIp, e.username)
    BY <1>1, <2>1 DEF Window, BruteForceWindow
  <2>3. Applies(Demonstrates[name], e)
    BY <1>1, <2>1 DEF Applies, BruteForceApplies
  <2> QED
    BY <1>2, <2>1, <2>2, <2>3 DEF Add, Target, ByValue
<1>3. CASE name = "credential_attack"
  <2>1. e.event_type = "authentication_failure" /\ Demonstrates[name] = "RULE-002" /\ e.username # None
    BY <1>1, <1>3 DEF Aimed, Demonstrates, Shot
  <2>2. Window(Demonstrates[name], e) = Add("RULE-002", "spray", AttackIp, e.username)
    BY <1>1, <2>1 DEF Window, SprayWindow
  <2>3. Applies(Demonstrates[name], e)
    BY <1>1, <2>1 DEF Applies, SprayApplies
  <2> QED
    BY <1>1, <1>3, <2>1, <2>2, <2>3 DEF Add, Target, ByValue, ValueOf
<1>4. CASE name = "port_scan"
  <2>1. /\ e.event_type \in ScanEvents /\ Demonstrates[name] = "RULE-003" /\ e.destination_port # <<>>
    BY <1>1, <1>4 DEF Aimed, Demonstrates, Shot
  <2>2. Window(Demonstrates[name], e) = Add("RULE-003", "portscan", AttackIp, e.destination_port)
    BY <1>1, <2>1 DEF Window, ScanWindow
  <2>3. Applies(Demonstrates[name], e)
    BY <1>1, <2>1 DEF Applies, ScanApplies
  <2> QED
    BY <1>1, <1>4, <2>1, <2>2, <2>3 DEF Add, Target, ByValue, ValueOf
<1>5. CASE name = "data_exfiltration"
  <2>1. /\ e.event_type = "network_flow" /\ Demonstrates[name] = "RULE-006"
        /\ e.destination_ip = CoerceIp("outside")
    BY <1>1, <1>5 DEF Demonstrates, Shot
  <2>2. PICK bytes \in Chunk : raw.bytes_out = <<bytes>>
    BY <1>5 DEF Shot
  <2>3. Window(Demonstrates[name], e)
          = Add("RULE-006", "exfil", <<AttackIp, CoerceIp("outside")>>, e.bytes_out)
    BY <1>1, <2>1 DEF Window, ExfilWindow
  <2>4. e.bytes_out \in Chunk /\ e.bytes_out > 0
    BY <1>1, <2>2, ChunkKept
  <2>5. Applies(Demonstrates[name], e)
    BY <1>1, <2>1, <2>4 DEF Applies, ExfilApplies, FlowEvents
  <2> QED
    BY <1>5, <2>1, <2>3, <2>4, <2>5 DEF Add, Target, ByValue
<1> QED
  BY <1>2, <1>3, <1>4, <1>5 DEF Windowed

-----------------------------------------------------------------------------
(* How much of it there is: by the values of its events, where the rule    *)
(* counts values, else by their places in the queue.                       *)

\* What a queue still has in store.
AheadOf(name, q) ==
    {IF ByValue(name) THEN ValueOf(name, q[p]) ELSE [form |-> "queued", n |-> Len(q) - p]
        : p \in {r \in 1..Len(q) : Aimed(name, q[r])}}

\* So many are enough.
Suffices(name, need, least) ==
    /\ need \in Nat /\ least \in Nat
    /\ name = "ssh_brute_force" => need >= Params["RULE-001"].max
    /\ name = "credential_attack" => need >= Params["RULE-002"].max
    /\ name = "port_scan" => need >= Params["RULE-003"].max
    /\ name = "privilege_escalation" => need >= 1
    /\ name = "data_exfiltration" =>
         least * need >= Params["RULE-006"].max /\ \A bytes \in Chunk : least <= bytes

\* A queue of one instance: what is not of the spree is at its end.
IsShots(name, now, s) ==
    /\ IsTopic(s)
    /\ \A p \in 1..Len(s) : Shot(name, now, s[p])
    /\ name \in Windowed => \A p \in 1..Len(s) : ~Aimed(name, s[p]) => p = Len(s)

\* There is only so much in a queue.
LEMMA AheadFinite ==
    ASSUME NEW name, NEW q, IsTopic(q)
    PROVE  IsFiniteSet(AheadOf(name, q))
<1> DEFINE P == {r \in 1..Len(q) : Aimed(name, q[r])}
           f == [p \in P |-> IF ByValue(name) THEN ValueOf(name, q[p]) ELSE [form |-> "queued", n |-> Len(q) - p]]
<1>1. IsFiniteSet(1..Len(q))
  BY FS_Interval DEF IsTopic
<1>2. IsFiniteSet(P)
  BY <1>1, FS_Subset
<1>3. f \in Surjection(P, AheadOf(name, q))
  BY DEF Surjection, AheadOf
<1> QED
  BY <1>2, <1>3, FS_Surjection

\* A function of places is a topic.
LEMMA FunctionTopic ==
    ASSUME NEW n \in Nat, NEW s, DOMAIN s = 1..n, s = [i \in 1..n |-> s[i]]
    PROVE  IsTopic(s) /\ Len(s) = n
<1>1. s \in [1..n -> {s[i] : i \in 1..n}]
  OBVIOUS
<1> DEFINE S == {s[i] : i \in 1..n}
<1>2. s \in [1..n -> S]
  BY <1>1
<1> HIDE DEF S
<1> QED
  BY <1>2 DEF IsTopic

\* A spree and, it may be, one more message that is not of it.
LEMMA SpreeShots ==
    ASSUME NEW name, NEW now, NEW n \in Nat, NEW body, NEW x, NEW s, s = body \/ s = Append(body, x),
           IsTopic(body), Len(body) = n, Shot(name, now, x),
           \A i \in 1..n : Shot(name, now, body[i]) /\ Aimed(name, body[i])
    PROVE  /\ IsShots(name, now, s) /\ Len(s) \in Nat /\ 1..n \subseteq 1..Len(s)
           /\ \A p \in 1..n : s[p] = body[p]
<1>1. PICK R : body \in Seq(R)
  BY DEF IsTopic
<1> DEFINE S == R \cup {x}
<1>2. x \in S /\ R \subseteq S
  OBVIOUS
<1> HIDE DEF S
<1>3. body \in Seq(S) /\ Len(body) = n
  BY <1>1, <1>2
<1>4. CASE s = body
  <2>1. IsTopic(s) /\ Len(s) = n
    BY <1>3, <1>4 DEF IsTopic
  <2> QED
    BY <1>4, <2>1 DEF IsShots
<1>5. CASE s = Append(body, x)
  <2>1. /\ s \in Seq(S) /\ Len(s) = n + 1
        /\ \A i \in 1..n : s[i] = body[i]
        /\ s[n + 1] = x
    BY <1>2, <1>3, <1>5
  <2>2. \A p \in 1..Len(s) : p \in 1..n \/ p = n + 1
    BY <2>1
  <2>3. IsTopic(s)
    BY <2>1 DEF IsTopic
  <2>4. 1..n \subseteq 1..Len(s) /\ Len(s) \in Nat
    BY <2>1
  <2>5. IsShots(name, now, s)
    BY <2>1, <2>2, <2>3 DEF IsShots
  <2> QED
    BY <2>1, <2>4, <2>5
<1> QED
  BY <1>4, <1>5

\* As many places as the spree has messages.
LEMMA PlacesAhead ==
    ASSUME NEW name, ~ByValue(name), NEW s, IsTopic(s), NEW a \in Nat, NEW n \in Nat, a <= n + 1, a > 0,
           a..n \subseteq 1..Len(s), \A p \in a..n : Aimed(name, s[p])
    PROVE  Cardinality(AheadOf(name, s)) \in Nat /\ Cardinality(AheadOf(name, s)) >= n - a + 1
<1> DEFINE f == [p \in a..n |-> [form |-> "queued", n |-> Len(s) - p]]
<1>0. Len(s) \in Nat
  BY DEF IsTopic
<1>1. \A p, r \in a..n : f[p] = f[r] => p = r
  <2> SUFFICES ASSUME NEW p \in a..n, NEW r \in a..n, f[p] = f[r] PROVE p = r
    OBVIOUS
  <2>1. f[p].n = Len(s) - p /\ f[r].n = Len(s) - r
    OBVIOUS
  <2>2. Len(s) - p = Len(s) - r
    <3> HIDE DEF f
    <3> QED
      BY <2>1
  <2> QED
    BY <1>0, <2>2
<1>2. \A p \in a..n : f[p] \in AheadOf(name, s)
  BY DEF AheadOf
<1>3. f \in Injection(a..n, AheadOf(name, s))
  <2>1. f \in [a..n -> AheadOf(name, s)]
    BY <1>2
  <2> HIDE DEF f
  <2> QED
    BY <1>1, <2>1 DEF Injection, IsInjective
<1>4. IsFiniteSet(AheadOf(name, s)) /\ IsFiniteSet(a..n) /\ Cardinality(a..n) = n - a + 1
  <2>1. a \in Int /\ n \in Int
    OBVIOUS
  <2>2. IsFiniteSet(a..n) /\ Cardinality(a..n) = IF a > n THEN 0 ELSE n - a + 1
    BY <2>1, FS_Interval
  <2>3. (IF a > n THEN 0 ELSE n - a + 1) = n - a + 1
    OBVIOUS
  <2> QED
    BY <2>2, <2>3, AheadFinite
<1> HIDE DEF f
<1>5. Cardinality(a..n) <= Cardinality(AheadOf(name, s))
  BY <1>3, <1>4, FS_Injection
<1>6. Cardinality(AheadOf(name, s)) \in Nat
  BY <1>4, FS_CardinalityType
<1> QED
  BY <1>4, <1>5, <1>6

\* As many values as it draws.
LEMMA ValuesAhead ==
    ASSUME NEW name, ByValue(name), NEW s, IsTopic(s), NEW n \in Nat, 1..n \subseteq 1..Len(s),
           \A p \in 1..n : Aimed(name, s[p]), NEW V, IsFiniteSet(V),
           \A v \in V : \E p \in 1..n : ValueOf(name, s[p]) = v
    PROVE  Cardinality(AheadOf(name, s)) \in Nat /\ Cardinality(AheadOf(name, s)) >= Cardinality(V)
<1>1. V \subseteq AheadOf(name, s)
  BY DEF AheadOf
<1>2. IsFiniteSet(AheadOf(name, s))
  BY AheadFinite
<1>3. Cardinality(V) <= Cardinality(AheadOf(name, s))
  BY <1>1, <1>2, FS_Subset
<1>4. Cardinality(AheadOf(name, s)) \in Nat /\ Cardinality(V) \in Nat
  BY <1>2, FS_CardinalityType
<1> QED
  BY <1>3, <1>4

\* What a launch puts on the queue, for every loss the budget allows.
Supplies(name, now, s, budget) ==
    /\ IsShots(name, now, s)
    /\ \E need, least : /\ Suffices(name, need, least)
                        /\ Cardinality(AheadOf(name, s)) \in Nat
                        /\ Cardinality(AheadOf(name, s)) >= need + budget.faults

\* A budget's parts are numbers, and so is a rule's threshold.
LEMMA BudgetNat ==
    ASSUME NEW budget \in Budgets
    PROVE  budget.faults \in Nat /\ budget.normal \in Nat /\ budget.launches \in Nat
<1>1. budget \in [Kinds -> Nat]
  BY DetectionAssumption
<1> QED
  BY <1>1 DEF Kinds

LEMMA MaxNat ==
    ASSUME NEW rule \in WindowRules
    PROVE  Params[rule].max \in Nat /\ Params[rule].max > 0
BY DetectionAssumption

\* Each scenario supplies enough, whatever its instance draws.
LEMMA BruteForceSupplies ==
    ASSUME "ssh_brute_force" \in Names, NEW now, NEW s \in Instances("ssh_brute_force", now),
           NEW budget \in Budgets, budget.launches > 0
    PROVE  Supplies("ssh_brute_force", now, s, budget)
<1> DEFINE name == "ssh_brute_force"
           n == Sizes[name]
           user(i) == IF (i - 1) % 3 = 0 THEN "root" ELSE Users[1 + (i % 2)]
           body == [i \in 1..n |-> Login(now, "linux_server", FALSE, user(i), AttackIp)]
           x == Login(now, "linux_server", TRUE, Users[1], AttackIp)
<1>1. n \in Nat
  BY SizesAssumption DEF Names
<1>2. s = body \/ s = Append(body, x)
  BY DEF Instances, SshBruteForce
<1>3. Shot(name, now, x)
  <2>1. IsLogin(x, "authentication_success", now, Users[1], AttackIp)
    BY LoginFields
  <2> HIDE DEF x
  <2> QED
    BY <2>1 DEF IsLogin, Shot, LoginTypes
<1>4. \A i \in 1..n : Shot(name, now, body[i]) /\ Aimed(name, body[i])
  <2> SUFFICES ASSUME NEW i \in 1..n
               PROVE  Shot(name, now, body[i]) /\ Aimed(name, body[i])
    OBVIOUS
  <2> HIDE DEF user
  <2>1. IsLogin(body[i], "authentication_failure", now, user(i), AttackIp)
    BY LoginFields
  <2> HIDE DEF body
  <2> QED
    BY <2>1 DEF IsLogin, Shot, LoginTypes, Aimed
<1>5. IsTopic(body) /\ Len(body) = n
  <2> HIDE DEF user, n
  <2> QED
    BY <1>1, FunctionTopic
<1> HIDE DEF body, x, n, name
<1>6. IsShots(name, now, s) /\ 1..n \subseteq 1..Len(s) /\ \A p \in 1..n : s[p] = body[p]
  <2>1. IsShots(name, now, s)
    BY <1>1, <1>2, <1>3, <1>4, <1>5, SpreeShots
  <2>2. 1..n \subseteq 1..Len(s)
    BY <1>1, <1>2, <1>3, <1>4, <1>5, SpreeShots
  <2>3. \A p \in 1..n : s[p] = body[p]
    BY <1>1, <1>2, <1>3, <1>4, <1>5, SpreeShots
  <2> QED
    BY <2>1, <2>2, <2>3
<1>7. \A p \in 1..n : Aimed(name, s[p])
  BY <1>4, <1>6
<1>8. Cardinality(AheadOf(name, s)) \in Nat /\ Cardinality(AheadOf(name, s)) >= n
  <2>1. ~ByValue(name) /\ IsTopic(s) /\ 1 \in Nat /\ 1 <= n + 1 /\ 1 > 0 /\ n - 1 + 1 = n
    BY <1>1, <1>6 DEF ByValue, IsShots, name
  <2>2. Cardinality(AheadOf(name, s)) \in Nat /\ Cardinality(AheadOf(name, s)) >= n - 1 + 1
    BY <1>1, <1>6, <1>7, <2>1, PlacesAhead
  <2> QED
    BY <2>1, <2>2
<1>9. n >= Params["RULE-001"].max + budget.faults
  BY EnoughAssumption DEF n, name
<1>10. Suffices(name, Params["RULE-001"].max, 0)
  BY MaxNat, DetectionAssumption DEF Suffices, name
<1>11. budget.faults \in Nat /\ Params["RULE-001"].max \in Nat
  BY BudgetNat, MaxNat, DetectionAssumption
<1>12. Cardinality(AheadOf(name, s)) >= Params["RULE-001"].max + budget.faults
  BY <1>1, <1>8, <1>9, <1>11
<1> QED
  BY <1>6, <1>8, <1>10, <1>12 DEF Supplies, name

LEMMA SpraySupplies ==
    ASSUME "credential_attack" \in Names, NEW now, NEW s \in Instances("credential_attack", now),
           NEW budget \in Budgets, budget.launches > 0
    PROVE  Supplies("credential_attack", now, s, budget)
<1> DEFINE name == "credential_attack"
           n == Sizes[name]
           body == [i \in 1..n |-> Login(now, "identity", FALSE, Users[i], AttackIp)]
           x == Login(now, "identity", TRUE, Users[1], AttackIp)
           V == {Users[i] : i \in 1..n}
<1>1. n \in Nat
  BY SizesAssumption DEF Names
<1>2. s = body \/ s = Append(body, x)
  BY DEF Instances, CredentialAttack
<1>3. 1..n \subseteq DOMAIN Users /\ Cardinality(V) >= Params["RULE-002"].max + budget.faults
  BY EnoughAssumption
<1>4. IsFiniteSet(V)
  <2>1. V \subseteq Members(Users)
    BY <1>3 DEF Members
  <2> QED
    BY <2>1, UsersFinite, FS_Subset
<1>5. budget.faults \in Nat /\ Params["RULE-002"].max \in Nat /\ Params["RULE-002"].max > 0
      /\ Cardinality(V) \in Nat
  BY BudgetNat, MaxNat, DetectionAssumption, <1>4, FS_CardinalityType
<1>6. 1 \in 1..n
  <2>1. Cardinality(V) # 0
    BY <1>3, <1>5
  <2>2. V # {}
    BY <2>1, FS_EmptySet
  <2>3. PICK i \in 1..n : TRUE
    BY <2>2
  <2> QED
    BY <1>1, <2>3
<1>7. \A i \in 1..n : Users[i] \in Members(Users) /\ Clip(Users[i]) = Users[i] /\ Users[i] # None
  <2>1. \A i \in 1..n : Users[i] \in Members(Users)
    BY <1>3 DEF Members
  <2> QED
    BY <2>1, AttackAssumption DEF Clip
<1>8. Shot(name, now, x)
  <2>1. IsLogin(x, "authentication_success", now, Users[1], AttackIp)
    BY LoginFields
  <2> HIDE DEF x
  <2> QED
    BY <1>6, <1>7, <2>1 DEF IsLogin, Shot, LoginTypes
<1>9. \A i \in 1..n : Shot(name, now, body[i]) /\ Aimed(name, body[i]) /\ ValueOf(name, body[i]) = Users[i]
  <2> SUFFICES ASSUME NEW i \in 1..n
               PROVE  Shot(name, now, body[i]) /\ Aimed(name, body[i]) /\ ValueOf(name, body[i]) = Users[i]
    OBVIOUS
  <2>1. IsLogin(body[i], "authentication_failure", now, Users[i], AttackIp)
    BY LoginFields
  <2> HIDE DEF body
  <2> QED
    BY <1>7, <2>1 DEF IsLogin, Shot, LoginTypes, Aimed, ValueOf
<1>10. IsTopic(body) /\ Len(body) = n
  <2> HIDE DEF n
  <2> QED
    BY <1>1, FunctionTopic
<1> HIDE DEF body, x, n, name
<1>11. IsShots(name, now, s) /\ 1..n \subseteq 1..Len(s) /\ \A p \in 1..n : s[p] = body[p]
  <2>1. IsShots(name, now, s)
    BY <1>1, <1>2, <1>8, <1>9, <1>10, SpreeShots
  <2>2. 1..n \subseteq 1..Len(s)
    BY <1>1, <1>2, <1>8, <1>9, <1>10, SpreeShots
  <2>3. \A p \in 1..n : s[p] = body[p]
    BY <1>1, <1>2, <1>8, <1>9, <1>10, SpreeShots
  <2> QED
    BY <2>1, <2>2, <2>3
<1>12. \A p \in 1..n : Aimed(name, s[p])
  BY <1>9, <1>11
<1>13. \A v \in V : \E p \in 1..n : ValueOf(name, s[p]) = v
  BY <1>9, <1>11
<1>14. Cardinality(AheadOf(name, s)) \in Nat /\ Cardinality(AheadOf(name, s)) >= Cardinality(V)
  <2>1. ByValue(name) /\ IsTopic(s)
    BY <1>11 DEF ByValue, IsShots, name
  <2> HIDE DEF V
  <2> QED
    BY <1>1, <1>4, <1>11, <1>12, <1>13, <2>1, ValuesAhead
<1>15. Suffices(name, Params["RULE-002"].max, 0)
  BY <1>5 DEF Suffices, name
<1>16. Cardinality(AheadOf(name, s)) >= Params["RULE-002"].max + budget.faults
  <2> HIDE DEF V
  <2> QED
    BY <1>3, <1>5, <1>14
<1> QED
  BY <1>11, <1>14, <1>15, <1>16 DEF Supplies, name

LEMMA ScanSupplies ==
    ASSUME "port_scan" \in Names, NEW now, NEW s \in Instances("port_scan", now),
           NEW budget \in Budgets, budget.launches > 0
    PROVE  Supplies("port_scan", now, s, budget)
<1> DEFINE name == "port_scan"
           n == Sizes[name]
           probe(i) == IF i % 7 = 1 THEN MakeEvent(now, "firewall", "connection_attempt", "failure")
                       ELSE MakeEvent(now, "firewall", "firewall_deny", "denied")
           P == {ScanPorts[i] : i \in 1..n}
           V == {<<ScanPorts[i]>> : i \in 1..n}
<1>1. n \in Nat
  BY SizesAssumption DEF Names
<1>2. s = [i \in 1..n |-> [probe(i) EXCEPT !.source_ip = AttackIp, !.destination_port = <<ScanPorts[i]>>]]
  BY DEF Instances, PortScan
<1>3. 1..n \subseteq DOMAIN ScanPorts /\ Cardinality(P) >= Params["RULE-003"].max + budget.faults
  BY EnoughAssumption
<1>4. \A i \in 1..n : ValidatePort(<<ScanPorts[i]>>) = <<ScanPorts[i]>> /\ <<ScanPorts[i]>> # <<>>
  <2>1. \A i \in 1..n : ValidatePort(<<ScanPorts[i]>>) # <<>>
    BY <1>3, AttackAssumption
  <2> QED
    BY <2>1, PortKept
<1>5. IsTopic(s) /\ Len(s) = n
  <2> HIDE DEF probe, n
  <2>1. DOMAIN s = 1..n
    BY <1>2
  <2>2. s = [i \in 1..n |-> s[i]]
    BY <1>2
  <2> QED
    BY <1>1, <2>1, <2>2, FunctionTopic
<1>6. ASSUME NEW i \in 1..n
      PROVE  Shot(name, now, s[i]) /\ Aimed(name, s[i]) /\ ValueOf(name, s[i]) = <<ScanPorts[i]>>
  <2> DEFINE m == probe(i)
             y == [m EXCEPT !.source_ip = AttackIp, !.destination_port = <<ScanPorts[i]>>]
  <2>1. s[i] = y
    BY <1>2
  <2>2. DOMAIN m = Fields /\ m.event_type \in {"connection_attempt", "firewall_deny"} /\ m.timestamp = At(now)
    <3>1. CASE i % 7 = 1
      <4>1. m = MakeEvent(now, "firewall", "connection_attempt", "failure")
        BY <3>1
      <4> HIDE DEF m
      <4> QED
        BY <4>1, MakeFields, MakeStamped DEF Stamped
    <3>2. CASE i % 7 # 1
      <4>1. m = MakeEvent(now, "firewall", "firewall_deny", "denied")
        BY <3>2
      <4> HIDE DEF m
      <4> QED
        BY <4>1, MakeFields, MakeStamped DEF Stamped
    <3> QED
      BY <3>1, <3>2
  <2> HIDE DEF m
  <2>3. /\ DOMAIN y = Fields /\ y.event_type = m.event_type /\ y.timestamp = m.timestamp
        /\ y.source_ip = AttackIp /\ y.destination_port = <<ScanPorts[i]>>
    BY <2>2 DEF Fields
  <2> HIDE DEF y
  <2> QED
    BY <1>4, <2>1, <2>2, <2>3 DEF Shot, ScanEvents, Aimed, ValueOf
<1> HIDE DEF n, name, P, V
<1>7. IsShots(name, now, s)
  BY <1>1, <1>5, <1>6 DEF IsShots
<1>8. IsFiniteSet(V) /\ IsFiniteSet(P) /\ Cardinality(P) <= Cardinality(V)
  <2>1. IsFiniteSet(1..n)
    BY <1>1, FS_Interval
  <2> DEFINE g == [i \in 1..n |-> <<ScanPorts[i]>>]
             h == [i \in 1..n |-> ScanPorts[i]]
             f == [v \in V |-> v[1]]
  <2>2. g \in Surjection(1..n, V) /\ h \in Surjection(1..n, P)
    BY DEF Surjection, V, P
  <2>3. f \in Surjection(V, P)
    <3>1. \A i \in 1..n : <<ScanPorts[i]>> \in V /\ f[<<ScanPorts[i]>>] = ScanPorts[i]
      BY DEF V
    <3>2. \A v \in V : \E i \in 1..n : v = <<ScanPorts[i]>>
      BY DEF V
    <3>3. f = [v \in V |-> f[v]]
      OBVIOUS
    <3>4. \A i \in 1..n : ScanPorts[i] \in P
      BY DEF P
    <3>5. \A v \in P : \E i \in 1..n : v = ScanPorts[i]
      BY DEF P
    <3> HIDE DEF f, V, P
    <3>6. f \in [V -> P]
      BY <3>1, <3>2, <3>3, <3>4
    <3>7. \A v \in P : \E u \in V : f[u] = v
      BY <3>1, <3>5
    <3> QED
      BY <3>6, <3>7 DEF Surjection
  <2> HIDE DEF f, g, h
  <2>4. IsFiniteSet(V)
    BY <2>1, <2>2, FS_Surjection
  <2> QED
    BY <2>3, <2>4, FS_Surjection
<1>9. \A v \in V : \E p \in 1..n : ValueOf(name, s[p]) = v
  BY <1>6 DEF V
<1>10. Cardinality(AheadOf(name, s)) \in Nat /\ Cardinality(AheadOf(name, s)) >= Cardinality(V)
  <2>1. ByValue(name) /\ 1..n \subseteq 1..Len(s)
    BY <1>5 DEF ByValue, name
  <2> QED
    BY <1>1, <1>5, <1>6, <1>8, <1>9, <2>1, ValuesAhead
<1>11. /\ budget.faults \in Nat /\ Params["RULE-003"].max \in Nat
       /\ Cardinality(V) \in Nat /\ Cardinality(P) \in Nat
  BY BudgetNat, MaxNat, DetectionAssumption, <1>8, FS_CardinalityType
<1>12. Suffices(name, Params["RULE-003"].max, 0)
  BY <1>11 DEF Suffices, name
<1>13. Cardinality(AheadOf(name, s)) >= Params["RULE-003"].max + budget.faults
  BY <1>3, <1>8, <1>10, <1>11
<1> QED
  BY <1>7, <1>10, <1>12, <1>13 DEF Supplies, name

LEMMA EscalationSupplies ==
    ASSUME "privilege_escalation" \in Names, NEW now, NEW s \in Instances("privilege_escalation", now),
           NEW budget \in Budgets, budget.launches > 0
    PROVE  Supplies("privilege_escalation", now, s, budget)
<1> DEFINE name == "privilege_escalation"
           n == Sizes[name]
           login == Login(now, "linux_server", TRUE, Users[1], AttackIp)
           m == MakeEvent(now, "linux_server", "privilege_escalation", "failure")
           y == [m EXCEPT !.source_ip = AttackIp, !.username = Users[1],
                          !.action = {"text", "command"}, !.message = {"text", "command"}]
<1>1. n \in Nat
  BY SizesAssumption DEF Names
<1>2. s = [i \in 1..n |-> IF i = 1 THEN login ELSE y]
  BY DEF Instances, PrivilegeEscalation
<1>3. n >= 2 + budget.faults /\ budget.faults \in Nat
  BY EnoughAssumption, BudgetNat
<1>4. IsTopic(s) /\ Len(s) = n
  <2> HIDE DEF login, y, n
  <2>1. DOMAIN s = 1..n
    BY <1>2
  <2>2. s = [i \in 1..n |-> s[i]]
    BY <1>2
  <2> QED
    BY <1>1, <2>1, <2>2, FunctionTopic
<1>5. Shot(name, now, login)
  <2>1. IsLogin(login, "authentication_success", now, Users[1], AttackIp)
    BY LoginFields
  <2> HIDE DEF login
  <2> QED
    BY <2>1 DEF IsLogin, Shot, LoginTypes
<1>6. Shot(name, now, y) /\ Aimed(name, y)
  <2>1. DOMAIN m = Fields /\ m.event_type = "privilege_escalation" /\ m.timestamp = At(now)
    BY MakeFields, MakeStamped DEF Stamped
  <2> HIDE DEF m
  <2>2. /\ DOMAIN y = Fields /\ y.event_type = m.event_type /\ y.timestamp = m.timestamp
        /\ y.source_ip = AttackIp
    BY <2>1 DEF Fields
  <2> HIDE DEF y
  <2> QED
    BY <2>1, <2>2 DEF Shot, Aimed
<1> HIDE DEF login, y
<1>7. \A i \in 1..n : s[i] \in {login, y} /\ (i # 1 => s[i] = y)
  BY <1>2
<1> HIDE DEF n, name
<1>8. IsShots(name, now, s)
  <2>1. name \notin Windowed
    BY DEF Windowed, name
  <2> QED
    BY <1>1, <1>4, <1>5, <1>6, <1>7, <2>1 DEF IsShots
<1>9. Cardinality(AheadOf(name, s)) \in Nat /\ Cardinality(AheadOf(name, s)) >= n - 2 + 1
  <2>1. ~ByValue(name) /\ 2 \in Nat /\ 2 <= n + 1 /\ 2 > 0 /\ 2..n \subseteq 1..Len(s)
    BY <1>1, <1>3, <1>4 DEF ByValue, name
  <2>2. \A p \in 2..n : Aimed(name, s[p])
    <3>1. \A p \in 2..n : p \in 1..n /\ p # 1
      BY <1>1
    <3> QED
      BY <3>1, <1>6, <1>7
  <2> QED
    BY <1>1, <1>4, <2>1, <2>2, PlacesAhead
<1>10. Suffices(name, 1, 0)
  BY DEF Suffices, name
<1>11. Cardinality(AheadOf(name, s)) >= 1 + budget.faults
  BY <1>1, <1>3, <1>9
<1> QED
  BY <1>8, <1>9, <1>10, <1>11 DEF Supplies, name

LEMMA ExfilSupplies ==
    ASSUME "data_exfiltration" \in Names, NEW now, NEW s \in Instances("data_exfiltration", now),
           NEW budget \in Budgets, budget.launches > 0
    PROVE  Supplies("data_exfiltration", now, s, budget)
<1> DEFINE name == "data_exfiltration"
           n == Sizes[name]
           m == MakeEvent(now, "application", "network_flow", "allowed")
           y(bytes) == [m EXCEPT !.source_ip = AttackIp, !.destination_ip = "outside",
                                 !.destination_port = <<443>>, !.bytes_out = <<bytes>>]
<1>1. n \in Nat
  BY SizesAssumption DEF Names
<1>2. PICK bytes \in Chunk : s = [i \in 1..n |-> y(bytes)]
  BY DEF Instances, DataExfiltration
<1>3. PICK least \in Chunk : /\ \A b \in Chunk : least <= b
                             /\ n >= budget.faults
                             /\ least * (n - budget.faults) >= Params["RULE-006"].max
  BY EnoughAssumption
<1>4. Shot(name, now, y(bytes)) /\ Aimed(name, y(bytes))
  <2> DEFINE x == y(bytes)
  <2>1. DOMAIN m = Fields /\ m.event_type = "network_flow" /\ m.timestamp = At(now)
    BY MakeFields, MakeStamped DEF Stamped
  <2> HIDE DEF m
  <2>2. /\ DOMAIN x = Fields /\ x.event_type = m.event_type /\ x.timestamp = m.timestamp
        /\ x.source_ip = AttackIp /\ x.destination_ip = "outside" /\ x.bytes_out = <<bytes>>
    BY <2>1 DEF Fields
  <2> HIDE DEF x
  <2>3. Shot(name, now, x) /\ Aimed(name, x)
    BY <2>1, <2>2 DEF Shot, Aimed
  <2> QED
    BY <2>3 DEF x
<1> HIDE DEF y
<1>5. IsTopic(s) /\ Len(s) = n
  <2> HIDE DEF n
  <2>1. DOMAIN s = 1..n
    BY <1>2
  <2>2. s = [i \in 1..n |-> s[i]]
    BY <1>2
  <2> QED
    BY <1>1, <2>1, <2>2, FunctionTopic
<1>6. \A i \in 1..n : Shot(name, now, s[i]) /\ Aimed(name, s[i])
  BY <1>2, <1>4
<1> HIDE DEF n, name
<1>7. IsShots(name, now, s)
  BY <1>1, <1>5, <1>6 DEF IsShots
<1>8. Cardinality(AheadOf(name, s)) \in Nat /\ Cardinality(AheadOf(name, s)) >= n - 1 + 1
  <2>1. ~ByValue(name) /\ 1 \in Nat /\ 1 <= n + 1 /\ 1 > 0 /\ 1..n \subseteq 1..Len(s)
    BY <1>1, <1>5 DEF ByValue, name
  <2> QED
    BY <1>1, <1>5, <1>6, <2>1, PlacesAhead
<1>9. budget.faults \in Nat /\ least \in Nat
  BY BudgetNat, ChunkKept
<1>10. n - budget.faults \in Nat
  BY <1>1, <1>3, <1>9
<1>11. Suffices(name, n - budget.faults, least)
  BY <1>3, <1>9, <1>10 DEF Suffices, name
<1>12. Cardinality(AheadOf(name, s)) >= (n - budget.faults) + budget.faults
  BY <1>1, <1>8, <1>9
<1> QED
  BY <1>7, <1>8, <1>11, <1>12 DEF Supplies, name

LEMMA LaunchSupplies ==
    ASSUME NEW name \in Names, name \in Launchable, NEW now, NEW s \in Instances(name, now),
           NEW budget \in Budgets, budget.launches > 0
    PROVE  Supplies(name, now, s, budget)
BY BruteForceSupplies, SpraySupplies, ScanSupplies, EscalationSupplies, ExfilSupplies
   DEF Launchable, Windowed

-----------------------------------------------------------------------------
(* What becomes of the topic when a message is dropped, taken or left to   *)
(* be read again.                                                          *)

\* The id of the n-th send.
Id(n) == [form |-> "uuid", n |-> n]

\* What is not finished stays on the topic.
LEMMA FinishKeeps ==
    ASSUME IsTopic(topic), NEW i, NEW again, NEW faults, i \in 1..Len(topic), Finish(i, again, faults),
           NEW k \in 1..Len(topic), k # i
    PROVE  \E j \in 1..Len(topic') : topic'[j] = topic[k]
<1>1. PICK S : topic \in Seq(S)
  BY DEF IsTopic
<1>2. CASE again
  BY <1>2 DEF Finish
<1>3. CASE ~again
  <2> DEFINE r == SubSeq(topic, 1, i - 1) \o SubSeq(topic, i + 1, Len(topic))
  <2>1. topic' = r
    BY <1>3 DEF Finish
  <2>2. /\ r \in Seq(S) /\ Len(r) = Len(topic) - 1
        /\ \A j \in 1..Len(r) : r[j] = topic[IF j < i THEN j ELSE j + 1]
    BY <1>1, Without1
  <2> HIDE DEF r
  <2>3. Len(topic) \in Nat /\ i \in Nat /\ k \in Nat
    BY <1>1
  <2> DEFINE j == IF k < i THEN k ELSE k - 1
  <2>4. j \in 1..Len(r) /\ (IF j < i THEN j ELSE j + 1) = k
    BY <2>2, <2>3
  <2> HIDE DEF j
  <2>5. r[j] = topic[k]
    BY <2>2, <2>4
  <2> QED
    BY <2>1, <2>4, <2>5
<1> QED
  BY <1>2, <1>3

\* The messages keep their order.
LEMMA FinishOrder ==
    ASSUME IsTopic(topic), NEW i, NEW again, NEW faults, i \in 1..Len(topic), Finish(i, again, faults)
    PROVE  \E f : /\ f \in [1..Len(topic') -> 1..Len(topic)]
                  /\ \A j \in 1..Len(topic') : topic'[j] = topic[f[j]] /\ (again \/ f[j] # i)
                  /\ \A j, l \in 1..Len(topic') : j < l => f[j] < f[l]
<1>1. PICK S : topic \in Seq(S)
  BY DEF IsTopic
<1>2. Len(topic) \in Nat /\ i \in Nat
  BY <1>1
<1>3. IsTopic(topic') /\ Len(topic') \in Nat
  <2>1. IsTopic(topic')
    BY FinishTopic
  <2> QED
    BY <2>1 DEF IsTopic
<1> DEFINE f == [j \in 1..Len(topic') |-> IF again \/ j < i THEN j ELSE j + 1]
<1>4. ASSUME NEW j \in 1..Len(topic')
      PROVE  f[j] \in 1..Len(topic) /\ topic'[j] = topic[f[j]] /\ (again \/ f[j] # i)
  <2>1. f[j] = IF again \/ j < i THEN j ELSE j + 1
    OBVIOUS
  <2> HIDE DEF f
  <2> QED
    BY <1>2, <1>3, <2>1, FinishTopic
<1>5. \A j, l \in 1..Len(topic') : j < l => f[j] < f[l]
  BY <1>2, <1>3
<1>6. f \in [1..Len(topic') -> 1..Len(topic)]
  BY <1>4
<1> QED
  BY <1>4, <1>5, <1>6

\* What process_batch does with a message, and what becomes of one it drops.
Takes(i, e, broken, again, new) ==
    /\ i \in 1..Len(topic) /\ e = Event(i) /\ e.event_id \notin seen
    /\ UNCHANGED <<clock, queue, sends>>
    /\ Evaluate(e, broken, topic[i].from = "attack")
    /\ Finish(i, again, Cardinality(broken)) /\ Possible(again, Cardinality(broken))
    /\ \A rule \in broken : Applies(rule, e)
    /\ \A j \in 1..(i - 1) : PartitionKey(topic[j].raw) # PartitionKey(topic[i].raw)
    /\ seen' = seen \cup {e.event_id}
    /\ taken' = taken \cup {new}
    /\ new.of = topic[i].n /\ new.from = topic[i].from /\ new.id = e.event_id

\* ... and what becomes of one it drops.
Drops(i, again) ==
    /\ i \in 1..Len(topic)
    /\ Accepted(topic[i].raw) => Event(i).event_id \in seen
    /\ Finish(i, again, 0)
    /\ UNCHANGED <<clock, queue, sends, windows, seen, rows, attack, last, log, cuts, taken>>

\* These are the steps of the worker.
LEMMA ProcessTakes ==
    ASSUME IsTopic(topic), NEW i \in 1..InFlight, NEW again \in BOOLEAN, NEW broken, Process(i, broken, again)
    PROVE  \E e, new : Takes(i, e, broken, again, new)
<1>1. PICK S : topic \in Seq(S)
  BY DEF IsTopic
<1>2. i \in 1..Len(topic) /\ \A j \in 1..(i - 1) : PartitionKey(topic[j].raw) # PartitionKey(topic[i].raw)
  BY <1>1, DetectionAssumption DEF Process, Deliverable
<1>3. PICK e : /\ e = Event(i) /\ e.event_id \notin seen /\ Evaluate(e, broken, topic[i].from = "attack")
               /\ \A rule \in broken : Applies(rule, e)
               /\ seen' = seen \cup {e.event_id}
               /\ taken' = taken \cup {[of |-> topic[i].n, nth |-> Cardinality(taken),
                                        from |-> topic[i].from, id |-> e.event_id,
                                         named |-> topic[i].raw.event_id # NoId,
                                         long |-> Overlong \in {e.source, e.username, e.service} \cup e.action]}
  BY DEF Process
<1> DEFINE new == [of |-> topic[i].n, nth |-> Cardinality(taken),
                   from |-> topic[i].from, id |-> e.event_id,
                   named |-> topic[i].raw.event_id # NoId,
                   long |-> Overlong \in {e.source, e.username, e.service} \cup e.action]
<1>4. new.of = topic[i].n /\ new.from = topic[i].from /\ new.id = e.event_id
  OBVIOUS
<1>5. taken' = taken \cup {new}
  BY <1>3
<1> HIDE DEF new
<1>6. /\ UNCHANGED <<clock, queue, sends>> /\ Finish(i, again, Cardinality(broken))
      /\ Possible(again, Cardinality(broken))
  BY DEF Process
<1>7. Takes(i, e, broken, again, new)
  BY <1>2, <1>3, <1>4, <1>5, <1>6 DEF Takes
<1> QED
  BY <1>7

LEMMA DropsIt ==
    ASSUME IsTopic(topic), NEW i \in 1..InFlight, NEW again \in BOOLEAN, Reject(i, again) \/ Duplicate(i, again)
    PROVE  Drops(i, again)
<1>1. PICK S : topic \in Seq(S)
  BY DEF IsTopic
<1>2. i \in 1..Len(topic)
  BY <1>1, DetectionAssumption DEF Reject, Duplicate, Deliverable
<1> QED
  BY <1>2 DEF Reject, Duplicate, Drops

-----------------------------------------------------------------------------
(* The simulator's own messages are known under the numbers of their sends. *)

\* The message of the n-th send has been evaluated.
ReadIn(took, n) == \E t \in took : t.of = n

\* Only the simulator sends, and under ids of its own.
Own ==
    /\ left.foreign = 0
    /\ \A i \in 1..Len(topic) : topic[i].from \in {"attack", "normal"} /\ topic[i].raw.event_id = Id(topic[i].n)
    /\ \A t \in taken : t.from \in {"attack", "normal"} /\ t.id = Id(t.of)
    /\ \A k \in DOMAIN log : \A m \in log[k] : m.n \in seen

\* An event is a duplicate just when its message has been evaluated.
LEMMA OwnEvent ==
    ASSUME IdInv, Own, NEW i \in 1..Len(topic)
    PROVE  /\ Event(i).event_id = Id(topic[i].n)
           /\ Event(i).event_id \in seen <=> ReadIn(taken, topic[i].n)
<1>1. topic[i].raw.event_id = Id(topic[i].n)
  BY DEF Own
<1>2. Event(i).event_id = EventId(topic[i].raw, Cardinality(taken))
  BY DEF Event, FromRaw
<1>3. Event(i).event_id = Id(topic[i].n)
  BY <1>1, <1>2 DEF EventId, Id
<1>4. \A t \in taken : t.id = Id(t.of)
  BY DEF Own
<1>5. \A a, b : Id(a) = Id(b) => a = b
  <2> SUFFICES ASSUME NEW a, NEW b, Id(a) = Id(b) PROVE a = b
    OBVIOUS
  <2>1. Id(a).n = a /\ Id(b).n = b
    BY DEF Id
  <2> QED
    BY <2>1
<1>6. seen = {t.id : t \in taken}
  BY DEF IdInv, Typed, TypeOK
<1> QED
  BY <1>3, <1>4, <1>5, <1>6 DEF ReadIn

\* A send and the end of a batch keep it so, and with them every step.
LEMMA SendOwn ==
    ASSUME IdInv, Own, NEW raw, NEW from \in {"attack", "normal"}, raw.event_id = Uuid, Send(raw, from),
           UNCHANGED <<taken, log, seen>>, left'.foreign = 0
    PROVE  Own'
<1>1. IsTopic(topic)
  BY DEF IdInv, Numbered
<1>2. /\ Len(topic') = Len(topic) + 1 /\ Len(topic) \in Nat
      /\ \A j \in 1..Len(topic) : topic'[j] = topic[j]
      /\ topic'[Len(topic) + 1] = [raw |-> raw, sent |-> clock, n |-> sends, from |-> from]
  BY <1>1, SendTopic
<1> DEFINE m == [raw |-> raw, sent |-> clock, n |-> sends, from |-> from]
<1>3. m.from \in {"attack", "normal"} /\ m.raw.event_id = Id(m.n)
  BY DEF Uuid, Id
<1> HIDE DEF m
<1>4. ASSUME NEW j \in 1..Len(topic')
      PROVE  topic'[j].from \in {"attack", "normal"} /\ topic'[j].raw.event_id = Id(topic'[j].n)
  <2>1. j \in 1..Len(topic) \/ j = Len(topic) + 1
    BY <1>2
  <2> QED
    BY <1>2, <1>3, <2>1 DEF Own, m
<1> QED
  BY <1>4 DEF Own

LEMMA FinishOwn ==
    ASSUME IdInv, Own, NEW i \in 1..Len(topic), NEW again, NEW faults, Finish(i, again, faults)
    PROVE  /\ left'.foreign = 0
           /\ \A j \in 1..Len(topic') :
                topic'[j].from \in {"attack", "normal"} /\ topic'[j].raw.event_id = Id(topic'[j].n)
<1>1. IsTopic(topic)
  BY DEF IdInv, Numbered
<1>2. left'.foreign = 0
  BY DEF Finish, IdInv, Typed, Kinds, Own
<1> QED
  BY <1>1, <1>2, FinishTopic DEF Own

LEMMA OwnStep == IdInv /\ Own /\ [Next]_vars => Own'
<1> SUFFICES ASSUME IdInv, Own, [Next]_vars PROVE Own'
  OBVIOUS
<1>0. IsTopic(topic) /\ left \in [Kinds -> Nat] /\ IsQueue(queue) /\ left.foreign = 0
  BY DEF IdInv, Numbered, Typed, Own
<1>1. CASE Tick \/ EmitFails \/ UNCHANGED vars \/ \E name \in Names : Launch(name)
  <2>1. UNCHANGED <<topic, taken, log, seen>>
    BY <1>1 DEF Tick, EmitFails, vars, Launch
  <2>2. left'.foreign = left.foreign
    BY <1>0, <1>1 DEF Tick, EmitFails, vars, Launch, Spend, Kinds
  <2> QED
    BY <2>1, <2>2 DEF Own
<1>2. CASE EmitAttack
  <2> DEFINE raw == [Head(queue) EXCEPT !.event_id = Uuid]
  <2>1. "event_id" \in DOMAIN Head(queue)
    BY <1>0, <1>2, HeadTail DEF EmitAttack, IsQueue
  <2>2. raw.event_id = Uuid
    BY <2>1
  <2>3. Send(raw, "attack") /\ UNCHANGED <<taken, log, seen, left>>
    BY <1>2 DEF EmitAttack
  <2> HIDE DEF raw
  <2> QED
    BY <1>0, <2>2, <2>3, SendOwn
<1>3. CASE EmitNormal
  <2>1. PICK x \in NormalEvent(clock) : Send([x EXCEPT !.event_id = Uuid], "normal")
    BY <1>3 DEF EmitNormal
  <2> DEFINE raw == [x EXCEPT !.event_id = Uuid]
  <2>2. raw.event_id = Uuid
    BY NormalStamped, StampedWithId
  <2>3. UNCHANGED <<taken, log, seen>> /\ left'.foreign = 0
    BY <1>0, <1>3 DEF EmitNormal, Spend, Kinds
  <2>4. Send(raw, "normal")
    BY <2>1
  <2> HIDE DEF raw
  <2> QED
    BY <2>2, <2>3, <2>4, SendOwn
<1>4. CASE Foreign
  BY <1>0, <1>4 DEF Foreign, Spend
<1>5. ASSUME NEW i \in 1..InFlight, NEW again \in BOOLEAN, Reject(i, again) \/ Duplicate(i, again)
      PROVE  Own'
  <2>1. Drops(i, again)
    BY <1>0, <1>5, DropsIt
  <2> QED
    BY <2>1, FinishOwn DEF Drops, Own
<1>6. ASSUME NEW i \in 1..InFlight, NEW again \in BOOLEAN,
             NEW broken \in {{}} \cup {{rule} : rule \in Rules}, Process(i, broken, again)
      PROVE  Own'
  <2>1. PICK e, new : Takes(i, e, broken, again, new)
    BY <1>0, <1>6, ProcessTakes
  <2>2. e.event_id = Id(topic[i].n)
    BY <2>1, OwnEvent DEF Takes
  <2>3. \A t \in taken' : t.from \in {"attack", "normal"} /\ t.id = Id(t.of)
    BY <2>1, <2>2 DEF Takes, Own
  <2>4. ASSUME NEW k \in DOMAIN log', NEW m \in log'[k]
        PROVE  m.n \in seen'
    <3>1. Evaluate(e, broken, topic[i].from = "attack") /\ seen' = seen \cup {e.event_id}
      BY <2>1 DEF Takes
    <3>2. CASE k \in DOMAIN log /\ m \in log[k]
      BY <3>1, <3>2 DEF Own
    <3>3. ASSUME NEW w \in Asked(e, broken), m = Member(w, e)
          PROVE  m.n \in seen'
      BY <3>1, <3>3 DEF Member
    <3> QED
      BY <3>1, <3>2, <3>3, EvaluateLog
  <2>5. left'.foreign = 0 /\ \A j \in 1..Len(topic') :
          topic'[j].from \in {"attack", "normal"} /\ topic'[j].raw.event_id = Id(topic'[j].n)
    BY <2>1, FinishOwn DEF Takes
  <2> QED
    BY <2>3, <2>4, <2>5 DEF Own
<1> QED
  BY <1>1, <1>2, <1>3, <1>4, <1>5, <1>6 DEF Next

-----------------------------------------------------------------------------
(* What is still to be had of an attack: what is queued, what is unread on *)
(* the topic and what its rule has counted.  Each step moves a label from  *)
(* one part to the next; a fault loses one at most.                        *)

\* An event's label, and those of the unread events.
LabelOf(name, x) == IF ByValue(name) THEN ValueOf(name, x.raw) ELSE x.raw.event_id
IsUnread(name, x, took) == x.from = "attack" /\ Aimed(name, x.raw) /\ ~ReadIn(took, x.n)
UnreadOf(name, top, took) ==
    {LabelOf(name, top[i]) : i \in {j \in 1..Len(top) : IsUnread(name, top[j], took)}}

\* What the rule has counted of the attack, and under which labels.
Marked(took, id) == \E t \in took : t.from = "attack" /\ t.id = id
CaughtIn(name, history, took) ==
    {m \in LogAt(history, Target(name)) : name \in Windowed /\ Marked(took, m.n)}
Tallied(name, m) == IF ByValue(name) THEN m.value ELSE m.n
TallyOf(name, history, took) == {Tallied(name, m) : m \in CaughtIn(name, history, took)}

\* All that is still to be had.
Promise(name, q, top, history, took) ==
    AheadOf(name, q) \cup UnreadOf(name, top, took) \cup TallyOf(name, history, took)

\* Each part of it is finite.
LEMMA CaughtFinite ==
    ASSUME NEW name, NEW history, NEW took, \A k \in DOMAIN history : IsFiniteSet(history[k])
    PROVE  IsFiniteSet(LogAt(history, Target(name))) /\ IsFiniteSet(CaughtIn(name, history, took))
<1>1. IsFiniteSet(LogAt(history, Target(name)))
  BY FS_EmptySet DEF LogAt
<1>2. CaughtIn(name, history, took) \subseteq LogAt(history, Target(name))
  BY DEF CaughtIn
<1> QED
  BY <1>1, <1>2, FS_Subset

LEMMA TallyFinite ==
    ASSUME NEW name, NEW history, NEW took, \A k \in DOMAIN history : IsFiniteSet(history[k])
    PROVE  /\ IsFiniteSet(TallyOf(name, history, took))
           /\ Cardinality(TallyOf(name, history, took)) <= Cardinality(CaughtIn(name, history, took))
<1> DEFINE C == CaughtIn(name, history, took)
           f == [m \in C |-> Tallied(name, m)]
<1>1. IsFiniteSet(C)
  BY CaughtFinite
<1>2. f \in Surjection(C, TallyOf(name, history, took))
  BY DEF Surjection, TallyOf
<1> HIDE DEF f, C
<1>3. IsFiniteSet(TallyOf(name, history, took)) /\ Cardinality(TallyOf(name, history, took)) <= Cardinality(C)
  BY <1>1, <1>2, FS_Surjection
<1> QED
  BY <1>3 DEF C

LEMMA PromiseFinite ==
    ASSUME NEW name, NEW q, NEW top, NEW history, NEW took, IsTopic(q), IsTopic(top),
           \A k \in DOMAIN history : IsFiniteSet(history[k])
    PROVE  IsFiniteSet(Promise(name, q, top, history, took))
<1> DEFINE P == {j \in 1..Len(top) : IsUnread(name, top[j], took)}
           f == [j \in P |-> LabelOf(name, top[j])]
<1>1. IsFiniteSet(1..Len(top))
  BY FS_Interval DEF IsTopic
<1>2. IsFiniteSet(P)
  BY <1>1, FS_Subset
<1>3. f \in Surjection(P, UnreadOf(name, top, took))
  BY DEF Surjection, UnreadOf
<1> HIDE DEF f, P
<1>4. IsFiniteSet(UnreadOf(name, top, took))
  BY <1>2, <1>3, FS_Surjection
<1>5. IsFiniteSet(AheadOf(name, q)) /\ IsFiniteSet(TallyOf(name, history, took))
  BY AheadFinite, TallyFinite
<1>6. IsFiniteSet(AheadOf(name, q) \cup UnreadOf(name, top, took))
  BY <1>4, <1>5, FS_Union
<1> QED
  BY <1>5, <1>6, FS_Union DEF Promise

\* Counting: nothing lost; one lost, and one gained.
LEMMA NoneLost ==
    ASSUME NEW S, NEW T, IsFiniteSet(T), S \subseteq T
    PROVE  Cardinality(S) \in Nat /\ Cardinality(T) \in Nat /\ Cardinality(T) >= Cardinality(S)
<1>1. IsFiniteSet(S) /\ Cardinality(S) <= Cardinality(T)
  BY FS_Subset
<1> QED
  BY <1>1, FS_CardinalityType

LEMMA OneLost ==
    ASSUME NEW S, NEW T, IsFiniteSet(T), NEW a, S \ {a} \subseteq T
    PROVE  Cardinality(S) \in Nat /\ Cardinality(T) \in Nat /\ Cardinality(T) + 1 >= Cardinality(S)
<1>1. IsFiniteSet(T \cup {a}) /\ Cardinality(T \cup {a}) = IF a \in T THEN Cardinality(T) ELSE Cardinality(T) + 1
  BY FS_AddElement
<1>2. S \subseteq T \cup {a}
  OBVIOUS
<1>3. Cardinality(S) \in Nat /\ Cardinality(T \cup {a}) >= Cardinality(S)
  BY <1>1, <1>2, NoneLost
<1>4. Cardinality(T) \in Nat
  BY FS_CardinalityType
<1> QED
  BY <1>1, <1>3, <1>4

LEMMA OneSwapped ==
    ASSUME NEW S, NEW T, IsFiniteSet(T), NEW a, S \ {a} \subseteq T, NEW b \in T, b \notin S
    PROVE  Cardinality(S) \in Nat /\ Cardinality(T) \in Nat /\ Cardinality(T) >= Cardinality(S)
<1>1. IsFiniteSet(T \ {b}) /\ Cardinality(T \ {b}) = Cardinality(T) - 1
  BY FS_RemoveElement
<1>2. S \ {a} \subseteq T \ {b}
  OBVIOUS
<1>3. Cardinality(S) \in Nat /\ Cardinality(T \ {b}) + 1 >= Cardinality(S)
  BY <1>1, <1>2, OneLost
<1>4. Cardinality(T) \in Nat
  BY FS_CardinalityType
<1> QED
  BY <1>1, <1>3, <1>4

\* The head of the queue leaves it.
HeadLabel(name, q) == IF ByValue(name) THEN ValueOf(name, Head(q)) ELSE [form |-> "queued", n |-> Len(q) - 1]

LEMMA AheadOfTail ==
    ASSUME NEW name, NEW q, IsTopic(q), q # <<>>
    PROVE  /\ AheadOf(name, q) \ {HeadLabel(name, q)} \subseteq AheadOf(name, Tail(q))
           /\ ~Aimed(name, Head(q)) => AheadOf(name, q) \subseteq AheadOf(name, Tail(q))
<1>1. PICK S : q \in Seq(S)
  BY DEF IsTopic
<1>2. Len(q) \in Nat /\ Len(Tail(q)) = Len(q) - 1 /\ Head(q) = q[1]
  BY <1>1
<1>3. \A p \in 1..Len(q) : p # 1 => p - 1 \in 1..Len(Tail(q)) /\ Tail(q)[p - 1] = q[p]
  <2> SUFFICES ASSUME NEW p \in 1..Len(q), p # 1
               PROVE  p - 1 \in 1..Len(Tail(q)) /\ Tail(q)[p - 1] = q[p]
    OBVIOUS
  <2>1. p - 1 \in 1..Len(Tail(q)) /\ (p - 1) + 1 = p
    BY <1>2
  <2>2. \A i \in 1..Len(Tail(q)) : Tail(q)[i] = q[i + 1]
    BY HeadTail
  <2> QED
    BY <2>1, <2>2
<1> DEFINE r == Tail(q)
<1> HIDE DEF r
<1>4. ASSUME NEW p \in 1..Len(q), Aimed(name, q[p]), p # 1
      PROVE  (IF ByValue(name) THEN ValueOf(name, q[p]) ELSE [form |-> "queued", n |-> Len(q) - p])
               \in AheadOf(name, r)
  <2>1. p - 1 \in 1..Len(r) /\ r[p - 1] = q[p] /\ Len(r) - (p - 1) = Len(q) - p
    BY <1>2, <1>3, <1>4 DEF r
  <2> QED
    BY <1>4, <2>1 DEF AheadOf
<1>5. ASSUME NEW x \in AheadOf(name, q), ~(x \in AheadOf(name, r))
      PROVE  x = HeadLabel(name, q) /\ Aimed(name, Head(q))
  <2>1. PICK p \in {d \in 1..Len(q) : Aimed(name, q[d])} :
          x = IF ByValue(name) THEN ValueOf(name, q[p]) ELSE [form |-> "queued", n |-> Len(q) - p]
    BY DEF AheadOf
  <2>2. p = 1
    BY <1>4, <1>5, <2>1
  <2> QED
    BY <1>2, <2>1, <2>2 DEF HeadLabel
<1> QED
  BY <1>5 DEF r

\* A message is added to the topic.
LEMMA UnreadSent ==
    ASSUME IdInv, NEW name, NEW raw, NEW from, Send(raw, from), taken' = taken
    PROVE  /\ UnreadOf(name, topic, taken) \subseteq UnreadOf(name, topic', taken')
           /\ from = "attack" /\ Aimed(name, raw) =>
                (IF ByValue(name) THEN ValueOf(name, raw) ELSE raw.event_id) \in UnreadOf(name, topic', taken')
<1>1. IsTopic(topic) /\ sends \in Nat /\ \A t \in taken : t.of \in 0..(sends - 1)
  BY DEF IdInv, Numbered
<1>2. /\ Len(topic') = Len(topic) + 1 /\ Len(topic) \in Nat
      /\ \A j \in 1..Len(topic) : topic'[j] = topic[j]
      /\ topic'[Len(topic) + 1] = [raw |-> raw, sent |-> clock, n |-> sends, from |-> from]
  BY <1>1, SendTopic
<1>3. \A j \in 1..Len(topic) : j \in 1..Len(topic')
  BY <1>2
<1>4. UnreadOf(name, topic, taken) \subseteq UnreadOf(name, topic', taken')
  BY <1>2, <1>3 DEF UnreadOf
<1>5. ASSUME from = "attack", Aimed(name, raw)
      PROVE  (IF ByValue(name) THEN ValueOf(name, raw) ELSE raw.event_id) \in UnreadOf(name, topic', taken')
  <2> DEFINE m == [raw |-> raw, sent |-> clock, n |-> sends, from |-> from]
             k == Len(topic) + 1
  <2>1. m.raw = raw /\ m.n = sends /\ m.from = "attack"
    BY <1>5
  <2>2. k \in 1..Len(topic') /\ topic'[k] = m
    BY <1>2
  <2> HIDE DEF m, k
  <2>3. ~ReadIn(taken', m.n)
    BY <1>1, <2>1 DEF ReadIn
  <2>4. IsUnread(name, topic'[k], taken') /\ LabelOf(name, topic'[k])
                                              = IF ByValue(name) THEN ValueOf(name, raw) ELSE raw.event_id
    BY <1>5, <2>1, <2>2, <2>3 DEF IsUnread, LabelOf
  <2> QED
    BY <2>2, <2>4 DEF UnreadOf
<1> QED
  BY <1>4, <1>5

\* A message is done with, or to be read again.
LEMMA UnreadDone ==
    ASSUME IdInv, NEW name, NEW i \in 1..Len(topic), NEW again, NEW faults, Finish(i, again, faults),
           \A t \in taken' : t \in taken \/ t.of = topic[i].n
    PROVE  /\ UnreadOf(name, topic, taken) \ {LabelOf(name, topic[i])} \subseteq UnreadOf(name, topic', taken')
           /\ ~IsUnread(name, topic[i], taken) =>
                UnreadOf(name, topic, taken) \subseteq UnreadOf(name, topic', taken')
<1>1. IsTopic(topic) /\ \A k \in 1..Len(topic) : topic[k].n = topic[i].n => k = i
  BY DEF IdInv, Numbered
<1>2. ASSUME NEW k \in 1..Len(topic), IsUnread(name, topic[k], taken), k # i
      PROVE  LabelOf(name, topic[k]) \in UnreadOf(name, topic', taken')
  <2>1. PICK j \in 1..Len(topic') : topic'[j] = topic[k]
    BY <1>1, <1>2, FinishKeeps
  <2>2. ~ReadIn(taken', topic[k].n)
    BY <1>1, <1>2 DEF IsUnread, ReadIn
  <2>3. IsUnread(name, topic'[j], taken')
    BY <1>2, <2>1, <2>2 DEF IsUnread
  <2> QED
    BY <2>1, <2>3 DEF UnreadOf
<1>3. ASSUME NEW x \in UnreadOf(name, topic, taken), ~(x \in UnreadOf(name, topic', taken'))
      PROVE  x = LabelOf(name, topic[i]) /\ IsUnread(name, topic[i], taken)
  <2>1. PICK k \in {j \in 1..Len(topic) : IsUnread(name, topic[j], taken)} : x = LabelOf(name, topic[k])
    BY DEF UnreadOf
  <2>2. k = i
    BY <1>2, <1>3, <2>1
  <2> QED
    BY <2>1, <2>2
<1> QED
  BY <1>3

\* What an evaluation adds to the history, key by key.
LEMMA LogAfter ==
    ASSUME NEW e, NEW broken, NEW mine, Evaluate(e, broken, mine), NEW k, NEW m
    PROVE  m \in LogAt(log', k) <=>
             m \in LogAt(log, k) \/ \E w \in Asked(e, broken) : w.mode = "add" /\ w.key = k /\ m = Member(w, e)
<1>1. PICK found : Outcome(found, e, broken) /\ log' = found.log
  BY EvaluationFacts DEF Evaluate
<1>2. CASE \E w \in Asked(e, broken) : w.key = k
  <2>1. PICK w \in Asked(e, broken) : w.key = k
    BY <1>2
  <2>2. LogAt(log', k) = IF w.mode = "add" THEN LogAt(log, k) \cup {Member(w, e)} ELSE LogAt(log, k)
    BY <1>1, <2>1 DEF Outcome, AsksFor
  <2>3. \A v \in Asked(e, broken) : v.key = k => v = w
    BY <2>1, AskedFacts
  <2> QED
    BY <2>1, <2>2, <2>3
<1>3. CASE ~\E w \in Asked(e, broken) : w.key = k
  <2>1. LogAt(log', k) = LogAt(log, k)
    BY <1>1, <1>3 DEF Outcome, LeavesAlone
  <2> QED
    BY <1>3, <2>1
<1> QED
  BY <1>2, <1>3

\* ... and to what has been counted of the attack.
LEMMA CaughtAfter ==
    ASSUME IdInv, Own, NEW name, NEW i, NEW e, NEW broken, NEW again, NEW new, Takes(i, e, broken, again, new)
    PROVE  /\ CaughtIn(name, log, taken) \subseteq CaughtIn(name, log', taken')
           /\ \A m \in CaughtIn(name, log', taken') :
                \/ m \in CaughtIn(name, log, taken)
                \/ /\ topic[i].from = "attack"
                   /\ \E w \in Asked(e, broken) : w.mode = "add" /\ w.key = Target(name) /\ m = Member(w, e)
           /\ \A w \in Asked(e, broken) :
                name \in Windowed /\ topic[i].from = "attack" /\ w.mode = "add" /\ w.key = Target(name)
                  => Member(w, e) \in CaughtIn(name, log', taken')
<1>1. /\ Evaluate(e, broken, topic[i].from = "attack") /\ taken' = taken \cup {new}
      /\ new.from = topic[i].from /\ new.id = e.event_id /\ e.event_id \notin seen
  BY DEF Takes
<1>2. \A t \in taken : t.id \in seen
  BY DEF IdInv, Typed, TypeOK
<1>3. \A m \in LogAt(log, Target(name)) : m.n \in seen
  BY DEF Own, LogAt
<1>4. \A w \in Asked(e, broken) : Member(w, e).n = e.event_id
  BY DEF Member
<1>5. CaughtIn(name, log, taken) \subseteq CaughtIn(name, log', taken')
  BY <1>1, LogAfter DEF CaughtIn, Marked
<1>6. ASSUME NEW m \in CaughtIn(name, log', taken'), ~(m \in CaughtIn(name, log, taken))
      PROVE  /\ topic[i].from = "attack"
             /\ \E w \in Asked(e, broken) : w.mode = "add" /\ w.key = Target(name) /\ m = Member(w, e)
  <2>1. PICK t \in taken' : t.from = "attack" /\ t.id = m.n
    BY DEF CaughtIn, Marked
  <2>2. name \in Windowed /\ m \in LogAt(log', Target(name))
    BY DEF CaughtIn
  <2>3. CASE m \in LogAt(log, Target(name))
    <3>1. t \in taken
      BY <1>1, <1>3, <2>1, <2>3
    <3> QED
      BY <1>6, <2>1, <2>2, <2>3, <3>1 DEF CaughtIn, Marked
  <2>4. CASE ~(m \in LogAt(log, Target(name)))
    <3>1. PICK w \in Asked(e, broken) : w.mode = "add" /\ w.key = Target(name) /\ m = Member(w, e)
      BY <1>1, <2>2, <2>4, LogAfter
    <3>2. t = new
      BY <1>1, <1>2, <1>4, <2>1, <3>1
    <3> QED
      BY <1>1, <2>1, <3>1, <3>2
  <2> QED
    BY <2>3, <2>4
<1>7. ASSUME NEW w \in Asked(e, broken), name \in Windowed, topic[i].from = "attack", w.mode = "add",
             w.key = Target(name)
      PROVE  Member(w, e) \in CaughtIn(name, log', taken')
  <2>1. Member(w, e) \in LogAt(log', Target(name))
    BY <1>1, <1>7, LogAfter
  <2>2. Marked(taken', Member(w, e).n)
    BY <1>1, <1>4, <1>7 DEF Marked
  <2> QED
    BY <1>7, <2>1, <2>2 DEF CaughtIn
<1> QED
  BY <1>5, <1>6, <1>7

-----------------------------------------------------------------------------
(* The course of an attack: the queue drains into the topic, the topic is  *)
(* read, and the window in Redis keeps what has been counted.              *)

\* How long the window lives, whether the rule has fired, and whether the attack's
\* events are evaluated within that time of each other.
Reach(name) == Params[Demonstrates[name]].window + Slack
FiredBy(name, fired) == \E d \in fired : d[1] = Demonstrates[name]
Timely(name) == attack.gap < Reach(name)

\* Its times are in the past.
Times ==
    /\ DOMAIN attack = DOMAIN NoAttack
    /\ attack.at \in Nat /\ attack.evaluated \in Nat /\ attack.gap \in Nat
    /\ attack.at <= clock /\ attack.evaluated <= clock

\* What is queued and unread of it is as the generator made it.
ShotsOf(name) ==
    /\ \A p \in 1..Len(queue) : Shot(name, attack.at, queue[p])
    /\ \A i \in 1..Len(topic) : topic[i].from = "attack" => Shot(name, attack.at, topic[i].raw)

\* What is not of the spree comes after all of it is sent: the breach.
Aside(name, x) == PartitionKey(x.raw) = AttackIp /\ (x.from = "attack" => ~Aimed(name, x.raw))
Begun(took) == \E t \in took : t.from = "attack"
Late(name, top, took, i) ==
    /\ Aside(name, top[i])
    /\ \/ top[i].from = "attack" \/ Begun(took)
       \/ \E j \in 1..(i - 1) : top[j].from = "attack"
Over(q, top, i) == q = <<>> /\ \A j \in (i + 1)..Len(top) : top[j].from # "attack"
InOrder(name) ==
    name \in Windowed =>
    /\ \A p \in 1..Len(queue) : ~Aimed(name, queue[p]) => p = Len(queue)
    /\ \A i \in 1..Len(topic) : Late(name, topic, taken, i) => Over(queue, topic, i)

\* As much is to be had as its rule asks for and may still be lost.
Hope(name, need) ==
    \/ name = "privilege_escalation" /\ FiredBy(name, attack.fired)
    \/ Cardinality(Promise(name, queue, topic, log, taken)) >= need + left.faults

\* What its rule has counted is as it was sent.
CaughtRight(name) ==
    \A m \in CaughtIn(name, log, taken) :
        /\ m.ts = attack.at
        /\ name = "data_exfiltration" => m.value \in Chunk
        /\ name = "credential_attack" => m.value # None

\* Its rule fires once it has counted so much.
Fires(name, need) ==
    name \in Windowed /\ Timely(name) /\ Cardinality(TallyOf(name, log, taken)) >= need
        => FiredBy(name, attack.fired)

\* More of it is to come, and until then the window holds what has been counted.
Waiting(q, top, took) == q # <<>> \/ \E i \in 1..Len(top) : top[i].from = "attack" /\ ~ReadIn(took, top[i].n)
Holds(name, table, C, until) ==
    /\ C \subseteq MembersAt(table, Target(name))
    /\ table[Target(name)].expiry \in Nat /\ table[Target(name)].expiry >= until
Alive(name) ==
    /\ name \in Windowed /\ Timely(name) /\ Waiting(queue, topic, taken)
    /\ CaughtIn(name, log, taken) # {} /\ clock < attack.evaluated + Reach(name)
    => Holds(name, windows, CaughtIn(name, log, taken), attack.evaluated + Reach(name))

\* The background adds nothing to the window of a brute force, and only numbers to
\* that of an exfiltration.
WindowClean(name) ==
    /\ name = "ssh_brute_force" => LogAt(log, Target(name)) \subseteq CaughtIn(name, log, taken)
    /\ name = "data_exfiltration" => \A m \in LogAt(log, Target(name)) : m.value \in Nat

\* An attack under way.
War(name, need) ==
    /\ name \in Launchable \cap Names /\ attack.scenario = name /\ left.launches = 0
    /\ Own /\ Times /\ ShotsOf(name) /\ InOrder(name) /\ CaughtRight(name) /\ WindowClean(name)
    /\ Hope(name, need) /\ Fires(name, need) /\ Alive(name)

LEMMA ReachNat ==
    ASSUME NEW name \in Windowed
    PROVE  /\ Params[Demonstrates[name]].window \in Nat /\ Params[Demonstrates[name]].window > 0
           /\ Slack \in Nat /\ Reach(name) \in Nat
<1>1. Demonstrates[name] \in WindowRules
  BY AimFacts
<1>2. Params[Demonstrates[name]].window \in Nat /\ Params[Demonstrates[name]].window > 0 /\ Slack \in Nat
  BY <1>1, DetectionAssumption
<1> QED
  BY <1>2 DEF Reach

\* What the quiet background's invariant says of the topic and the clock.
LEMMA QuietFacts ==
    ASSUME QuietInv
    PROVE  /\ IdInv /\ IsTopic(topic) /\ IsTopic(queue) /\ left \in [Kinds -> Nat]
           /\ \A k \in DOMAIN log : IsFiniteSet(log[k])
           /\ clock \in Nat /\ sends \in Nat
           /\ \A t \in taken : t.of \in 0..(sends - 1)
           /\ seen = {t.id : t \in taken}
BY DEF QuietInv, IdInv, Typed, TypeOK, Numbered, IsQueue, Few

\* Time passes, and a send fails.
LEMMA WarTick ==
    ASSUME QuietInv, NEW name, NEW need \in Nat, War(name, need), Tick, Own'
    PROVE  War(name, need)'
<1>1. /\ clock \in Nat /\ clock' = clock + 1 /\ UNCHANGED <<queue, topic, attack, log, taken>>
      /\ windows' = [k \in {w \in DOMAIN windows : windows[w].expiry > clock + 1} |-> windows[k]]
      /\ left'.launches = left.launches /\ left'.faults = left.faults
  BY QuietFacts DEF Tick, Spend, Kinds
<1>2. Times' /\ ShotsOf(name)' /\ InOrder(name)' /\ CaughtRight(name)' /\ WindowClean(name)' /\ Hope(name, need)'
      /\ Fires(name, need)' /\ left'.launches = 0 /\ attack'.scenario = name
  BY <1>1 DEF War, Times, ShotsOf, InOrder, CaughtRight, WindowClean, Hope, Fires, Timely
<1>3. Alive(name)'
  <2> DEFINE C == CaughtIn(name, log, taken)
             T == Target(name)
  <2> SUFFICES ASSUME name \in Windowed, Timely(name), Waiting(queue, topic, taken), C # {},
                      clock' < attack.evaluated + Reach(name)
               PROVE  Holds(name, windows', C, attack.evaluated + Reach(name))
    BY <1>1 DEF Alive, Timely
  <2>1. clock < attack.evaluated + Reach(name)
    BY <1>1, ReachNat DEF War, Times
  <2>2. Holds(name, windows, C, attack.evaluated + Reach(name))
    BY <2>1 DEF War, Alive
  <2>3. T \in DOMAIN windows
    BY <2>2 DEF Holds, MembersAt
  <2>4. windows[T].expiry > clock + 1
    BY <1>1, <2>2, ReachNat DEF Holds, War, Times
  <2> HIDE DEF C, T
  <2>5. T \in DOMAIN windows' /\ windows'[T] = windows[T]
    BY <1>1, <2>3, <2>4
  <2> QED
    BY <2>2, <2>3, <2>5 DEF Holds, MembersAt, T
<1> QED
  BY <1>2, <1>3 DEF War

LEMMA WarEmitFails ==
    ASSUME QuietInv, QuietInv', NEW name, NEW need \in Nat, War(name, need), EmitFails, Own'
    PROVE  War(name, need)'
<1>1. /\ queue # <<>> /\ queue' = Tail(queue)
      /\ UNCHANGED <<clock, topic, windows, attack, log, taken>>
      /\ left'.launches = left.launches /\ left.faults \in Nat /\ left.faults > 0 /\ left'.faults = left.faults - 1
  BY QuietFacts DEF EmitFails, Spend, Kinds
<1>2. IsTopic(queue) /\ IsTopic(topic)
  BY QuietFacts
<1> DEFINE rest == Tail(queue)
<1>3. /\ Len(rest) = Len(queue) - 1 /\ Len(queue) \in Nat
      /\ \A p \in 1..Len(rest) : p + 1 \in 1..Len(queue) /\ rest[p] = queue[p + 1]
  <2>1. PICK S : queue \in Seq(S)
    BY <1>2 DEF IsTopic
  <2>2. Len(rest) = Len(queue) - 1 /\ Len(queue) \in Nat
    BY <1>1, <2>1
  <2> QED
    BY <1>1, <1>2, <2>2, HeadTail
<1>4. Times' /\ CaughtRight(name)' /\ WindowClean(name)' /\ Fires(name, need)' /\ left'.launches = 0 /\ attack'.scenario = name
  BY <1>1 DEF War, Times, CaughtRight, WindowClean, Fires, Timely
<1> HIDE DEF rest
<1>5. ShotsOf(name)'
  BY <1>1, <1>3 DEF War, ShotsOf, rest
<1>6. InOrder(name)'
  <2> SUFFICES ASSUME name \in Windowed PROVE InOrder(name)'
    BY DEF InOrder
  <2>1. \A p \in 1..Len(rest) : ~Aimed(name, rest[p]) => p = Len(rest)
    <3> SUFFICES ASSUME NEW p \in 1..Len(rest), ~Aimed(name, rest[p]) PROVE p = Len(rest)
      OBVIOUS
    <3>1. p + 1 = Len(queue)
      BY <1>3 DEF War, InOrder
    <3> QED
      BY <1>3, <3>1
  <2>2. \A i \in 1..Len(topic) : ~Late(name, topic, taken, i)
    BY <1>1 DEF War, InOrder, Over
  <2> QED
    BY <1>1, <2>1, <2>2 DEF InOrder, rest
<1>7. Hope(name, need)'
  <2> DEFINE P == Promise(name, queue, topic, log, taken)
             Q == Promise(name, rest, topic, log, taken)
  <2>1. P \ {HeadLabel(name, queue)} \subseteq Q
    BY <1>1, <1>2, AheadOfTail DEF Promise, rest
  <2>2. IsFiniteSet(Q)
    <3>1. IsTopic(rest)
      BY <1>1, <1>2, HeadTail DEF rest
    <3> QED
      BY <1>2, <3>1, PromiseFinite, QuietFacts
  <2>3. CASE Cardinality(P) >= need + left.faults
    <3> HIDE DEF P, Q
    <3>1. Cardinality(P) \in Nat /\ Cardinality(Q) \in Nat /\ Cardinality(Q) + 1 >= Cardinality(P)
      BY <2>1, <2>2, OneLost
    <3>2. Cardinality(Q) >= need + left'.faults
      BY <1>1, <2>3, <3>1
    <3> QED
      BY <1>1, <3>2 DEF Hope, Q, rest
  <2> QED
    BY <1>1, <2>3 DEF War, Hope
<1>8. Alive(name)'
  BY <1>1 DEF War, Alive, Timely, Waiting
<1> QED
  BY <1>4, <1>5, <1>6, <1>7, <1>8 DEF War

\* The facts of a send.
LEMMA SendFacts ==
    ASSUME QuietInv, NEW raw, NEW from, Send(raw, from)
    PROVE  LET place == Len(topic) + 1
           IN  /\ Len(topic') = place /\ Len(topic) \in Nat
               /\ \A j \in 1..Len(topic) : topic'[j] = topic[j]
               /\ \A j \in 1..Len(topic') : j \in 1..Len(topic) \/ j = place
               /\ place \in 1..Len(topic')
               /\ topic'[place].raw = raw /\ topic'[place].from = from /\ topic'[place].n = sends
               /\ IsTopic(topic')
<1>1. IsTopic(topic)
  BY QuietFacts
<1>2. /\ Len(topic') = Len(topic) + 1 /\ Len(topic) \in Nat /\ IsTopic(topic')
      /\ \A j \in 1..Len(topic) : topic'[j] = topic[j]
      /\ topic'[Len(topic) + 1] = [raw |-> raw, sent |-> clock, n |-> sends, from |-> from]
  BY <1>1, SendTopic
<1>3. \A j \in 1..Len(topic') : j \in 1..Len(topic) \/ j = Len(topic) + 1
  BY <1>2
<1>4. LET m == [raw |-> raw, sent |-> clock, n |-> sends, from |-> from]
      IN  m.raw = raw /\ m.from = from /\ m.n = sends
  OBVIOUS
<1> QED
  BY <1>2, <1>3, <1>4

\* The facts of a queue that is drained by one.
LEMMA TailFacts ==
    ASSUME NEW q, IsTopic(q), q # <<>>
    PROVE  LET rest == Tail(q)
           IN  /\ Len(rest) = Len(q) - 1 /\ Len(q) \in Nat /\ 1 \in 1..Len(q) /\ Head(q) = q[1]
               /\ IsTopic(rest) /\ (Len(q) = 1 => rest = <<>>)
               /\ \A p \in 1..Len(rest) : p + 1 \in 1..Len(q) /\ rest[p] = q[p + 1]
<1>1. PICK S : q \in Seq(S)
  BY DEF IsTopic
<1>2. Len(Tail(q)) = Len(q) - 1 /\ Len(q) \in Nat /\ Tail(q) \in Seq(S)
  BY <1>1
<1>3. Len(q) = 1 => Tail(q) = <<>>
  <2> DEFINE rest == Tail(q)
  <2>1. rest \in Seq(S) /\ Len(rest) = Len(q) - 1
    BY <1>2
  <2> HIDE DEF rest
  <2>2. Len(rest) = 0 => rest = <<>>
    BY <2>1
  <2> QED
    BY <2>1, <2>2 DEF rest
<1> QED
  BY <1>2, <1>3, HeadTail DEF IsTopic

\* A message of the attack, and one of the background, is sent.
LEMMA WarEmitAttack ==
    ASSUME QuietInv, QuietInv', NEW name, NEW need \in Nat, War(name, need), EmitAttack, Own'
    PROVE  War(name, need)'
<1> DEFINE raw == [Head(queue) EXCEPT !.event_id = Uuid]
           rest == Tail(queue)
           k == Len(topic) + 1
<1>1. /\ queue # <<>> /\ queue' = rest /\ Send(raw, "attack")
      /\ UNCHANGED <<clock, windows, attack, log, taken, left>>
  BY DEF EmitAttack
<1>2. IsTopic(queue) /\ IsTopic(topic)
  BY QuietFacts
<1>3. /\ Len(rest) = Len(queue) - 1 /\ Len(queue) \in Nat /\ 1 \in 1..Len(queue) /\ Head(queue) = queue[1]
      /\ IsTopic(rest) /\ (Len(queue) = 1 => rest = <<>>)
      /\ \A p \in 1..Len(rest) : p + 1 \in 1..Len(queue) /\ rest[p] = queue[p + 1]
  BY <1>1, <1>2, TailFacts
<1>4. Shot(name, attack.at, Head(queue))
  BY <1>3 DEF War, ShotsOf
<1>5. /\ Shot(name, attack.at, raw) /\ raw.event_id = Uuid
      /\ Aimed(name, raw) <=> Aimed(name, Head(queue))
      /\ ValueOf(name, raw) = ValueOf(name, Head(queue))
  BY <1>4, ShotWithId
<1> HIDE DEF raw, rest
<1>6. /\ Len(topic') = k /\ Len(topic) \in Nat
      /\ \A j \in 1..Len(topic) : topic'[j] = topic[j]
      /\ \A j \in 1..Len(topic') : j \in 1..Len(topic) \/ j = k
      /\ k \in 1..Len(topic')
      /\ topic'[k].raw = raw /\ topic'[k].from = "attack" /\ topic'[k].n = sends
      /\ IsTopic(topic')
  BY <1>1, SendFacts
<1>7. Times' /\ CaughtRight(name)' /\ WindowClean(name)' /\ Fires(name, need)' /\ left'.launches = 0 /\ attack'.scenario = name
  BY <1>1 DEF War, Times, CaughtRight, WindowClean, Fires, Timely
<1>8. ShotsOf(name)'
  BY <1>1, <1>3, <1>5, <1>6 DEF War, ShotsOf
<1>9. InOrder(name)'
  <2> SUFFICES ASSUME name \in Windowed PROVE InOrder(name)'
    BY DEF InOrder
  <2>1. \A p \in 1..Len(rest) : ~Aimed(name, rest[p]) => p = Len(rest)
    <3> SUFFICES ASSUME NEW p \in 1..Len(rest), ~Aimed(name, rest[p]) PROVE p = Len(rest)
      OBVIOUS
    <3>1. p + 1 = Len(queue)
      BY <1>3 DEF War, InOrder
    <3> QED
      BY <1>3, <3>1
  <2>2. ASSUME NEW i \in 1..Len(topic), Late(name, topic', taken, i) PROVE FALSE
    <3>1. \A j \in 1..(i - 1) : j \in 1..Len(topic)
      BY <1>6
    <3>2. Late(name, topic, taken, i)
      BY <1>6, <2>2, <3>1 DEF Late, Aside
    <3> QED
      BY <1>1, <3>2 DEF War, InOrder, Over
  <2>3. ASSUME Late(name, topic', taken, k) PROVE Over(rest, topic', k)
    <3>1. ~Aimed(name, queue[1])
      BY <1>3, <1>5, <1>6, <2>3 DEF Late, Aside
    <3>2. Len(queue) = 1
      BY <1>3, <3>1 DEF War, InOrder
    <3>3. \A j \in (k + 1)..Len(topic') : FALSE
      BY <1>6
    <3> QED
      BY <1>3, <3>2, <3>3 DEF Over
  <2> QED
    BY <1>1, <1>6, <2>1, <2>2, <2>3 DEF InOrder
<1>10. Hope(name, need)'
  <2> DEFINE P == Promise(name, queue, topic, log, taken)
             Q == Promise(name, rest, topic', log, taken)
             label == IF ByValue(name) THEN ValueOf(name, raw) ELSE raw.event_id
  <2>1. IsFiniteSet(Q)
    BY <1>3, <1>6, PromiseFinite, QuietFacts
  <2>2. /\ UnreadOf(name, topic, taken) \subseteq UnreadOf(name, topic', taken)
        /\ Aimed(name, raw) => label \in UnreadOf(name, topic', taken)
    BY <1>1, QuietFacts, UnreadSent
  <2>3. /\ AheadOf(name, queue) \ {HeadLabel(name, queue)} \subseteq AheadOf(name, rest)
        /\ ~Aimed(name, Head(queue)) => AheadOf(name, queue) \subseteq AheadOf(name, rest)
    BY <1>1, <1>2, AheadOfTail DEF rest
  <2>4. P \ {HeadLabel(name, queue)} \subseteq Q
    BY <2>2, <2>3 DEF Promise
  <2>5. ASSUME ~Aimed(name, raw) \/ ByValue(name)
        PROVE  Cardinality(P) \in Nat /\ Cardinality(Q) \in Nat /\ Cardinality(Q) >= Cardinality(P)
    <3>1. P \subseteq Q
      <4>1. CASE ~Aimed(name, raw)
        BY <1>5, <2>2, <2>3, <4>1 DEF Promise
      <4>2. CASE Aimed(name, raw) /\ ByValue(name)
        <5>1. HeadLabel(name, queue) = label
          BY <1>5, <4>2 DEF HeadLabel
        <5>2. label \in Q
          BY <2>2, <4>2 DEF Promise
        <5> QED
          BY <2>4, <5>1, <5>2
      <4> QED
        BY <2>5, <4>1, <4>2
    <3> HIDE DEF P, Q
    <3> QED
      BY <2>1, <3>1, NoneLost
  <2>6. ASSUME Aimed(name, raw), ~ByValue(name)
        PROVE  Cardinality(P) \in Nat /\ Cardinality(Q) \in Nat /\ Cardinality(Q) >= Cardinality(P)
    <3>1. Uuid \in Q
      BY <1>5, <2>2, <2>6 DEF Promise
    <3>2. Uuid = Id(sends) /\ \A n : Id(n) = Id(sends) => n = sends
      <4>1. \A n : Id(n).n = n
        BY DEF Id
      <4>2. \A n : Id(n) = Id(sends) => n = sends
        BY <4>1
      <4> QED
        BY <4>2 DEF Uuid, Id
    <3>3. \A n \in 0..(sends - 1) : n # sends
      BY QuietFacts
    <3>4. Uuid \notin AheadOf(name, queue)
      <4> SUFFICES ASSUME NEW p \in 1..Len(queue), Uuid = [form |-> "queued", n |-> Len(queue) - p]
                   PROVE FALSE
        BY <2>6 DEF AheadOf
      <4>1. Uuid.form = "uuid" /\ Uuid.form = "queued"
        BY DEF Uuid
      <4> QED
        BY <4>1
    <3>5. Uuid \notin UnreadOf(name, topic, taken)
      <4> SUFFICES ASSUME NEW j \in 1..Len(topic), Uuid = topic[j].raw.event_id
                   PROVE FALSE
        BY <2>6 DEF UnreadOf, LabelOf
      <4>1. Uuid = Id(topic[j].n) /\ topic[j].n \in 0..(sends - 1)
        BY QuietFacts DEF War, Own, IdInv, Numbered
      <4> QED
        BY <3>2, <3>3, <4>1
    <3>6. Uuid \notin TallyOf(name, log, taken)
      <4> SUFFICES ASSUME NEW m \in CaughtIn(name, log, taken), Uuid = m.n
                   PROVE FALSE
        BY <2>6 DEF TallyOf, Tallied
      <4>1. PICK t \in taken : t.id = m.n
        BY DEF CaughtIn, Marked
      <4>2. Uuid = Id(t.of) /\ t.of \in 0..(sends - 1)
        BY <4>1, QuietFacts DEF War, Own
      <4> QED
        BY <3>2, <3>3, <4>2
    <3>7. Uuid \notin P
      BY <3>4, <3>5, <3>6 DEF Promise
    <3> HIDE DEF P, Q
    <3> QED
      BY <2>1, <2>4, <3>1, <3>7, OneSwapped
  <2>7. Cardinality(P) \in Nat /\ Cardinality(Q) \in Nat /\ Cardinality(Q) >= Cardinality(P)
    BY <2>5, <2>6
  <2>8. CASE Cardinality(P) >= need + left.faults
    <3> HIDE DEF P, Q
    <3>1. left.faults \in Nat
      BY QuietFacts DEF Kinds
    <3>2. Cardinality(Q) >= need + left.faults
      BY <2>7, <2>8, <3>1
    <3> QED
      BY <1>1, <3>2 DEF Hope, Q
  <2> QED
    BY <1>1, <2>8 DEF War, Hope
<1>11. Alive(name)'
  BY <1>1 DEF War, Alive, Timely, Waiting
<1> QED
  BY <1>1, <1>7, <1>8, <1>9, <1>10, <1>11 DEF War

LEMMA WarEmitNormal ==
    ASSUME QuietInv, QuietInv', NEW name, NEW need \in Nat, War(name, need), EmitNormal, Own'
    PROVE  War(name, need)'
<1> DEFINE k == Len(topic) + 1
<1>0. PICK x \in NormalEvent(clock) : Send([x EXCEPT !.event_id = Uuid], "normal")
  BY DEF EmitNormal
<1> DEFINE raw == [x EXCEPT !.event_id = Uuid]
<1>1. /\ queue = <<>> /\ queue' = queue /\ Send(raw, "normal")
      /\ UNCHANGED <<clock, windows, attack, log, taken>>
      /\ left'.launches = left.launches /\ left'.faults = left.faults
  BY <1>0, QuietFacts DEF EmitNormal, Spend, Kinds
<1> HIDE DEF raw
<1>2. IsTopic(queue) /\ IsTopic(topic)
  BY QuietFacts
<1>3. /\ Len(topic') = k /\ Len(topic) \in Nat
      /\ \A j \in 1..Len(topic) : topic'[j] = topic[j]
      /\ \A j \in 1..Len(topic') : j \in 1..Len(topic) \/ j = k
      /\ topic'[k].from = "normal"
      /\ IsTopic(topic')
  BY <1>1, SendFacts
<1>4. Times' /\ CaughtRight(name)' /\ WindowClean(name)' /\ Fires(name, need)' /\ left'.launches = 0 /\ attack'.scenario = name
  BY <1>1 DEF War, Times, CaughtRight, WindowClean, Fires, Timely
<1>5. ShotsOf(name)'
  BY <1>1, <1>3 DEF War, ShotsOf
<1>6. InOrder(name)'
  <2> SUFFICES ASSUME name \in Windowed PROVE InOrder(name)'
    BY DEF InOrder
  <2>1. \A p \in 1..Len(queue) : ~Aimed(name, queue[p]) => p = Len(queue)
    BY DEF War, InOrder
  <2>2. ASSUME NEW i \in 1..Len(topic), Late(name, topic', taken, i) PROVE Over(queue, topic', i)
    <3>1. \A j \in 1..(i - 1) : j \in 1..Len(topic)
      BY <1>3
    <3>2. Late(name, topic, taken, i)
      BY <1>3, <2>2, <3>1 DEF Late, Aside
    <3>3. Over(queue, topic, i)
      BY <3>2 DEF War, InOrder
    <3>4. \A j \in (i + 1)..Len(topic') : j \in (i + 1)..Len(topic) \/ j = k
      BY <1>3
    <3> QED
      BY <1>3, <3>3, <3>4 DEF Over
  <2>3. Over(queue, topic', k)
    <3>1. \A j \in (k + 1)..Len(topic') : FALSE
      BY <1>3
    <3> QED
      BY <1>1, <3>1 DEF Over
  <2> QED
    BY <1>1, <1>3, <2>1, <2>2, <2>3 DEF InOrder
<1>7. Hope(name, need)'
  <2> DEFINE P == Promise(name, queue, topic, log, taken)
             Q == Promise(name, queue, topic', log, taken)
  <2>1. IsFiniteSet(Q)
    BY <1>2, <1>3, PromiseFinite, QuietFacts
  <2>2. P \subseteq Q
    <3>1. UnreadOf(name, topic, taken) \subseteq UnreadOf(name, topic', taken)
      BY <1>1, QuietFacts, UnreadSent
    <3> QED
      BY <3>1 DEF Promise
  <2>3. CASE Cardinality(P) >= need + left.faults
    <3> HIDE DEF P, Q
    <3>1. left.faults \in Nat
      BY QuietFacts DEF Kinds
    <3>2. Cardinality(Q) >= need + left.faults
      BY <2>1, <2>2, <2>3, <3>1, NoneLost
    <3> QED
      BY <1>1, <3>2 DEF Hope, Q
  <2> QED
    BY <1>1, <2>3 DEF War, Hope
<1>8. Alive(name)'
  <2>1. Waiting(queue, topic', taken) => Waiting(queue, topic, taken)
    BY <1>3 DEF Waiting
  <2> QED
    BY <1>1, <2>1 DEF War, Alive, Timely
<1> QED
  BY <1>4, <1>5, <1>6, <1>7, <1>8 DEF War

-----------------------------------------------------------------------------
(* A message that is dropped.                                              *)

\* The messages of the attack have one partition key.
LEMMA ShotKey ==
    ASSUME NEW name, NEW at, NEW raw, Shot(name, at, raw)
    PROVE  PartitionKey(raw) = AttackIp
BY AttackFacts DEF Shot, PartitionKey

\* What is left on the topic is still in order.
LEMMA FinishShape ==
    ASSUME QuietInv, NEW name, NEW need, War(name, need), NEW i \in 1..Len(topic), NEW again, NEW faults,
           Finish(i, again, faults), queue' = queue, attack'.at = attack.at,
           \/ Begun(taken') => Begun(taken)
           \/ /\ topic[i].from = "attack"
              /\ \A j \in 1..(i - 1) : PartitionKey(topic[j].raw) # PartitionKey(topic[i].raw)
    PROVE  ShotsOf(name)' /\ InOrder(name)'
<1>1. IsTopic(topic)
  BY QuietFacts
<1>2. PICK f : /\ f \in [1..Len(topic') -> 1..Len(topic)]
               /\ \A j \in 1..Len(topic') : topic'[j] = topic[f[j]] /\ (again \/ f[j] # i)
               /\ \A j, l \in 1..Len(topic') : j < l => f[j] < f[l]
  BY <1>1, FinishOrder
<1>3. Len(topic) \in Nat /\ Len(topic') \in Nat
  <2>1. IsTopic(topic')
    BY <1>1, FinishTopic
  <2> QED
    BY <1>1, <2>1 DEF IsTopic
<1>4. ShotsOf(name)'
  BY <1>2 DEF War, ShotsOf
<1>5. InOrder(name)'
  <2> SUFFICES ASSUME name \in Windowed, NEW j \in 1..Len(topic'), Late(name, topic', taken', j)
               PROVE  Over(queue, topic', j)
    BY DEF War, InOrder
  <2> DEFINE k == f[j]
  <2>1. k \in 1..Len(topic) /\ topic'[j] = topic[k]
    BY <1>2
  <2>2. PartitionKey(topic[k].raw) = AttackIp /\ Aside(name, topic[k])
    BY <2>1 DEF Late, Aside
  <2>3. ASSUME \E l \in 1..(j - 1) : topic'[l].from = "attack"
        PROVE  Late(name, topic, taken, k)
    <3>1. PICK l \in 1..(j - 1) : topic'[l].from = "attack"
      BY <2>3
    <3>2. l \in 1..Len(topic') /\ l < j
      BY <1>3
    <3>3. f[l] \in 1..Len(topic) /\ f[l] < f[j] /\ topic[f[l]].from = "attack"
      BY <1>2, <3>1, <3>2
    <3>4. f[l] \in 1..(k - 1)
      BY <1>3, <2>1, <3>3
    <3> HIDE DEF k
    <3> QED
      BY <2>2, <3>3, <3>4 DEF Late
  <2>4. ASSUME topic'[j].from = "attack"
        PROVE  Late(name, topic, taken, k)
    BY <2>1, <2>2, <2>4 DEF Late
  <2>5. ASSUME Begun(taken')
        PROVE  Late(name, topic, taken, k)
    <3>1. CASE Begun(taken)
      BY <2>2, <3>1 DEF Late
    <3>2. CASE /\ topic[i].from = "attack"
               /\ \A l \in 1..(i - 1) : PartitionKey(topic[l].raw) # PartitionKey(topic[i].raw)
      <4>1. PartitionKey(topic[i].raw) = AttackIp
        BY <3>2, ShotKey DEF War, ShotsOf
      <4>2. k >= i
        <5> HIDE DEF k
        <5>1. ~(k \in 1..(i - 1))
          BY <2>2, <3>2, <4>1
        <5> QED
          BY <1>3, <2>1, <5>1
      <4>3. CASE k = i
        BY <2>2, <3>2, <4>3 DEF Late
      <4>4. CASE k > i
        <5>1. i \in 1..(k - 1)
          BY <1>3, <2>1, <4>4
        <5> HIDE DEF k
        <5> QED
          BY <2>2, <3>2, <5>1 DEF Late
      <4> HIDE DEF k
      <4> QED
        BY <1>3, <2>1, <4>2, <4>3, <4>4
    <3> QED
      BY <2>5, <3>1, <3>2
  <2>6. Late(name, topic, taken, k)
    BY <2>3, <2>4, <2>5 DEF Late
  <2>7. Over(queue, topic, k)
    BY <2>1, <2>6 DEF War, InOrder
  <2>8. ASSUME NEW l \in (j + 1)..Len(topic')
        PROVE  topic'[l].from # "attack"
    <3>1. l \in 1..Len(topic') /\ j < l
      BY <1>3
    <3>2. f[l] \in 1..Len(topic) /\ f[j] < f[l] /\ topic'[l] = topic[f[l]]
      BY <1>2, <3>1
    <3>3. f[l] \in (k + 1)..Len(topic)
      BY <1>3, <2>1, <3>2
    <3> HIDE DEF k
    <3> QED
      BY <2>7, <3>2, <3>3 DEF Over
  <2> QED
    BY <2>7, <2>8 DEF Over
<1> QED
  BY <1>4, <1>5

\* A message that is dropped has been evaluated before, or is none of the attack's.
LEMMA WarDrop ==
    ASSUME QuietInv, QuietInv', NEW name, NEW need \in Nat, War(name, need), NEW i, NEW again, Drops(i, again), Own'
    PROVE  War(name, need)'
<1>1. /\ i \in 1..Len(topic) /\ Finish(i, again, 0)
      /\ UNCHANGED <<clock, queue, windows, attack, log, taken>>
  BY DEF Drops
<1>2. left'.launches = left.launches /\ left'.faults = left.faults /\ left.faults \in Nat
  BY <1>1, QuietFacts DEF Finish, Kinds
<1>3. IsTopic(queue) /\ IsTopic(topic)
  BY QuietFacts
<1>4. Times' /\ CaughtRight(name)' /\ WindowClean(name)' /\ Fires(name, need)' /\ left'.launches = 0 /\ attack'.scenario = name
  BY <1>1, <1>2 DEF War, Times, CaughtRight, WindowClean, Fires, Timely
<1>5. ShotsOf(name)' /\ InOrder(name)'
  BY <1>1, FinishShape
<1>6. ~IsUnread(name, topic[i], taken)
  <2> SUFFICES ASSUME topic[i].from = "attack" PROVE ReadIn(taken, topic[i].n)
    BY DEF IsUnread
  <2>1. Shot(name, attack.at, topic[i].raw)
    BY <1>1 DEF War, ShotsOf
  <2>2. Accepted(topic[i].raw)
    BY <2>1 DEF Shot, Accepted, At
  <2> QED
    BY <1>1, <2>2, QuietFacts, OwnEvent DEF Drops, War
<1>7. Hope(name, need)'
  <2> DEFINE P == Promise(name, queue, topic, log, taken)
             Q == Promise(name, queue, topic', log, taken)
  <2>1. IsFiniteSet(Q)
    BY <1>1, <1>3, FinishTopic, PromiseFinite, QuietFacts
  <2>2. P \subseteq Q
    <3>1. UnreadOf(name, topic, taken) \subseteq UnreadOf(name, topic', taken)
      BY <1>1, <1>6, QuietFacts, UnreadDone
    <3> QED
      BY <3>1 DEF Promise
  <2>3. CASE Cardinality(P) >= need + left.faults
    <3> HIDE DEF P, Q
    <3>1. Cardinality(Q) >= need + left.faults
      BY <1>2, <2>1, <2>2, <2>3, NoneLost
    <3> QED
      BY <1>1, <1>2, <3>1 DEF Hope, Q
  <2> QED
    BY <1>1, <1>2, <2>3 DEF War, Hope
<1>8. Alive(name)'
  <2>1. Waiting(queue, topic', taken) => Waiting(queue, topic, taken)
    <3>1. \A j \in 1..Len(topic') : \E k \in 1..Len(topic) : topic'[j] = topic[k]
      BY <1>1, <1>3, FinishTopic
    <3> QED
      BY <3>1 DEF Waiting
  <2> QED
    BY <1>1, <2>1 DEF War, Alive, Timely
<1> QED
  BY <1>4, <1>5, <1>7, <1>8 DEF War

-----------------------------------------------------------------------------
(* What an evaluation reports of a window that holds enough.               *)

\* A sum is no less than what some of its members bring.
LEMMA TotalOver ==
    ASSUME NEW S, IsFiniteSet(S), NEW least \in Nat, \A m \in S : m.value \in Nat,
           NEW C, \A m \in C : least <= m.value
    PROVE  Total(S) \in Nat /\ least * Cardinality(S \cap C) <= Total(S)
<1> DEFINE Good(T) == Total(T) \in Nat /\ least * Cardinality(T \cap C) <= Total(T)
           Bad == {T \in SUBSET S : ~Good(T)}
<1> SUFFICES ASSUME Bad # {} PROVE FALSE
  OBVIOUS
<1>1. PICK T \in Bad : \A U \in Bad : U \subseteq T => U = T
  <2>1. Bad \subseteq SUBSET S
    OBVIOUS
  <2> HIDE DEF Bad
  <2> QED
    BY <2>1, Least
<1>2. T \in SUBSET S /\ IsFiniteSet(T) /\ ~Good(T)
  BY <1>1, FS_Subset
<1> HIDE DEF Good
<1>3. CASE T = {}
  <2>1. Total(T) = 0 /\ T \cap C = {}
    BY <1>2, <1>3, TotalStep
  <2>2. Cardinality(T \cap C) = 0
    BY <2>1, FS_EmptySet
  <2> QED
    BY <1>2, <2>1, <2>2 DEF Good
<1>4. CASE T # {}
  <2> DEFINE x == One(T)
             U == T \ {x}
  <2>1. x \in T /\ x \in S
    BY <1>2, <1>4, OneIn
  <2>2. U \in SUBSET S /\ U # T /\ U \subseteq T
    BY <1>2, <2>1
  <2>3. Good(U)
    BY <1>1, <2>2
  <2>4. Total(T) = x.value + Total(U)
    BY <1>2, <1>4, TotalStep
  <2>5. IsFiniteSet(U \cap C) /\ Cardinality(U \cap C) \in Nat
    <3>1. IsFiniteSet(U \cap C)
      BY <1>2, FS_Subset
    <3> QED
      BY <3>1, FS_CardinalityType
  <2> DEFINE c == Cardinality(U \cap C)
  <2>6. \/ x \in C /\ Cardinality(T \cap C) = c + 1
        \/ x \notin C /\ Cardinality(T \cap C) = c
    <3>1. CASE x \in C
      <4>1. T \cap C = (U \cap C) \cup {x} /\ x \notin U \cap C
        BY <2>1, <3>1
      <4> HIDE DEF U, x
      <4> QED
        BY <2>5, <3>1, <4>1, FS_AddElement
    <3>2. CASE x \notin C
      <4>1. T \cap C = U \cap C
        BY <3>2
      <4> HIDE DEF U, x
      <4> QED
        BY <3>2, <4>1
    <3> QED
      BY <3>1, <3>2
  <2>7. x.value \in Nat /\ (x \in C => least <= x.value)
    BY <2>1
  <2> DEFINE v == x.value
             u == Total(U)
  <2>8. u \in Nat /\ least * c <= u
    BY <2>3 DEF Good
  <2>9. c \in Nat
    BY <2>5
  <2> HIDE DEF v, c, u
  <2>10. least * c \in Nat /\ least * (c + 1) = least * c + least
    BY <2>9
  <2>11. v \in Nat /\ v + u \in Nat /\ (x \in C => least * (c + 1) <= v + u) /\ least * c <= v + u
    BY <2>7, <2>8, <2>10 DEF v
  <2>12. least * Cardinality(T \cap C) <= v + u
    BY <2>6, <2>11
  <2>13. Good(T)
    BY <2>4, <2>11, <2>12 DEF Good, v, u
  <2> QED
    BY <1>2, <2>13
<1> QED
  BY <1>3, <1>4

\* The window a detector has seen, and what an evaluation reports.
SeenBy(rule, e) == IF rule \in WindowRules THEN Looked(Window(rule, e), e).members ELSE {}

LEMMA DetectionsAre ==
    ASSUME NEW e, NEW broken
    PROVE  Evaluation(e, broken).detections
             = {<<rule, Verdict(rule, e, SeenBy(rule, e))>> : rule \in Run(e, broken)} \ (Rules \X {Quiet, "raises"})
<1> DEFINE run == Run(e, broken)
           asked == {Window(rule, e) : rule \in run \cap WindowRules}
           looks == {[key |-> w.key, rule |-> w.rule, mode |-> w.mode, ts |-> e.timestamp,
                      members |-> Looked(w, e).members] : w \in asked}
           members(rule) == IF rule \in WindowRules
                            THEN (CHOOSE l \in looks : l.rule = rule).members ELSE {}
<1>1. Evaluation(e, broken).detections
        = {<<rule, Verdict(rule, e, members(rule))>> : rule \in run} \ (Rules \X {Quiet, "raises"})
  BY DEF Evaluation
<1>2. ASSUME NEW rule \in run, rule \in WindowRules
      PROVE  members(rule) = Looked(Window(rule, e), e).members
  <2>1. Window(rule, e) \in asked /\ Window(rule, e).rule = rule
    BY <1>2, WindowFacts
  <2>2. \A w \in asked : w.rule = rule => w = Window(rule, e)
    BY WindowFacts
  <2> DEFINE L == [key |-> Window(rule, e).key, rule |-> Window(rule, e).rule, mode |-> Window(rule, e).mode,
                   ts |-> e.timestamp, members |-> Looked(Window(rule, e), e).members]
  <2>3. L \in looks /\ L.rule = rule
    BY <2>1
  <2>4. \A l \in looks : l.rule = rule => l = L
    <3> SUFFICES ASSUME NEW w \in asked, w.rule = rule
                 PROVE  [key |-> w.key, rule |-> w.rule, mode |-> w.mode, ts |-> e.timestamp,
                         members |-> Looked(w, e).members] = L
      OBVIOUS
    <3> QED
      BY <2>2
  <2>5. (CHOOSE l \in looks : l.rule = rule) = L
    <3> HIDE DEF L, looks
    <3> QED
      BY <2>3, <2>4
  <2>6. L.members = Looked(Window(rule, e), e).members
    OBVIOUS
  <2>7. members(rule) = (CHOOSE l \in looks : l.rule = rule).members
    BY <1>2
  <2> HIDE DEF L, looks, members
  <2> QED
    BY <2>5, <2>6, <2>7
<1>3. \A rule \in run : members(rule) = SeenBy(rule, e)
  <2> SUFFICES ASSUME NEW rule \in run PROVE members(rule) = SeenBy(rule, e)
    OBVIOUS
  <2>1. CASE rule \in WindowRules
    BY <1>2, <2>1 DEF SeenBy
  <2>2. CASE rule \notin WindowRules
    BY <2>2 DEF SeenBy
  <2> QED
    BY <2>1, <2>2
<1> HIDE DEF members
<1>4. {<<rule, Verdict(rule, e, members(rule))>> : rule \in run}
        = {<<rule, Verdict(rule, e, SeenBy(rule, e))>> : rule \in run}
  <2> HIDE DEF run
  <2> QED
    BY <1>3
<1> QED
  BY <1>1, <1>4

\* A verdict other than quiet is reported ...
LEMMA Detected ==
    ASSUME NEW e, NEW broken, NEW rule \in Run(e, broken)
    PROVE  LET v == Verdict(rule, e, SeenBy(rule, e))
           IN  v # Quiet /\ v # "raises" => <<rule, v>> \in Evaluation(e, broken).detections
<1> DEFINE v == Verdict(rule, e, SeenBy(rule, e))
           D == {<<r, Verdict(r, e, SeenBy(r, e))>> : r \in Run(e, broken)}
<1>1. <<rule, v>> \in D
  OBVIOUS
<1>2. Evaluation(e, broken).detections = D \ (Rules \X {Quiet, "raises"})
  BY DetectionsAre
<1> HIDE DEF v, D
<1> SUFFICES ASSUME v # Quiet, v # "raises" PROVE <<rule, v>> \in Evaluation(e, broken).detections
  BY DEF v
<1> QED
  BY <1>1, <1>2

\* ... and nothing else.
LEMMA DetectedOnly ==
    ASSUME NEW e, NEW broken, NEW rule, NEW v, <<rule, v>> \in Evaluation(e, broken).detections
    PROVE  rule \in Run(e, broken) /\ v = Verdict(rule, e, SeenBy(rule, e))
<1> DEFINE D == {<<r, Verdict(r, e, SeenBy(r, e))>> : r \in Run(e, broken)}
<1>1. <<rule, v>> \in D
  BY DetectionsAre
<1>2. PICK r \in Run(e, broken) : <<rule, v>> = <<r, Verdict(r, e, SeenBy(r, e))>>
  BY <1>1
<1> DEFINE u == Verdict(r, e, SeenBy(r, e))
<1>3. rule = r /\ v = u
  <2>1. <<rule, v>> = <<r, u>>
    BY <1>2
  <2> HIDE DEF u
  <2> QED
    BY <2>1
<1> QED
  BY <1>3

\* Enough counted members make their rule fire.
LEMMA Convicts ==
    ASSUME NEW name \in Windowed, NEW need, NEW least, Suffices(name, need, least), NEW e,
           NEW W, IsFiniteSet(W), NEW C, C \subseteq W,
           name = "credential_attack" => \A m \in C : m.value # None,
           name = "data_exfiltration" => (\A m \in W : m.value \in Nat) /\ (\A m \in C : m.value \in Chunk),
           Cardinality({Tallied(name, m) : m \in C}) >= need
    PROVE  Verdict(Demonstrates[name], e, W) \in {"medium", "high", "critical"}
<1> DEFINE tally == {Tallied(name, m) : m \in C}
<1>1. /\ IsFiniteSet(C) /\ Cardinality(C) \in Nat /\ Cardinality(W) \in Nat /\ Cardinality(C) <= Cardinality(W)
  BY FS_Subset, FS_CardinalityType
<1>2. IsFiniteSet(tally) /\ Cardinality(tally) \in Nat /\ Cardinality(tally) <= Cardinality(C)
  <2> DEFINE f == [m \in C |-> Tallied(name, m)]
  <2>1. f \in Surjection(C, tally)
    BY DEF Surjection
  <2> HIDE DEF f, tally
  <2> QED
    BY <1>1, <2>1, FS_Surjection, FS_CardinalityType
<1>3. IsFiniteSet(Values(W)) /\ IsFiniteSet(Values(W) \ {None})
  <2>1. IsFiniteSet(Values(W))
    <3> DEFINE f == [m \in W |-> m.value]
    <3>1. f \in Surjection(W, Values(W))
      BY DEF Surjection, Values
    <3> HIDE DEF f
    <3> QED
      BY <3>1, FS_Surjection
  <2> QED
    BY <2>1, FS_Subset
<1>4. need \in Nat /\ Cardinality(tally) >= need
  BY DEF Suffices
<1> HIDE DEF tally
<1>5. CASE name = "ssh_brute_force"
  <2>1. Params["RULE-001"].max \in Nat
    <3>1. "RULE-001" \in WindowRules
      BY DetectionAssumption
    <3> QED
      BY <3>1, MaxNat
  <2>2. Cardinality(W) >= Params["RULE-001"].max
    BY <1>1, <1>2, <1>4, <1>5, <2>1 DEF Suffices
  <2>3. Demonstrates[name] = "RULE-001"
    BY <1>5 DEF Demonstrates
  <2>4. BruteForceVerdict(e, W) \in {"high", "critical"}
    BY <1>1, <2>1, <2>2 DEF BruteForceVerdict
  <2> QED
    BY <2>3, <2>4 DEF Verdict
<1>6. CASE name = "credential_attack"
  <2>1. Params["RULE-002"].max \in Nat
    <3>1. "RULE-002" \in WindowRules
      BY DetectionAssumption
    <3> QED
      BY <3>1, MaxNat
  <2>2. tally \subseteq Values(W) \ {None}
    BY <1>6 DEF tally, Tallied, ByValue, Values
  <2>3. Cardinality(Values(W) \ {None}) >= Cardinality(tally) /\ Cardinality(Values(W) \ {None}) \in Nat
    BY <1>3, <2>2, NoneLost
  <2>4. Cardinality(Values(W) \ {None}) >= Params["RULE-002"].max
    BY <1>2, <1>4, <1>6, <2>1, <2>3 DEF Suffices
  <2>5. Demonstrates[name] = "RULE-002"
    BY <1>6 DEF Demonstrates
  <2>6. SprayVerdict(e, W) = "high"
    BY <2>1, <2>3, <2>4 DEF SprayVerdict
  <2> QED
    BY <2>5, <2>6 DEF Verdict
<1>7. CASE name = "port_scan"
  <2>1. Params["RULE-003"].max \in Nat
    <3>1. "RULE-003" \in WindowRules
      BY DetectionAssumption
    <3> QED
      BY <3>1, MaxNat
  <2>2. tally \subseteq Values(W)
    BY <1>7 DEF tally, Tallied, ByValue, Values
  <2>3. Cardinality(Values(W)) >= Cardinality(tally) /\ Cardinality(Values(W)) \in Nat
    BY <1>3, <2>2, NoneLost
  <2>4. Cardinality(Values(W)) >= Params["RULE-003"].max
    BY <1>2, <1>4, <1>7, <2>1, <2>3 DEF Suffices
  <2>5. Demonstrates[name] = "RULE-003"
    BY <1>7 DEF Demonstrates
  <2>6. ScanVerdict(e, W) = "high"
    BY <2>1, <2>3, <2>4 DEF ScanVerdict
  <2> QED
    BY <2>5, <2>6 DEF Verdict
<1>8. CASE name = "data_exfiltration"
  <2>1. Params["RULE-006"].max \in Nat
    <3>1. "RULE-006" \in WindowRules
      BY DetectionAssumption
    <3> QED
      BY <3>1, MaxNat
  <2>2. least \in Nat /\ \A m \in C : least <= m.value
    BY <1>8 DEF Suffices
  <2>3. Total(W) \in Nat /\ least * Cardinality(W \cap C) <= Total(W)
    BY <1>8, <2>2, TotalOver
  <2>4. W \cap C = C
    OBVIOUS
  <2> DEFINE c == Cardinality(C)
  <2>5. c \in Nat /\ c >= need
    BY <1>1, <1>2, <1>4
  <2>6. least * c <= Total(W)
    BY <2>3, <2>4
  <2> HIDE DEF c
  <2>7. least * c >= least * need /\ least * c \in Nat /\ least * need \in Nat
    <3>1. PICK d \in Nat : c = need + d
      <4>1. c - need \in Nat /\ c = need + (c - need)
        BY <1>4, <2>5
      <4> QED
        BY <4>1
    <3>2. least * (need + d) = least * need + least * d /\ least * d \in Nat /\ least * need \in Nat
      BY <1>4, <2>2, <3>1
    <3> QED
      BY <3>1, <3>2
  <2>8. Total(W) >= Params["RULE-006"].max
    BY <1>8, <2>1, <2>3, <2>6, <2>7 DEF Suffices
  <2>9. ExfilVerdict(e, W) \in {"high", "medium"}
    BY <2>1, <2>3, <2>8 DEF ExfilVerdict, Total
  <2>10. Demonstrates[name] = "RULE-006"
    BY <1>8 DEF Demonstrates
  <2> QED
    BY <2>9, <2>10 DEF Verdict
<1> QED
  BY <1>5, <1>6, <1>7, <1>8 DEF Windowed

\* What the history of the attack becomes, and what is reported.
LEMMA AttackAfter ==
    ASSUME Times, clock \in Nat, NEW e, NEW broken, NEW mine, Evaluate(e, broken, mine)
    PROVE  LET rule == Demonstrates[attack.scenario]
               counts == mine /\ attack.scenario \in DOMAIN Demonstrates /\ rule \in Run(e, broken)
           IN  /\ attack'.at = attack.at /\ attack'.scenario = attack.scenario
               /\ DOMAIN attack' = DOMAIN NoAttack
               /\ attack.fired \subseteq attack'.fired
               /\ ~mine => attack' = attack
               /\ mine => Evaluation(e, broken).detections \subseteq attack'.fired
               /\ ~counts => attack'.evaluated = attack.evaluated /\ attack'.gap = attack.gap
               /\ counts => /\ attack'.evaluated = clock /\ attack'.gap \in Nat
                            /\ attack'.gap >= attack.gap /\ attack'.gap >= clock - attack.evaluated
               /\ last'.at = clock /\ last'.detections = Evaluation(e, broken).detections
               /\ last'.looks = Looks(e, broken)
<1> DEFINE found == Evaluation(e, broken)
           rule == Demonstrates[attack.scenario]
           counts == mine /\ attack.scenario \in DOMAIN Demonstrates /\ rule \in Run(e, broken)
<1>1. /\ last' = [at |-> clock, looks |-> found.looks, detections |-> found.detections]
      /\ attack' = IF ~mine THEN attack
                   ELSE IF attack.scenario \in DOMAIN Demonstrates /\ rule \in found.run
                   THEN [attack EXCEPT !.fired = @ \cup found.detections, !.evaluated = clock,
                                       !.gap = IF clock - attack.evaluated > @
                                               THEN clock - attack.evaluated ELSE @]
                   ELSE [attack EXCEPT !.fired = @ \cup found.detections]
  BY DEF Evaluate
<1>2. found.run = Run(e, broken)
  BY DEF Evaluation
<1>3. found.looks = Looks(e, broken)
  BY EvaluationFacts DEF Outcome
<1> HIDE DEF found, rule
<1>4. DOMAIN attack = {"scenario", "at", "fired", "evaluated", "gap"}
  BY DEF Times, NoAttack
<1>5. CASE ~mine
  BY <1>1, <1>3, <1>5 DEF Times, found
<1>6. CASE mine /\ ~counts
  <2>1. attack' = [attack EXCEPT !.fired = @ \cup found.detections]
    BY <1>1, <1>2, <1>6
  <2>2. /\ attack'.at = attack.at /\ attack'.scenario = attack.scenario /\ DOMAIN attack' = DOMAIN attack
        /\ attack'.fired = attack.fired \cup found.detections
        /\ attack'.evaluated = attack.evaluated /\ attack'.gap = attack.gap
    BY <1>4, <2>1
  <2> QED
    BY <1>1, <1>3, <1>6, <2>2 DEF Times, found, rule
<1>7. CASE counts
  <2>1. attack' = [attack EXCEPT !.fired = @ \cup found.detections, !.evaluated = clock,
                                 !.gap = IF clock - attack.evaluated > @
                                         THEN clock - attack.evaluated ELSE @]
    BY <1>1, <1>2, <1>7
  <2>2. /\ attack'.at = attack.at /\ attack'.scenario = attack.scenario /\ DOMAIN attack' = DOMAIN attack
        /\ attack'.fired = attack.fired \cup found.detections
        /\ attack'.evaluated = clock
        /\ attack'.gap = IF clock - attack.evaluated > attack.gap THEN clock - attack.evaluated ELSE attack.gap
    BY <1>4, <2>1
  <2>3. attack'.gap \in Nat /\ attack'.gap >= attack.gap /\ attack'.gap >= clock - attack.evaluated
    BY <2>2 DEF Times
  <2> QED
    BY <1>1, <1>3, <1>7, <2>2, <2>3 DEF Times, found, rule
<1> QED
  BY <1>5, <1>6, <1>7

-----------------------------------------------------------------------------
(* A message that is evaluated: one of the spree that its rule counts, one *)
(* that its rule misses, and one that is not of the spree.                 *)

\* Who asks for the attack's window.
LEMMA TargetAsked ==
    ASSUME NEW name \in Windowed, NEW raw, NEW now, NEW fresh, NEW e, e = FromRaw(raw, now, fresh),
           NEW broken, NEW w \in Asked(e, broken), w.key = Target(name)
    PROVE  /\ w.rule = Demonstrates[name] /\ w = Window(Demonstrates[name], e)
           /\ Demonstrates[name] \in Run(e, broken) /\ Applies(Demonstrates[name], e)
           /\ e.source_ip = AttackIp /\ PartitionKey(raw) = AttackIp
<1>1. /\ w.rule \in WindowRules /\ Applies(w.rule, e) /\ RuleOf(w.key) = w.rule
      /\ w.rule \in ByAddress => Owner(w.key) = e.source_ip
  BY AskedFacts
<1>2. w.rule = Demonstrates[name] /\ w.rule \in ByAddress /\ e.source_ip = AttackIp
  BY <1>1, AimFacts
<1>3. PICK rule \in Run(e, broken) \cap WindowRules : w = Window(rule, e)
  BY DEF Asked
<1>4. rule = w.rule
  BY <1>3, WindowFacts
<1>5. raw.source_ip = AttackIp /\ AttackIp # None
  <2>1. e.source_ip = CoerceIp(raw.source_ip)
    BY DEF FromRaw
  <2> QED
    BY <1>2, <2>1, AttackFacts DEF CoerceIp
<1> QED
  BY <1>1, <1>2, <1>3, <1>4, <1>5 DEF PartitionKey

\* A step that evaluates an event, but for what depends on the event.
Taking(name, i, e, broken) ==
    /\ i \in 1..Len(topic) /\ clock' = clock /\ queue' = queue
    /\ e = FromRaw(topic[i].raw, clock, Cardinality(taken))
    /\ Evaluate(e, broken, topic[i].from = "attack")
    /\ Cardinality(broken) \in Nat /\ left'.launches = 0 /\ left'.faults \in Nat
    /\ left.faults = left'.faults + Cardinality(broken)
    /\ ~ReadIn(taken, topic[i].n) /\ ReadIn(taken', topic[i].n)
    /\ Waiting(queue', topic', taken') => Waiting(queue, topic, taken)
    /\ topic[i].from = "attack" => Shot(name, attack.at, topic[i].raw) /\ Waiting(queue, topic, taken)

\* A step of the worker is one, and leaves the rest in order.
LEMMA TakingFacts ==
    ASSUME QuietInv, QuietInv', Own', NEW name, NEW need \in Nat, War(name, need),
           NEW i, NEW e, NEW broken, NEW again, NEW new, Takes(i, e, broken, again, new),
           broken = {} \/ (\E rule : broken = {rule})
    PROVE  /\ Taking(name, i, e, broken)
           /\ Times' /\ ShotsOf(name)' /\ InOrder(name)' /\ attack'.scenario = name
<1>1. /\ i \in 1..Len(topic) /\ clock' = clock /\ queue' = queue /\ e = Event(i) /\ e.event_id \notin seen
      /\ Finish(i, again, Cardinality(broken)) /\ Possible(again, Cardinality(broken))
      /\ Evaluate(e, broken, topic[i].from = "attack")
      /\ taken' = taken \cup {new} /\ new.of = topic[i].n /\ new.from = topic[i].from
  BY DEF Takes
<1>2. e = FromRaw(topic[i].raw, clock, Cardinality(taken))
  BY <1>1 DEF Event
<1>3. Cardinality(broken) \in Nat
  <2>1. CASE broken = {}
    BY <2>1, FS_EmptySet
  <2>2. ASSUME NEW rule, broken = {rule} PROVE Cardinality(broken) = 1
    BY <2>2, FS_Singleton
  <2> QED
    BY <2>1, <2>2
<1>4. left'.launches = 0 /\ left'.faults \in Nat /\ left.faults = left'.faults + Cardinality(broken)
  <2>1. left \in [Kinds -> Nat]
    BY QuietFacts
  <2>2. left'.launches = left.launches /\ left'.faults = left.faults - Cardinality(broken)
    BY <1>1, <2>1 DEF Finish, Kinds
  <2>3. Cardinality(broken) <= left.faults /\ left.faults \in Nat
    BY <1>1, <2>1 DEF Possible, Kinds
  <2> QED
    BY <1>3, <2>2, <2>3 DEF War
<1>5. ~ReadIn(taken, topic[i].n)
  BY <1>1, QuietFacts, OwnEvent DEF War
<1>6. ReadIn(taken', topic[i].n) /\ \A n : ReadIn(taken, n) => ReadIn(taken', n)
  BY <1>1 DEF ReadIn
<1>7. \A j \in 1..Len(topic') : \E k \in 1..Len(topic) : topic'[j] = topic[k]
  BY <1>1, QuietFacts, FinishTopic
<1>8. Waiting(queue', topic', taken') => Waiting(queue, topic, taken)
  BY <1>1, <1>6, <1>7 DEF Waiting
<1>9. topic[i].from = "attack" => Shot(name, attack.at, topic[i].raw) /\ Waiting(queue, topic, taken)
  BY <1>1, <1>5 DEF War, ShotsOf, Waiting
<1>10. Taking(name, i, e, broken)
  BY <1>1, <1>2, <1>3, <1>4, <1>5, <1>6, <1>8, <1>9 DEF Taking
<1>11. /\ attack'.at = attack.at /\ attack'.scenario = attack.scenario /\ DOMAIN attack' = DOMAIN NoAttack
       /\ \/ attack'.evaluated = attack.evaluated /\ attack'.gap = attack.gap
          \/ attack'.evaluated = clock /\ attack'.gap \in Nat
  BY <1>1, QuietFacts, AttackAfter DEF War
<1>12. Times' /\ attack'.scenario = name
  BY <1>1, <1>11, QuietFacts DEF War, Times
<1>13. \/ Begun(taken') => Begun(taken)
       \/ /\ topic[i].from = "attack"
          /\ \A j \in 1..(i - 1) : PartitionKey(topic[j].raw) # PartitionKey(topic[i].raw)
  BY <1>1 DEF Takes, Begun
<1>14. ShotsOf(name)' /\ InOrder(name)'
  BY <1>1, <1>11, <1>13, FinishShape
<1> QED
  BY <1>10, <1>12, <1>14

\* What is still to be had, when nothing or one event of the spree is lost.
LEMMA TakeHope ==
    ASSUME QuietInv, QuietInv', NEW name, NEW need \in Nat, War(name, need),
           NEW i, NEW e, NEW broken, NEW again, NEW new, Takes(i, e, broken, again, new),
           Taking(name, i, e, broken), Cardinality(Promise(name, queue, topic, log, taken)) >= need + left.faults,
           \/ ~(topic[i].from = "attack" /\ Aimed(name, topic[i].raw))
           \/ LabelOf(name, topic[i]) \in TallyOf(name, log', taken')
           \/ Cardinality(broken) >= 1
    PROVE  Hope(name, need)'
<1> DEFINE P == Promise(name, queue, topic, log, taken)
           Q == Promise(name, queue, topic', log', taken')
           l == LabelOf(name, topic[i])
<1>1. /\ i \in 1..Len(topic) /\ queue' = queue /\ Finish(i, again, Cardinality(broken))
      /\ \A t \in taken' : t \in taken \/ t.of = topic[i].n
      /\ Cardinality(broken) \in Nat /\ left'.faults \in Nat /\ left.faults = left'.faults + Cardinality(broken)
  BY DEF Takes, Taking
<1>2. /\ UnreadOf(name, topic, taken) \ {l} \subseteq UnreadOf(name, topic', taken')
      /\ ~IsUnread(name, topic[i], taken) => UnreadOf(name, topic, taken) \subseteq UnreadOf(name, topic', taken')
  BY <1>1, QuietFacts, UnreadDone
<1>3. CaughtIn(name, log, taken) \subseteq CaughtIn(name, log', taken')
  BY QuietFacts, CaughtAfter DEF War
<1>4. TallyOf(name, log, taken) \subseteq TallyOf(name, log', taken')
  BY <1>3 DEF TallyOf
<1>5. IsFiniteSet(Q)
  <2>1. IsTopic(topic') /\ \A k \in DOMAIN log' : IsFiniteSet(log'[k])
    BY DEF QuietInv, Few, IdInv, Numbered
  <2> QED
    BY <2>1, QuietFacts, PromiseFinite
<1>6. /\ Cardinality(P) \in Nat /\ Cardinality(Q) \in Nat
      /\ \/ Cardinality(Q) >= Cardinality(P)
         \/ Cardinality(Q) + 1 >= Cardinality(P) /\ Cardinality(broken) >= 1
  <2>1. ASSUME P \subseteq Q
        PROVE  Cardinality(P) \in Nat /\ Cardinality(Q) \in Nat /\ Cardinality(Q) >= Cardinality(P)
    <3> HIDE DEF P, Q
    <3> QED
      BY <1>5, <2>1, NoneLost
  <2>2. CASE ~(topic[i].from = "attack" /\ Aimed(name, topic[i].raw))
    <3>1. ~IsUnread(name, topic[i], taken)
      BY <2>2 DEF IsUnread
    <3>2. P \subseteq Q
      BY <1>2, <1>4, <3>1 DEF Promise
    <3> QED
      BY <2>1, <3>2
  <2>3. CASE l \in TallyOf(name, log', taken')
    <3>1. P \subseteq Q
      BY <1>2, <1>4, <2>3 DEF Promise
    <3> QED
      BY <2>1, <3>1
  <2>4. CASE Cardinality(broken) >= 1
    <3>1. P \ {l} \subseteq Q
      BY <1>2, <1>4 DEF Promise
    <3> HIDE DEF P, Q, l
    <3> QED
      BY <1>5, <2>4, <3>1, OneLost
  <2> QED
    BY <2>2, <2>3, <2>4
<1> DEFINE p == Cardinality(P)
           q == Cardinality(Q)
<1>7. p >= need + left.faults
  OBVIOUS
<1>8. /\ p \in Nat /\ q \in Nat
      /\ q >= p \/ (q + 1 >= p /\ Cardinality(broken) >= 1)
  BY <1>6
<1> HIDE DEF p, q, P, Q
<1>9. q >= need + left'.faults
  BY <1>1, <1>7, <1>8
<1> QED
  BY <1>1, <1>9 DEF Hope, q, Q

\* An event of the spree, evaluated by its rule.
Hits(name, i, broken) ==
    /\ name \in Windowed /\ topic[i].from = "attack" /\ Aimed(name, topic[i].raw)
    /\ Demonstrates[name] \notin broken

\* What it adds to the window.
HitMember(name, e) == Member(Window(Demonstrates[name], e), e)

\* Its rule asks for the attack's window ...
LEMMA HitFacts ==
    ASSUME QuietInv, NEW name, NEW need \in Nat, War(name, need),
           NEW i, NEW e, NEW broken, Taking(name, i, e, broken), Hits(name, i, broken)
    PROVE  LET w == Window(Demonstrates[name], e)
           IN  /\ Demonstrates[name] \in Run(e, broken) /\ w \in Asked(e, broken)
               /\ w.key = Target(name) /\ w.mode = "add" /\ w.rule = Demonstrates[name]
               /\ HitMember(name, e).ts = attack.at /\ e.timestamp = attack.at
               /\ HitMember(name, e).n = e.event_id
               /\ HitMember(name, e).value = w.value
               /\ ByValue(name) => w.value = ValueOf(name, topic[i].raw)
               /\ name = "credential_attack" => w.value # None
               /\ name = "data_exfiltration" => w.value \in Chunk
<1> DEFINE rule == Demonstrates[name]
           w == Window(rule, e)
<1>1. /\ name \in Windowed /\ Shot(name, attack.at, topic[i].raw) /\ Aimed(name, topic[i].raw) /\ rule \notin broken
      /\ e = FromRaw(topic[i].raw, clock, Cardinality(taken))
  BY DEF Taking, Hits
<1>2. attack.at \in Nat /\ clock \in Nat /\ attack.at <= clock
  BY QuietFacts DEF War, Times
<1>3. e.timestamp = attack.at
  <2> DEFINE at == attack.at
             raw == topic[i].raw
             fresh == Cardinality(taken)
  <2>1. at \in Nat /\ clock \in Nat /\ at <= clock /\ Shot(name, at, raw) /\ e = FromRaw(raw, clock, fresh)
    BY <1>1, <1>2
  <2> HIDE DEF at, raw, fresh
  <2>2. e.timestamp = NormalizeTimestamp(At(at), clock)
    <3>1. e.timestamp = NormalizeTimestamp(raw.timestamp, clock)
      BY <2>1 DEF FromRaw
    <3> QED
      BY <2>1, <3>1 DEF Shot
  <2>3. e.timestamp = at
    <3>1. ~(at - clock > Day)
      BY <2>1, DayAssumption
    <3> QED
      BY <2>2, <3>1 DEF NormalizeTimestamp, At
  <2> QED
    BY <2>3 DEF at
<1>4. /\ Applies(rule, e) /\ w.key = Target(name) /\ w.rule = rule /\ w.mode = "add"
      /\ ByValue(name) => w.value = ValueOf(name, topic[i].raw)
      /\ name = "credential_attack" => w.value # None
      /\ name = "data_exfiltration" => w.value \in Chunk
  BY <1>1, <1>2, ShotCounts
<1>5. rule \in Rules /\ rule \in WindowRules
  BY <1>1, AimFacts
<1>6. rule \in Run(e, broken)
  BY <1>1, <1>4, <1>5 DEF Run
<1>7. w \in Asked(e, broken)
  BY <1>5, <1>6 DEF Asked
<1> HIDE DEF w
<1>8. HitMember(name, e).ts = e.timestamp /\ HitMember(name, e).n = e.event_id /\ HitMember(name, e).value = w.value
  BY DEF HitMember, Member, w
<1> QED
  BY <1>3, <1>4, <1>6, <1>7, <1>8 DEF w

\* What it leaves behind.
LEMMA HitLeaves ==
    ASSUME QuietInv, QuietInv', NEW name, NEW need \in Nat, War(name, need),
           NEW i, NEW e, NEW broken, NEW again, NEW new, Takes(i, e, broken, again, new),
           Taking(name, i, e, broken), Hits(name, i, broken)
    PROVE  /\ CaughtIn(name, log', taken') = CaughtIn(name, log, taken) \cup {HitMember(name, e)}
           /\ LogAt(log', Target(name)) = LogAt(log, Target(name)) \cup {HitMember(name, e)}
           /\ MembersAt(windows', Target(name)) = SeenBy(Demonstrates[name], e)
           /\ HitMember(name, e) \in MembersAt(windows', Target(name))
           /\ \A m \in MembersAt(windows, Target(name)) :
                m.ts = attack.at => m \in MembersAt(windows', Target(name))
           /\ windows'[Target(name)].expiry = clock + Reach(name)
<1> DEFINE rule == Demonstrates[name]
           w == Window(rule, e)
           T == Target(name)
<1>1. /\ w \in Asked(e, broken) /\ w.key = T /\ w.mode = "add" /\ w.rule = rule /\ rule \in WindowRules
      /\ e.timestamp = attack.at /\ name \in Windowed /\ topic[i].from = "attack"
  BY HitFacts, AimFacts DEF Hits
<1> HIDE DEF w
<1>2. PICK found : Outcome(found, e, broken) /\ windows' = found.windows /\ log' = found.log
  BY EvaluationFacts DEF Evaluate, Taking
<1>3. AsksFor(found, w, e)
  BY <1>1, <1>2 DEF Outcome
<1>4. /\ MembersAt(windows', T) = Looked(w, e).members
      /\ T \in DOMAIN windows' => windows'[T] = Looked(w, e)
      /\ LogAt(log', T) = LogAt(log, T) \cup {Member(w, e)}
  BY <1>1, <1>2, <1>3 DEF AsksFor
<1>5. /\ Looked(w, e).expiry = clock + Params[w.rule].window + Slack
      /\ Looked(w, e).members
           = {m \in MembersAt(windows, w.key) : m.ts > e.timestamp - Params[w.rule].window} \cup {Member(w, e)}
  BY <1>1, LookedFacts, QuietFacts DEF IdInv
<1>6. Looked(w, e).members = SeenBy(rule, e)
  BY <1>1 DEF SeenBy, w
<1>7. Member(w, e) = HitMember(name, e)
  BY DEF w, HitMember
<1>8. CaughtIn(name, log', taken') = CaughtIn(name, log, taken) \cup {Member(w, e)}
  <2>1. /\ CaughtIn(name, log, taken) \subseteq CaughtIn(name, log', taken')
        /\ Member(w, e) \in CaughtIn(name, log', taken')
        /\ \A m \in CaughtIn(name, log', taken') :
             m \in CaughtIn(name, log, taken) \/ \E v \in Asked(e, broken) : v.key = T /\ m = Member(v, e)
    BY <1>1, QuietFacts, CaughtAfter DEF War
  <2>2. \A v \in Asked(e, broken) : v.key = T => v = w
    BY <1>1, AskedFacts
  <2> QED
    BY <2>1, <2>2
<1>9. windows'[T].expiry = clock + Reach(name)
  <2>1. T \in DOMAIN windows'
    BY <1>4, <1>5 DEF MembersAt
  <2>2. Params[rule].window \in Nat /\ Slack \in Nat /\ clock \in Nat
    BY <1>1, ReachNat, QuietFacts
  <2>3. clock + Params[rule].window + Slack = clock + (Params[rule].window + Slack)
    BY <2>2
  <2> QED
    BY <1>1, <1>4, <1>5, <2>1, <2>3 DEF Reach
<1>10. \A m \in MembersAt(windows, T) : m.ts = attack.at => m \in MembersAt(windows', T)
  <2>1. attack.at \in Nat /\ Params[rule].window \in Nat /\ Params[rule].window > 0
    BY <1>1, ReachNat DEF War, Times
  <2> QED
    BY <1>1, <1>4, <1>5, <2>1
<1> QED
  BY <1>4, <1>5, <1>6, <1>7, <1>8, <1>9, <1>10

\* The window goes on, and fires when it holds enough.
LEMMA WarHit ==
    ASSUME QuietInv, QuietInv', Own', NEW name, NEW need \in Nat, NEW least, Suffices(name, need, least),
           War(name, need), NEW i, NEW e, NEW broken, NEW again, NEW new, Takes(i, e, broken, again, new),
           Taking(name, i, e, broken), Hits(name, i, broken),
           Times', ShotsOf(name)', InOrder(name)', attack'.scenario = name
    PROVE  War(name, need)'
<1> DEFINE rule == Demonstrates[name]
           T == Target(name)
           C == CaughtIn(name, log, taken)
           D == CaughtIn(name, log', taken')
           hit == HitMember(name, e)
           W == MembersAt(windows', T)
<1>1. /\ name \in Windowed /\ topic[i].from = "attack" /\ Evaluate(e, broken, TRUE) /\ queue' = queue
      /\ left'.launches = 0 /\ Waiting(queue, topic, taken) /\ clock' = clock /\ clock \in Nat
  BY QuietFacts DEF Hits, Taking
<1>2. /\ rule \in Run(e, broken) /\ hit.ts = attack.at /\ hit.n = e.event_id
      /\ ByValue(name) => hit.value = ValueOf(name, topic[i].raw)
      /\ name = "credential_attack" => hit.value # None
      /\ name = "data_exfiltration" => hit.value \in Chunk
  BY HitFacts
<1>3. /\ D = C \cup {hit}
      /\ LogAt(log', T) = LogAt(log, T) \cup {hit}
      /\ W = SeenBy(rule, e) /\ hit \in W
      /\ \A m \in MembersAt(windows, T) : m.ts = attack.at => m \in W
      /\ windows'[T].expiry = clock + Reach(name)
  BY HitLeaves
<1>4. /\ attack'.at = attack.at /\ attack.fired \subseteq attack'.fired
      /\ Evaluation(e, broken).detections \subseteq attack'.fired
      /\ attack'.evaluated = clock /\ attack'.gap \in Nat
      /\ attack'.gap >= attack.gap /\ attack'.gap >= clock - attack.evaluated
  <2>1. attack.scenario = name /\ name \in DOMAIN Demonstrates /\ Times
    BY <1>1, AimFacts DEF War
  <2> QED
    BY <1>1, <1>2, <2>1, AttackAfter
<1> HIDE DEF D, C, hit, W, T
<1>5. CaughtRight(name)'
  <2>1. \A m \in D : m \in C \/ m = hit
    BY <1>3
  <2> QED
    BY <1>2, <1>4, <2>1 DEF War, CaughtRight, C, D
<1>6. WindowClean(name)'
  <2>1. name = "ssh_brute_force" => LogAt(log', T) \subseteq D
    BY <1>3 DEF War, WindowClean, C, T
  <2>2. name = "data_exfiltration" => \A m \in LogAt(log', T) : m.value \in Nat
    <3>1. name = "data_exfiltration" => hit.value \in Nat
      BY <1>2, ChunkKept
    <3> QED
      BY <1>3, <3>1 DEF War, WindowClean, T
  <2> QED
    BY <2>1, <2>2 DEF WindowClean, D, T
<1>7. ASSUME Timely(name)'
      PROVE  D \subseteq W
  <2>1. /\ attack.gap \in Nat /\ attack.evaluated \in Nat /\ Reach(name) \in Nat /\ attack'.gap < Reach(name)
    BY <1>1, <1>7, ReachNat DEF War, Times, Timely
  <2>2. Timely(name) /\ clock < attack.evaluated + Reach(name)
    BY <1>1, <1>4, <2>1 DEF Timely
  <2>3. C # {} => C \subseteq MembersAt(windows, T)
    BY <1>1, <2>2 DEF War, Alive, Holds, C, T
  <2>4. \A m \in C : m.ts = attack.at
    BY DEF War, CaughtRight, C
  <2> QED
    BY <1>3, <2>3, <2>4
<1>8. Alive(name)'
  <2>1. clock + Reach(name) \in Nat /\ clock + Reach(name) >= clock + Reach(name)
    BY <1>1, ReachNat
  <2>2. Timely(name)' => Holds(name, windows', D, attack'.evaluated + Reach(name))
    BY <1>3, <1>4, <1>7, <2>1 DEF Holds, W, T
  <2> QED
    BY <2>2 DEF Alive, D
<1>9. Fires(name, need)'
  <2> SUFFICES ASSUME Timely(name)', Cardinality(TallyOf(name, log', taken')) >= need
               PROVE  FiredBy(name, attack'.fired)
    BY DEF Fires
  <2>1. D \subseteq W
    BY <1>7
  <2>2. W \subseteq LogAt(log', T) /\ IsFiniteSet(LogAt(log', T))
    <3>1. \A k \in DOMAIN windows' : windows'[k].members \subseteq log'[k] /\ k \in DOMAIN log'
      BY DEF QuietInv, IdInv, Typed, TypeOK
    <3>2. \A k \in DOMAIN log' : IsFiniteSet(log'[k])
      BY DEF QuietInv, Few
    <3> QED
      BY <3>1, <3>2, FS_EmptySet DEF MembersAt, LogAt, W
  <2>3. IsFiniteSet(W)
    BY <2>2, FS_Subset
  <2>4. {Tallied(name, m) : m \in D} = TallyOf(name, log', taken')
    BY DEF TallyOf, D
  <2>5. name = "credential_attack" => \A m \in D : m.value # None
    BY <1>5 DEF CaughtRight, D
  <2>6. name = "data_exfiltration" => (\A m \in W : m.value \in Nat) /\ (\A m \in D : m.value \in Chunk)
    BY <1>5, <1>6, <2>2 DEF CaughtRight, WindowClean, D, T
  <2>7. Cardinality({Tallied(name, m) : m \in D}) >= need
    BY <2>4
  <2> DEFINE v == Verdict(rule, e, W)
  <2>8. v \in {"medium", "high", "critical"}
    BY <1>1, <2>1, <2>3, <2>5, <2>6, <2>7, Convicts
  <2>9. v = Verdict(rule, e, SeenBy(rule, e))
    BY <1>3
  <2> HIDE DEF v
  <2>10. v # Quiet /\ v # "raises"
    BY <2>8 DEF Quiet
  <2>11. <<rule, v>> \in Evaluation(e, broken).detections
    BY <1>2, <2>9, <2>10, Detected
  <2>12. <<rule, v>> \in attack'.fired /\ <<rule, v>>[1] = rule
    BY <1>4, <2>11
  <2> QED
    BY <2>12 DEF FiredBy
<1>10. Hope(name, need)'
  <2>1. LabelOf(name, topic[i]) \in TallyOf(name, log', taken')
    <3>1. hit \in D
      BY <1>3
    <3>2. Tallied(name, hit) = LabelOf(name, topic[i])
      <4>1. e.event_id = topic[i].raw.event_id
        <5>1. i \in 1..Len(topic) /\ e = Event(i)
          BY DEF Takes
        <5> QED
          BY <5>1, QuietFacts, OwnEvent DEF War, Own
      <4> QED
        BY <1>2, <4>1 DEF Tallied, LabelOf
    <3> QED
      BY <3>1, <3>2 DEF TallyOf, D
  <2>2. Cardinality(Promise(name, queue, topic, log, taken)) >= need + left.faults
    BY <1>1 DEF War, Hope, Windowed
  <2> QED
    BY <2>1, <2>2, TakeHope
<1> QED
  BY <1>1, <1>5, <1>6, <1>8, <1>9, <1>10 DEF War

\* A message of the attack that is not of the spree: its rule only looks, if it
\* applies at all.
LEMMA AsideShot ==
    ASSUME NEW name \in Windowed, NEW at \in Nat, NEW now \in Nat, at <= now, NEW raw,
           Shot(name, at, raw), ~Aimed(name, raw), NEW fresh, NEW e, e = FromRaw(raw, now, fresh),
           Applies(Demonstrates[name], e)
    PROVE  /\ name = "ssh_brute_force" /\ e.event_type = "authentication_success"
           /\ Window(Demonstrates[name], e).key = Target(name)
           /\ Window(Demonstrates[name], e).mode = "measure"
<1>1. e.event_type = raw.event_type /\ e.source_ip = AttackIp
  <2>1. name \in Launchable
    BY DEF Launchable
  <2> QED
    BY <2>1, ShotEvent
<1>2. name \in {"ssh_brute_force", "credential_attack"} /\ raw.event_type = "authentication_success"
  BY DEF Windowed, Aimed, Shot, LoginTypes
<1>3. CASE name = "credential_attack"
  <2>1. Demonstrates[name] = "RULE-002"
    BY <1>3 DEF Demonstrates
  <2>2. SprayApplies(e)
    BY <2>1 DEF Applies
  <2> QED
    BY <1>1, <1>2, <2>2 DEF SprayApplies
<1>4. CASE name = "ssh_brute_force"
  <2>1. Demonstrates[name] = "RULE-001" /\ Target(name) = <<"bruteforce", AttackIp>>
    BY <1>4 DEF Demonstrates, Target
  <2>2. Window("RULE-001", e) = Measure("RULE-001", "bruteforce", e.source_ip)
    BY <1>1, <1>2 DEF Window, BruteForceWindow
  <2>3. Window("RULE-001", e).key = <<"bruteforce", e.source_ip>> /\ Window("RULE-001", e).mode = "measure"
    BY <2>2 DEF Measure
  <2> QED
    BY <1>1, <1>2, <1>4, <2>1, <2>3
<1> QED
  BY <1>2, <1>3, <1>4

\* The background neither fails to log in from there nor sends what is not a number.
LEMMA AsideNormal ==
    ASSUME QuietInv, NEW name \in Windowed, name \in Names, NEW i \in 1..Len(topic), topic[i].from = "normal",
           NEW now, NEW fresh, NEW e, e = FromRaw(topic[i].raw, now, fresh),
           NEW broken, NEW w \in Asked(e, broken), w.key = Target(name)
    PROVE  /\ name # "ssh_brute_force"
           /\ name = "data_exfiltration" /\ w.mode = "add" => w.value \in Nat
<1>1. Harmless(e)
  <2>1. Calm(topic[i].raw)
    BY DEF QuietInv, Plain
  <2> QED
    BY <2>1, CalmHarmless
<1>2. Applies(Demonstrates[name], e) /\ e.source_ip = AttackIp
  BY TargetAsked
<1>3. ASSUME name = "ssh_brute_force" PROVE FALSE
  <2>1. Applies("RULE-001", e)
    BY <1>2, <1>3 DEF Demonstrates
  <2>2. e.event_type \in LoginTypes
    BY <2>1 DEF Applies, BruteForceApplies, LoginTypes
  <2>3. PICK u \in Members(Users) : e.source_ip \in (Devices(u) \cap Addresses) \cup {None}
    BY <1>1, <2>2 DEF Harmless
  <2>4. AttackIp \in Devices(u)
    BY <1>2, <2>3, AttackFacts
  <2> QED
    BY <1>3, <2>4, AttackAssumption DEF Devices
<1>4. ASSUME name = "data_exfiltration", w.mode = "add" PROVE w.value \in Nat
  <2>1. Likely(w.key, w.value)
    BY <1>1, <1>4, AddsLikely
  <2>2. w.key = <<"exfil", <<AttackIp, CoerceIp("outside")>>>>
    BY <1>4 DEF Target
  <2>3. w.value = 1
    BY <2>1, <2>2 DEF Likely
  <2> QED
    BY <2>3
<1> QED
  BY <1>3, <1>4

\* The window of the attack stays as it is when nobody asks for it.
LEMMA TargetLeft ==
    ASSUME NEW name, NEW e, NEW broken, NEW mine, Evaluate(e, broken, mine),
           ~\E w \in Asked(e, broken) : w.key = Target(name), NEW C, C # {}, NEW until, Holds(name, windows, C, until)
    PROVE  Holds(name, windows', C, until)
<1> DEFINE T == Target(name)
<1>1. PICK found : Outcome(found, e, broken) /\ windows' = found.windows
  BY EvaluationFacts DEF Evaluate
<1>2. LeavesAlone(found, T)
  BY <1>1 DEF Outcome
<1>3. T \in DOMAIN windows /\ windows[T].members # {} /\ C \subseteq windows[T].members
  BY DEF Holds, MembersAt
<1>4. T \in DOMAIN windows' /\ windows'[T] = windows[T]
  BY <1>1, <1>2, <1>3 DEF LeavesAlone
<1> QED
  BY <1>3, <1>4 DEF Holds, MembersAt

\* A step that adds nothing to what its rule has counted.
LEMMA WarStill ==
    ASSUME QuietInv, QuietInv', Own', NEW name \in Windowed, NEW need \in Nat, War(name, need),
           NEW i, NEW e, NEW broken, Taking(name, i, e, broken),
           CaughtIn(name, log', taken') = CaughtIn(name, log, taken), Hope(name, need)', WindowClean(name)',
           CaughtIn(name, log, taken) # {} /\ Waiting(queue', topic', taken') =>
             /\ attack'.evaluated = attack.evaluated
             /\ ~\E w \in Asked(e, broken) : w.key = Target(name),
           Times', ShotsOf(name)', InOrder(name)', attack'.scenario = name
    PROVE  War(name, need)'
<1> DEFINE C == CaughtIn(name, log, taken)
<1>1. /\ Evaluate(e, broken, topic[i].from = "attack") /\ left'.launches = 0 /\ clock' = clock /\ clock \in Nat
      /\ Waiting(queue', topic', taken') => Waiting(queue, topic, taken)
  BY QuietFacts DEF Taking
<1>2. /\ attack'.at = attack.at /\ attack.fired \subseteq attack'.fired
      /\ attack.gap \in Nat /\ attack'.gap \in Nat /\ attack'.gap >= attack.gap
  BY <1>1, AttackAfter DEF War, Times
<1>3. Timely(name)' => Timely(name)
  <2>1. Reach(name) \in Nat
    BY ReachNat
  <2> QED
    BY <1>2, <2>1 DEF Timely
<1>4. CaughtRight(name)'
  BY <1>2 DEF War, CaughtRight
<1>5. Fires(name, need)'
  BY <1>2, <1>3 DEF War, Fires, FiredBy, TallyOf
<1>6. Alive(name)'
  <2> SUFFICES ASSUME Timely(name)', Waiting(queue', topic', taken'), C # {},
                      clock' < attack'.evaluated + Reach(name)
               PROVE  Holds(name, windows', C, attack'.evaluated + Reach(name))
    BY DEF Alive
  <2>1. attack'.evaluated = attack.evaluated /\ ~\E w \in Asked(e, broken) : w.key = Target(name)
    OBVIOUS
  <2>2. Holds(name, windows, C, attack.evaluated + Reach(name))
    BY <1>1, <1>3, <2>1 DEF War, Alive
  <2> HIDE DEF C
  <2> QED
    BY <1>1, <2>1, <2>2, TargetLeft
<1> QED
  BY <1>1, <1>4, <1>5, <1>6 DEF War

\* The rule raises: an event is lost, and with it a fault.
LEMMA WarMiss ==
    ASSUME QuietInv, QuietInv', Own', NEW name \in Windowed, NEW need \in Nat, War(name, need),
           NEW i, NEW e, NEW broken, NEW again, NEW new, Takes(i, e, broken, again, new),
           Taking(name, i, e, broken), Demonstrates[name] \in broken, IsFiniteSet(broken),
           topic[i].from = "attack", Aimed(name, topic[i].raw),
           Times', ShotsOf(name)', InOrder(name)', attack'.scenario = name
    PROVE  War(name, need)'
<1>1. ASSUME NEW w \in Asked(e, broken), w.key = Target(name) PROVE FALSE
  <2>1. Demonstrates[name] \in Run(e, broken)
    BY <1>1, TargetAsked DEF Taking
  <2> QED
    BY <2>1 DEF Run
<1>2. CaughtIn(name, log', taken') = CaughtIn(name, log, taken)
  BY <1>1, QuietFacts, CaughtAfter DEF War
<1>3. LogAt(log', Target(name)) = LogAt(log, Target(name))
  <2>1. \A m : m \in LogAt(log', Target(name)) <=> m \in LogAt(log, Target(name))
    BY <1>1, LogAfter DEF Taking
  <2> QED
    BY <2>1
<1>4. WindowClean(name)'
  BY <1>2, <1>3 DEF War, WindowClean
<1>5. attack'.evaluated = attack.evaluated
  <2>1. Demonstrates[name] \notin Run(e, broken)
    BY DEF Run
  <2> QED
    BY <2>1, QuietFacts, AttackAfter DEF War, Taking
<1>6. Hope(name, need)'
  <2>1. Cardinality(broken) >= 1
    <3>1. Cardinality(broken) # 0 /\ Cardinality(broken) \in Nat
      BY FS_EmptySet, FS_CardinalityType
    <3> QED
      BY <3>1
  <2>2. Cardinality(Promise(name, queue, topic, log, taken)) >= need + left.faults
    BY DEF War, Hope, Windowed
  <2> QED
    BY <2>1, <2>2, TakeHope
<1> QED
  BY <1>1, <1>2, <1>4, <1>5, <1>6, WarStill

\* Nothing of the attack's is added to its window.
LEMMA CaughtSame ==
    ASSUME IdInv, Own, NEW name, NEW i, NEW e, NEW broken, NEW again, NEW new, Takes(i, e, broken, again, new),
           topic[i].from = "attack" => ~\E w \in Asked(e, broken) : w.mode = "add" /\ w.key = Target(name)
    PROVE  CaughtIn(name, log', taken') = CaughtIn(name, log, taken)
<1>1. CaughtIn(name, log, taken) \subseteq CaughtIn(name, log', taken')
  BY CaughtAfter
<1>2. \A m \in CaughtIn(name, log', taken') :
        \/ m \in CaughtIn(name, log, taken)
        \/ /\ topic[i].from = "attack"
           /\ \E w \in Asked(e, broken) : w.mode = "add" /\ w.key = Target(name) /\ m = Member(w, e)
  BY CaughtAfter
<1> QED
  BY <1>1, <1>2

\* The breach and the background leave the window as it is.
LEMMA WarAside ==
    ASSUME QuietInv, QuietInv', Own', NEW name \in Windowed, NEW need \in Nat, War(name, need),
           NEW i, NEW e, NEW broken, NEW again, NEW new, Takes(i, e, broken, again, new),
           Taking(name, i, e, broken), ~(topic[i].from = "attack" /\ Aimed(name, topic[i].raw)),
           Times', ShotsOf(name)', InOrder(name)', attack'.scenario = name
    PROVE  War(name, need)'
<1> DEFINE T == Target(name)
           rule == Demonstrates[name]
<1>1. /\ i \in 1..Len(topic) /\ e = FromRaw(topic[i].raw, clock, Cardinality(taken)) /\ clock \in Nat
      /\ Evaluate(e, broken, topic[i].from = "attack") /\ queue' = queue
      /\ attack.at \in Nat /\ attack.at <= clock /\ name \in Names
      /\ topic[i].from \in {"attack", "normal"} /\ ReadIn(taken', topic[i].n)
  BY QuietFacts DEF Taking, War, Times, Own
<1>2. ASSUME topic[i].from = "attack", rule \in Run(e, broken)
      PROVE  /\ name = "ssh_brute_force" /\ Window(rule, e) \in Asked(e, broken)
             /\ Window(rule, e).key = T /\ Window(rule, e).mode = "measure"
  <2>1. Applies(rule, e)
    BY <1>2 DEF Run
  <2>2. Shot(name, attack.at, topic[i].raw) /\ ~Aimed(name, topic[i].raw)
    BY <1>2 DEF Taking
  <2>3. name = "ssh_brute_force" /\ Window(rule, e).key = T /\ Window(rule, e).mode = "measure"
    BY <1>1, <2>1, <2>2, AsideShot
  <2>4. Window(rule, e) \in Asked(e, broken)
    BY <1>2, AimFacts DEF Asked
  <2> QED
    BY <2>3, <2>4
<1>3. ASSUME NEW w \in Asked(e, broken), w.key = T, w.mode = "add"
      PROVE  /\ topic[i].from = "normal" /\ name # "ssh_brute_force"
             /\ name = "data_exfiltration" => w.value \in Nat
  <2>1. w = Window(rule, e) /\ rule \in Run(e, broken)
    BY <1>1, <1>3, TargetAsked
  <2>2. topic[i].from = "normal"
    BY <1>1, <1>2, <1>3, <2>1
  <2> QED
    BY <1>1, <1>3, <2>2, AsideNormal
<1>4. CaughtIn(name, log', taken') = CaughtIn(name, log, taken)
  <2>1. IdInv /\ Own
    BY QuietFacts DEF War
  <2>2. topic[i].from = "attack" => ~\E w \in Asked(e, broken) : w.mode = "add" /\ w.key = Target(name)
    BY <1>3
  <2> QED
    BY <2>1, <2>2, CaughtSame
<1>5. WindowClean(name)'
  <2>1. \A m \in LogAt(log', T) : \/ m \in LogAt(log, T)
                                  \/ \E w \in Asked(e, broken) : w.mode = "add" /\ w.key = T /\ m = Member(w, e)
    BY <1>1, LogAfter
  <2>2. name = "ssh_brute_force" => LogAt(log', T) \subseteq CaughtIn(name, log, taken)
    BY <1>3, <2>1 DEF War, WindowClean
  <2>3. name = "data_exfiltration" => \A m \in LogAt(log', T) : m.value \in Nat
    BY <1>3, <2>1 DEF War, WindowClean, Member
  <2> QED
    BY <1>4, <2>2, <2>3 DEF WindowClean
<1>6. Hope(name, need)'
  <2>1. Cardinality(Promise(name, queue, topic, log, taken)) >= need + left.faults
    BY DEF War, Hope, Windowed
  <2> QED
    BY <2>1, TakeHope
<1>7. ASSUME CaughtIn(name, log, taken) # {}, Waiting(queue', topic', taken')
      PROVE  ~\E w \in Asked(e, broken) : w.key = T
  <2> SUFFICES ASSUME NEW w \in Asked(e, broken), w.key = T PROVE FALSE
    OBVIOUS
  <2>1. PartitionKey(topic[i].raw) = AttackIp
    BY <1>1, TargetAsked
  <2>2. Begun(taken)
    BY <1>7 DEF CaughtIn, Marked, Begun
  <2>3. Over(queue, topic, i)
    <3>1. Late(name, topic, taken, i)
      BY <2>1, <2>2 DEF Late, Aside
    <3> QED
      BY <1>1, <3>1 DEF War, InOrder
  <2>4. \A j \in 1..(i - 1) : topic[j].from # "attack"
    <3>1. \A j \in 1..(i - 1) : PartitionKey(topic[j].raw) # AttackIp /\ j \in 1..Len(topic)
      BY <1>1, <2>1, QuietFacts DEF Takes, IsTopic
    <3> QED
      BY <3>1, ShotKey DEF War, ShotsOf
  <2>5. \A j \in 1..Len(topic) : topic[j].from = "attack" => j = i
    <3>1. \A j \in 1..Len(topic) : j \in 1..(i - 1) \/ j = i \/ j \in (i + 1)..Len(topic)
      BY <1>1, QuietFacts DEF IsTopic
    <3> QED
      BY <2>3, <2>4, <3>1 DEF Over
  <2>6. \A j \in 1..Len(topic') : \E k \in 1..Len(topic) : topic'[j] = topic[k]
    BY <1>1, QuietFacts, FinishTopic DEF Takes
  <2> QED
    BY <1>1, <1>7, <2>3, <2>5, <2>6 DEF Waiting, Over
<1>8. ASSUME CaughtIn(name, log, taken) # {}, Waiting(queue', topic', taken')
      PROVE  attack'.evaluated = attack.evaluated
  <2>1. ~(topic[i].from = "attack" /\ rule \in Run(e, broken))
    BY <1>2, <1>7, <1>8
  <2> QED
    BY <1>1, <2>1, AttackAfter DEF War
<1> QED
  BY <1>4, <1>5, <1>6, <1>7, <1>8, WarStill

\* A command the host reports fires RULE-004, whatever the windows.
LEMMA CommandFires ==
    ASSUME NEW at \in Nat, NEW now \in Nat, at <= now, NEW raw, Shot("privilege_escalation", at, raw),
           Aimed("privilege_escalation", raw), NEW fresh, NEW e, e = FromRaw(raw, now, fresh),
           NEW broken, "RULE-004" \notin broken
    PROVE  <<"RULE-004", "high">> \in Evaluation(e, broken).detections
<1>1. e.event_type = "privilege_escalation"
  <2> DEFINE name == "privilege_escalation"
  <2>1. name \in Launchable /\ Shot(name, at, raw)
    BY DEF Launchable
  <2> HIDE DEF name
  <2>2. e.event_type = raw.event_type
    BY <2>1, ShotEvent
  <2> QED
    BY <2>2 DEF Aimed
<1>2. Applies("RULE-004", e)
  BY <1>1 DEF Applies, EscalationApplies
<1>3. "RULE-004" \in Run(e, broken)
  BY <1>2 DEF Run, Rules
<1>4. EscalationVerdict(e) = "high"
  BY <1>1 DEF EscalationVerdict
<1>5. Verdict("RULE-004", e, SeenBy("RULE-004", e)) = "high"
  BY <1>4 DEF Verdict
<1> DEFINE v == Verdict("RULE-004", e, SeenBy("RULE-004", e))
<1>6. v # Quiet /\ v # "raises" => <<"RULE-004", v>> \in Evaluation(e, broken).detections
  BY <1>3, Detected
<1>7. v = "high"
  BY <1>5
<1> HIDE DEF v
<1> QED
  BY <1>6, <1>7 DEF Quiet

\* A command fires the rule, or its detector raises.
LEMMA WarCommand ==
    ASSUME QuietInv, QuietInv', Own', NEW name, name = "privilege_escalation", NEW need \in Nat, War(name, need),
           NEW i, NEW e, NEW broken, NEW again, NEW new, Takes(i, e, broken, again, new),
           Taking(name, i, e, broken), IsFiniteSet(broken),
           Times', ShotsOf(name)', InOrder(name)', attack'.scenario = name
    PROVE  War(name, need)'
<1>1. name \notin Windowed /\ name \in DOMAIN Demonstrates /\ Demonstrates[name] = "RULE-004"
  BY DEF Windowed, Demonstrates
<1>2. CaughtRight(name)' /\ WindowClean(name)' /\ Fires(name, need)' /\ Alive(name)'
  BY <1>1 DEF CaughtRight, CaughtIn, WindowClean, Fires, Alive
<1>3. /\ attack.fired \subseteq attack'.fired
      /\ topic[i].from = "attack" => Evaluation(e, broken).detections \subseteq attack'.fired
  BY QuietFacts, AttackAfter DEF War, Taking
<1>4. Hope(name, need)'
  <2>1. CASE FiredBy(name, attack.fired)
    BY <1>3, <2>1 DEF Hope, FiredBy
  <2>2. CASE topic[i].from = "attack" /\ Aimed(name, topic[i].raw) /\ "RULE-004" \notin broken
    <3>1. attack.at \in Nat /\ clock \in Nat /\ attack.at <= clock
      BY QuietFacts DEF War, Times
    <3>2. Shot(name, attack.at, topic[i].raw) /\ e = FromRaw(topic[i].raw, clock, Cardinality(taken))
      BY <2>2 DEF Taking
    <3>3. <<"RULE-004", "high">> \in Evaluation(e, broken).detections
      BY <2>2, <3>1, <3>2, CommandFires
    <3>4. <<"RULE-004", "high">> \in attack'.fired /\ <<"RULE-004", "high">>[1] = "RULE-004"
      BY <1>3, <2>2, <3>3
    <3> QED
      BY <1>1, <3>4 DEF Hope, FiredBy
  <2>3. ASSUME ~FiredBy(name, attack.fired),
               ~(topic[i].from = "attack" /\ Aimed(name, topic[i].raw)) \/ "RULE-004" \in broken
        PROVE  Hope(name, need)'
    <3>1. Cardinality(Promise(name, queue, topic, log, taken)) >= need + left.faults
      BY <2>3 DEF War, Hope
    <3>2. "RULE-004" \in broken => Cardinality(broken) >= 1
      <4>1. Cardinality(broken) \in Nat /\ (broken # {} => Cardinality(broken) # 0)
        BY FS_EmptySet, FS_CardinalityType
      <4> QED
        BY <4>1
    <3> QED
      BY <2>3, <3>1, <3>2, TakeHope
  <2> QED
    BY <2>1, <2>2, <2>3
<1> QED
  BY <1>2, <1>4 DEF War, Taking

\* Whatever is evaluated.
LEMMA WarTake ==
    ASSUME QuietInv, QuietInv', Own', NEW name, NEW need \in Nat, NEW least, Suffices(name, need, least),
           War(name, need), NEW i, NEW e, NEW broken, NEW again, NEW new, Takes(i, e, broken, again, new),
           broken = {} \/ (\E rule : broken = {rule})
    PROVE  War(name, need)'
<1>1. /\ Taking(name, i, e, broken)
      /\ Times' /\ ShotsOf(name)' /\ InOrder(name)' /\ attack'.scenario = name
  BY TakingFacts
<1>2. IsFiniteSet(broken)
  BY FS_EmptySet, FS_Singleton
<1>3. name \in Windowed \/ name = "privilege_escalation"
  BY DEF War, Launchable
<1>4. CASE Hits(name, i, broken)
  BY <1>1, <1>4, WarHit
<1>5. CASE name \in Windowed /\ topic[i].from = "attack" /\ Aimed(name, topic[i].raw) /\ Demonstrates[name] \in broken
  BY <1>1, <1>2, <1>5, WarMiss
<1>6. CASE name \in Windowed /\ ~(topic[i].from = "attack" /\ Aimed(name, topic[i].raw))
  BY <1>1, <1>6, WarAside
<1>7. CASE name = "privilege_escalation"
  BY <1>1, <1>2, <1>7, WarCommand
<1> QED
  BY <1>3, <1>4, <1>5, <1>6, <1>7 DEF Hits

-----------------------------------------------------------------------------
(* The login that ends a brute force.                                      *)

\* Who measures the window of the address a brute force comes from.
LEMMA MeasureIs ==
    ASSUME NEW e, NEW broken, NEW l \in Looks(e, broken),
           l.rule = "RULE-001", l.mode = "measure", l.key[2] = AttackIp
    PROVE  LET w == Window("RULE-001", e)
           IN  /\ w \in Asked(e, broken) /\ w.key = Target("ssh_brute_force") /\ w.mode = "measure"
               /\ w.rule = "RULE-001" /\ "RULE-001" \in Run(e, broken)
               /\ e.event_type = "authentication_success"
<1> DEFINE name == "ssh_brute_force"
           w == Window("RULE-001", e)
<1>1. PICK v \in Asked(e, broken) : l.key = v.key /\ l.rule = v.rule /\ l.mode = v.mode
  BY DEF Looks
<1>2. PICK rule \in Run(e, broken) \cap WindowRules : v = Window(rule, e)
  BY <1>1 DEF Asked
<1>3. rule = "RULE-001" /\ v = w
  BY <1>1, <1>2, WindowFacts
<1>4. Applies("RULE-001", e)
  BY <1>2, <1>3 DEF Run
<1>5. w = BruteForceWindow(e)
  BY DEF Window
<1>6. e.event_type = "authentication_success"
  <2> SUFFICES ASSUME e.event_type # "authentication_success" PROVE FALSE
    OBVIOUS
  <2>1. w = Add("RULE-001", "bruteforce", e.source_ip, e.username)
    BY <1>5 DEF BruteForceWindow
  <2>2. w.mode = "add"
    BY <2>1 DEF Add
  <2> QED
    BY <1>1, <1>3, <2>2
<1>7. w.key = <<"bruteforce", e.source_ip>>
  BY <1>5, <1>6 DEF BruteForceWindow, Measure
<1>8. w.key = Target(name)
  <2>1. w.key[2] = AttackIp
    BY <1>1, <1>3
  <2> HIDE DEF w
  <2>2. e.source_ip = AttackIp
    BY <1>7, <2>1
  <2> QED
    BY <1>7, <2>2 DEF Target
<1>9. w \in Asked(e, broken)
  BY <1>1, <1>3
<1> QED
  BY <1>1, <1>2, <1>3, <1>6, <1>8, <1>9

\* It is the breach, and no other login.
LEMMA BreachIs ==
    ASSUME QuietInv, NEW need \in Nat, War("ssh_brute_force", need), NEW i, NEW e, NEW broken,
           Taking("ssh_brute_force", i, e, broken), NEW l \in Looks(e, broken),
           l.rule = "RULE-001", l.mode = "measure", l.key[2] = AttackIp
    PROVE  LET w == Window("RULE-001", e)
           IN  /\ w \in Asked(e, broken) /\ w.key = Target("ssh_brute_force") /\ w.mode = "measure"
               /\ w.rule = "RULE-001" /\ "RULE-001" \in Run(e, broken)
               /\ e.event_type = "authentication_success"
               /\ topic[i].from = "attack" /\ ~Aimed("ssh_brute_force", topic[i].raw)
               /\ PartitionKey(topic[i].raw) = AttackIp
<1> DEFINE name == "ssh_brute_force"
           w == Window("RULE-001", e)
<1>1. /\ i \in 1..Len(topic) /\ e = FromRaw(topic[i].raw, clock, Cardinality(taken)) /\ clock \in Nat
      /\ attack.at \in Nat /\ attack.at <= clock /\ name \in Names /\ name \in Windowed
      /\ topic[i].from \in {"attack", "normal"}
      /\ topic[i].from = "attack" => Shot(name, attack.at, topic[i].raw)
  BY QuietFacts DEF Taking, War, Times, Own, Windowed
<1>2. /\ w \in Asked(e, broken) /\ w.key = Target(name) /\ w.mode = "measure"
      /\ w.rule = "RULE-001" /\ "RULE-001" \in Run(e, broken)
      /\ e.event_type = "authentication_success"
  BY MeasureIs
<1>3. topic[i].from = "attack"
  <2>1. topic[i].from # "normal"
    <3> HIDE DEF w
    <3> QED
      BY <1>1, <1>2, AsideNormal
  <2> QED
    BY <1>1, <2>1
<1>4. ~Aimed(name, topic[i].raw)
  <2>1. e.event_type = topic[i].raw.event_type
    <3>1. name \in Launchable
      BY <1>1 DEF Launchable
    <3> QED
      BY <1>1, <1>3, <3>1, ShotEvent
  <2> QED
    BY <1>2, <2>1 DEF Aimed
<1>5. PartitionKey(topic[i].raw) = AttackIp
  BY <1>1, <1>3, ShotKey
<1> QED
  BY <1>2, <1>3, <1>4, <1>5

\* By then all of the spree that is not lost has been counted.
LEMMA BreachIsLast ==
    ASSUME QuietInv, NEW name \in Windowed, NEW need \in Nat, War(name, need), NEW i \in 1..Len(topic),
           topic[i].from = "attack", ~Aimed(name, topic[i].raw), PartitionKey(topic[i].raw) = AttackIp,
           \A j \in 1..(i - 1) : PartitionKey(topic[j].raw) # PartitionKey(topic[i].raw)
    PROVE  Cardinality(TallyOf(name, log, taken)) \in Nat /\ Cardinality(TallyOf(name, log, taken)) >= need
<1>1. Over(queue, topic, i)
  <2>1. Late(name, topic, taken, i)
    BY DEF Late, Aside
  <2> QED
    BY <2>1 DEF War, InOrder
<1>2. \A j \in 1..(i - 1) : topic[j].from # "attack"
  <2>1. \A j \in 1..(i - 1) : PartitionKey(topic[j].raw) # AttackIp /\ j \in 1..Len(topic)
    BY QuietFacts DEF IsTopic
  <2> QED
    BY <2>1, ShotKey DEF War, ShotsOf
<1>3. \A j \in 1..Len(topic) : topic[j].from = "attack" => j = i
  <2>1. \A j \in 1..Len(topic) : j \in 1..(i - 1) \/ j = i \/ j \in (i + 1)..Len(topic)
    BY QuietFacts DEF IsTopic
  <2> QED
    BY <1>1, <1>2, <2>1 DEF Over
<1>4. UnreadOf(name, topic, taken) = {}
  BY <1>3 DEF UnreadOf, IsUnread
<1>5. AheadOf(name, queue) = {}
  <2>1. queue = <<>>
    BY <1>1 DEF Over
  <2>2. \A r \in 1..Len(queue) : FALSE
    BY <2>1
  <2> QED
    BY <2>2 DEF AheadOf
<1>6. Promise(name, queue, topic, log, taken) = TallyOf(name, log, taken)
  BY <1>4, <1>5 DEF Promise
<1>7. Cardinality(TallyOf(name, log, taken)) >= need + left.faults
  BY <1>6 DEF War, Hope, Windowed
<1>8. IsFiniteSet(TallyOf(name, log, taken)) /\ left.faults \in Nat
  BY QuietFacts, TallyFinite DEF Kinds
<1>9. Cardinality(TallyOf(name, log, taken)) \in Nat
  BY <1>8, FS_CardinalityType
<1> QED
  BY <1>7, <1>8, <1>9

\* It is critical just when the window still holds what has been counted.
LEMMA TakeEscalates ==
    ASSUME QuietInv, QuietInv', NEW name, NEW need \in Nat, NEW least, Suffices(name, need, least),
           War(name, need), NEW i, NEW e, NEW broken, NEW again, NEW new, Takes(i, e, broken, again, new),
           Taking(name, i, e, broken), attack'.scenario = name
    PROVE  BreachEscalates'
<1> SUFFICES ASSUME name = "ssh_brute_force", NEW l \in last'.looks, l.rule = "RULE-001", l.mode = "measure",
                    l.key[2] = AttackIp, attack'.gap < Params["RULE-001"].window + Slack
             PROVE  <<"RULE-001", "critical">> \in last'.detections
                      <=> last'.at - attack'.at < Params["RULE-001"].window
  BY DEF BreachEscalates
<1> DEFINE w == Window("RULE-001", e)
           T == Target(name)
           C == CaughtIn(name, log, taken)
           span == Params["RULE-001"].window
           max == Params["RULE-001"].max
           found == SeenBy("RULE-001", e)
<1>1. /\ name \in Windowed /\ Demonstrates[name] = "RULE-001" /\ name \in DOMAIN Demonstrates
      /\ "RULE-001" \in WindowRules /\ attack.scenario = name
  <2>1. name \in Windowed
    BY DEF Windowed
  <2> QED
    BY <2>1, AimFacts DEF Demonstrates, War
<1>2. span \in Nat /\ span > 0 /\ Slack \in Nat /\ Reach(name) \in Nat /\ Reach(name) = span + Slack
  BY <1>1, ReachNat DEF Reach
<1>3. max \in Nat /\ max > 0 /\ need >= max
  BY <1>1, MaxNat DEF Suffices
<1>4. Evaluate(e, broken, topic[i].from = "attack") /\ clock \in Nat /\ i \in 1..Len(topic)
  BY QuietFacts DEF Taking
<1>5. last'.looks = Looks(e, broken) /\ last'.at = clock /\ last'.detections = Evaluation(e, broken).detections
      /\ attack'.at = attack.at
  BY <1>4, AttackAfter DEF War
<1>6. /\ w \in Asked(e, broken) /\ w.key = T /\ w.mode = "measure" /\ w.rule = "RULE-001"
      /\ "RULE-001" \in Run(e, broken) /\ e.event_type = "authentication_success"
      /\ topic[i].from = "attack" /\ ~Aimed(name, topic[i].raw) /\ PartitionKey(topic[i].raw) = AttackIp
  BY <1>5, BreachIs
<1>7. /\ attack'.gap \in Nat /\ attack'.gap >= attack.gap /\ attack'.gap >= clock - attack.evaluated
      /\ attack.gap \in Nat /\ attack.evaluated \in Nat /\ attack.at \in Nat /\ attack.at <= clock
  BY <1>1, <1>4, <1>6, AttackAfter DEF War, Times
<1>8. Cardinality(TallyOf(name, log, taken)) \in Nat /\ Cardinality(TallyOf(name, log, taken)) >= need
  BY <1>1, <1>4, <1>6, BreachIsLast DEF Takes
<1>9. IsFiniteSet(C) /\ Cardinality(C) \in Nat /\ Cardinality(C) >= max
  <2>1. IsFiniteSet(C) /\ Cardinality(TallyOf(name, log, taken)) <= Cardinality(C)
    BY QuietFacts, CaughtFinite, TallyFinite
  <2> QED
    BY <1>3, <1>8, <2>1, FS_CardinalityType
<1> HIDE DEF w, T, C, span, max
<1>10. C # {}
  BY <1>3, <1>9, FS_EmptySet
<1>11. C \subseteq MembersAt(windows, T)
  <2>1. Timely(name) /\ clock < attack.evaluated + Reach(name)
    <3> DEFINE gap == attack'.gap
               reach == Reach(name)
    <3>1. gap < reach
      BY <1>2 DEF span
    <3>2. gap \in Nat /\ reach \in Nat /\ gap >= attack.gap /\ gap >= clock - attack.evaluated
      BY <1>2, <1>7
    <3> HIDE DEF gap, reach
    <3> DEFINE before == attack.gap
               then == attack.evaluated
    <3>3. before < reach /\ clock < then + reach
      <4>1. before \in Nat /\ then \in Nat /\ clock \in Nat /\ gap >= before /\ gap >= clock - then
        BY <1>4, <1>7, <3>2
      <4> HIDE DEF before, then
      <4> QED
        BY <3>1, <3>2, <4>1
    <3> QED
      BY <3>3 DEF Timely, reach
  <2>2. Waiting(queue, topic, taken)
    BY <1>6 DEF Taking
  <2> QED
    BY <1>1, <1>10, <2>1, <2>2 DEF War, Alive, Holds, C, T
<1>12. MembersAt(windows, T) \subseteq C
  <2>1. MembersAt(windows, T) \subseteq LogAt(log, T)
    <3>1. \A k \in DOMAIN windows : windows[k].members \subseteq log[k] /\ k \in DOMAIN log
      BY DEF QuietInv, IdInv, Typed, TypeOK
    <3> QED
      BY <3>1 DEF MembersAt, LogAt
  <2> QED
    BY <2>1 DEF War, WindowClean, C, T
<1>13. \A m \in C : m.ts = attack.at
  BY DEF War, CaughtRight, C
<1>14. found = {m \in C : m.ts > clock - span}
  <2>1. found = Looked(w, e).members
    BY <1>1 DEF SeenBy, w
  <2>2. Looked(w, e).members = {m \in MembersAt(windows, w.key) : m.ts > clock - Params[w.rule].window}
    BY <1>6, LookedFacts, QuietFacts DEF IdInv
  <2>3. MembersAt(windows, T) = C
    BY <1>11, <1>12
  <2> HIDE DEF found
  <2> QED
    BY <1>6, <2>1, <2>2, <2>3 DEF span
<1> DEFINE v == Verdict("RULE-001", e, found)
<1> HIDE DEF found
<1>15. v = BruteForceVerdict(e, found)
  BY DEF Verdict
<1>16. CASE clock - attack.at < span
  <2>1. found = C
    <3>1. \A m \in C : m.ts > clock - span
      <4> DEFINE began == attack.at
      <4>1. began \in Nat /\ clock - began < span /\ \A m \in C : m.ts = began
        BY <1>7, <1>13, <1>16
      <4> HIDE DEF began
      <4> QED
        BY <1>2, <1>4, <4>1
    <3> QED
      BY <1>14, <3>1
  <2>2. v = "critical"
    BY <1>3, <1>6, <1>9, <1>15, <2>1 DEF BruteForceVerdict, max
  <2> HIDE DEF v
  <2>3. v = Verdict("RULE-001", e, SeenBy("RULE-001", e))
    BY DEF v, found
  <2>4. v # Quiet /\ v # "raises"
    BY <2>2 DEF Quiet
  <2>5. <<"RULE-001", v>> \in Evaluation(e, broken).detections
    BY <1>6, <2>3, <2>4, Detected
  <2> QED
    BY <1>5, <1>16, <2>2, <2>5 DEF span
<1>17. CASE ~(clock - attack.at < span)
  <2>1. found = {}
    BY <1>2, <1>4, <1>7, <1>13, <1>14, <1>17
  <2>2. v = Quiet
    BY <1>3, <1>15, <2>1, FS_EmptySet DEF BruteForceVerdict, max
  <2> HIDE DEF v
  <2>3. <<"RULE-001", "critical">> \notin Evaluation(e, broken).detections
    <3> SUFFICES ASSUME <<"RULE-001", "critical">> \in Evaluation(e, broken).detections PROVE FALSE
      OBVIOUS
    <3>1. "critical" = Verdict("RULE-001", e, SeenBy("RULE-001", e))
      BY DetectedOnly
    <3>2. v = "critical"
      BY <3>1 DEF v, found
    <3> QED
      BY <2>2, <3>2 DEF Quiet
  <2> QED
    BY <1>5, <1>17, <2>3 DEF span
<1> QED
  BY <1>16, <1>17

-----------------------------------------------------------------------------
(* The invariant: before the attack, during it, and without one.           *)

\* No attack is to come whose rule is promised; one may still be launched, and only
\* background has been sent; one is under way.
Moot ==
    /\ left.launches = 0 \/ Names = {}
    /\ attack.scenario \notin Launchable

Untouched ==
    "ssh_brute_force" \in Names =>
        /\ LogAt(log, Target("ssh_brute_force")) = {}
        /\ \A l \in last.looks : ~(l.rule = "RULE-001" /\ l.mode = "measure" /\ l.key[2] = AttackIp)

Ready ==
    /\ Own /\ queue = <<>> /\ attack.scenario = "none" /\ left.launches <= 1
    /\ \E budget \in Budgets : budget.launches > 0 /\ left.faults <= budget.faults
    /\ \A i \in 1..Len(topic) : topic[i].from = "normal"
    /\ OnlyBackground /\ Untouched

AtWar == \E name, need, least : Suffices(name, need, least) /\ War(name, need)

AttackInv == QuietInv /\ BreachEscalates /\ (Moot \/ Ready \/ AtWar)

\* The names with a rule.
LEMMA LaunchableIs == Launchable = DOMAIN Demonstrates /\ "none" \notin Launchable
<1>1. DOMAIN Demonstrates = {"ssh_brute_force", "credential_attack", "port_scan", "privilege_escalation",
                             "data_exfiltration"}
  BY DEF Demonstrates
<1> QED
  BY <1>1 DEF Launchable, Windowed

\* Nothing is launched at first.
LEMMA InitAttack == Init => AttackInv
<1> SUFFICES ASSUME Init PROVE AttackInv
  OBVIOUS
<1>1. QuietInv
  BY InitQuiet
<1>2. left \in Budgets /\ attack.scenario = "none" /\ queue = <<>> /\ topic = <<>> /\ taken = {} /\ log = <<>>
      /\ last.looks = {}
  BY DEF Init, NoAttack, Nothing
<1>3. BreachEscalates
  BY <1>2 DEF BreachEscalates
<1>4. CASE left.launches = 0 \/ Names = {}
  BY <1>1, <1>2, <1>3, <1>4, LaunchableIs DEF AttackInv, Moot
<1>5. CASE left.launches # 0 /\ Names # {}
  <2>1. left.launches \in Nat /\ left.launches > 0 /\ left.faults \in Nat
    BY <1>2, <1>5, BudgetNat
  <2>2. left.launches = 1 /\ left.foreign = 0
    BY <1>2, <1>5, <2>1, EnoughAssumption
  <2>3. \A i \in 1..Len(topic) : FALSE
    BY <1>2
  <2>4. \A k \in DOMAIN log : FALSE
    BY <1>2
  <2>5. Own
    BY <1>2, <2>2, <2>3, <2>4 DEF Own
  <2>6. OnlyBackground /\ Untouched
    BY <1>2, <2>4 DEF OnlyBackground, Untouched, LogAt
  <2>7. Ready
    BY <1>2, <2>1, <2>2, <2>3, <2>5, <2>6 DEF Ready
  <2> QED
    BY <1>1, <1>3, <2>7 DEF AttackInv
<1> QED
  BY <1>4, <1>5

\* The first instance of a scenario.
LEMMA LaunchBegins ==
    ASSUME QuietInv, QuietInv', Own', Ready, BreachEscalates, NEW name \in Names, Launch(name)
    PROVE  BreachEscalates' /\ (Moot' \/ AtWar')
<1>1. PICK s \in Instances(name, clock) : queue' = s
  BY DEF Launch
<1>2. /\ UNCHANGED <<clock, topic, windows, last, log, taken>>
      /\ attack' = [NoAttack EXCEPT !.scenario = name, !.at = clock, !.evaluated = clock]
      /\ left.launches > 0 /\ left'.launches = left.launches - 1 /\ left'.faults = left.faults
      /\ left.faults \in Nat /\ left.launches \in Nat /\ clock \in Nat
  BY QuietFacts DEF Launch, Spend, Kinds
<1>3. /\ attack'.scenario = name /\ attack'.at = clock /\ attack'.evaluated = clock /\ attack'.gap = 0
      /\ DOMAIN attack' = DOMAIN NoAttack
  BY <1>2 DEF NoAttack
<1>4. left'.launches = 0
  BY <1>2 DEF Ready
<1>5. BreachEscalates'
  BY <1>2, <1>3 DEF BreachEscalates, Ready, Untouched
<1>6. CASE name \notin Launchable
  BY <1>3, <1>4, <1>5, <1>6 DEF Moot
<1>7. CASE name \in Launchable
  <2>1. PICK budget \in Budgets : budget.launches > 0 /\ left.faults <= budget.faults
    BY DEF Ready
  <2>2. IsShots(name, clock, s)
        /\ \E need, least : /\ Suffices(name, need, least)
                            /\ Cardinality(AheadOf(name, s)) \in Nat
                            /\ Cardinality(AheadOf(name, s)) >= need + budget.faults
    BY <1>7, <2>1, LaunchSupplies DEF Supplies
  <2>3. PICK need, least : /\ Suffices(name, need, least)
                           /\ Cardinality(AheadOf(name, s)) \in Nat
                           /\ Cardinality(AheadOf(name, s)) >= need + budget.faults
    BY <2>2
  <2>4. need \in Nat /\ budget.faults \in Nat
    BY <2>1, <2>3, BudgetNat DEF Suffices
  <2>5. \A i \in 1..Len(topic) : topic[i].from # "attack"
    BY DEF Ready
  <2>6. \A t \in taken : t.from # "attack"
    BY DEF Ready, OnlyBackground
  <2>7. CaughtIn(name, log, taken) = {} /\ TallyOf(name, log, taken) = {}
    BY <2>6 DEF CaughtIn, Marked, TallyOf
  <2>8. Times'
    BY <1>2, <1>3 DEF Times
  <2>9. ShotsOf(name)'
    BY <1>1, <1>2, <1>3, <2>2, <2>5 DEF ShotsOf, IsShots
  <2>10. InOrder(name)'
    <3>1. \A i \in 1..Len(topic) : ~Late(name, topic, taken, i)
      <4> SUFFICES ASSUME NEW i \in 1..Len(topic), Late(name, topic, taken, i) PROVE FALSE
        OBVIOUS
      <4>1. \A j \in 1..(i - 1) : j \in 1..Len(topic)
        BY QuietFacts DEF IsTopic
      <4> QED
        BY <2>5, <2>6, <4>1 DEF Late, Begun
    <3> QED
      BY <1>1, <1>2, <2>2, <3>1 DEF InOrder, IsShots
  <2>11. CaughtRight(name)' /\ Alive(name)'
    BY <1>2, <2>7 DEF CaughtRight, Alive
  <2>12. WindowClean(name)'
    <3>1. ASSUME name = "data_exfiltration", NEW m \in LogAt(log, Target(name)) PROVE m.value \in Nat
      <4>1. Target(name) \in DOMAIN log /\ m \in log[Target(name)]
        BY <3>1 DEF LogAt
      <4>2. Likely(Target(name), m.value)
        BY <4>1 DEF QuietInv, Usual, Ready
      <4>3. Target(name) = <<"exfil", <<AttackIp, CoerceIp("outside")>>>>
        BY <3>1 DEF Target
      <4>4. m.value = 1
        BY <4>2, <4>3 DEF Likely
      <4> QED
        BY <4>4
    <3>2. name = "ssh_brute_force" => LogAt(log, Target(name)) = {}
      BY DEF Ready, Untouched
    <3> QED
      BY <1>2, <3>1, <3>2 DEF WindowClean
  <2>13. Hope(name, need)'
    <3> DEFINE A == AheadOf(name, s)
               P == Promise(name, s, topic, log, taken)
    <3>1. IsFiniteSet(P) /\ A \subseteq P
      <4>1. IsTopic(s) /\ IsTopic(topic)
        BY <2>2, QuietFacts DEF IsShots
      <4> QED
        BY <4>1, QuietFacts, PromiseFinite DEF Promise
    <3>2. Cardinality(A) \in Nat /\ Cardinality(A) >= need + budget.faults
      BY <2>3
    <3> HIDE DEF A, P
    <3>3. Cardinality(P) \in Nat /\ Cardinality(P) >= Cardinality(A)
      BY <3>1, NoneLost
    <3>4. Cardinality(P) >= need + left'.faults
      BY <1>2, <2>1, <2>4, <3>2, <3>3
    <3> QED
      BY <1>1, <1>2, <3>4 DEF Hope, P
  <2>14. Fires(name, need)'
    <3>1. ASSUME name \in Windowed PROVE need > 0
      <4>1. /\ Params["RULE-001"].max > 0 /\ Params["RULE-002"].max > 0 /\ Params["RULE-003"].max > 0
            /\ Params["RULE-006"].max > 0
            /\ {Params["RULE-001"].max, Params["RULE-002"].max, Params["RULE-003"].max, Params["RULE-006"].max}
                 \subseteq Nat
        BY DetectionAssumption, MaxNat
      <4>2. CASE name = "data_exfiltration"
        <5>1. need # 0
          BY <2>3, <4>1, <4>2 DEF Suffices
        <5> QED
          BY <2>4, <5>1
      <4> QED
        BY <2>3, <2>4, <3>1, <4>1, <4>2 DEF Suffices, Windowed
    <3>2. Cardinality(TallyOf(name, log, taken)) = 0
      BY <2>7, FS_EmptySet
    <3> QED
      BY <1>2, <2>4, <3>1, <3>2 DEF Fires
  <2>15. War(name, need)'
    BY <1>3, <1>4, <1>7, <2>8, <2>9, <2>10, <2>11, <2>12, <2>13, <2>14 DEF War
  <2> QED
    BY <1>5, <2>3, <2>15 DEF AtWar
<1> QED
  BY <1>6, <1>7

\* The steps of the three situations.
LEMMA SameScenario ==
    ASSUME [Next]_vars, ~\E name \in Names : Launch(name)
    PROVE  attack'.scenario = attack.scenario
<1>1. CASE UNCHANGED attack
  BY <1>1
<1>2. ASSUME NEW i, NEW broken, NEW again, Process(i, broken, again)
      PROVE  attack'.scenario = attack.scenario
  BY <1>2 DEF Process, Evaluate
<1> QED
  BY <1>1, <1>2 DEF Next, vars, Tick, EmitAttack, EmitFails, EmitNormal, Foreign, Reject, Duplicate

LEMMA LaunchesLeft ==
    ASSUME QuietInv, [Next]_vars
    PROVE  /\ left.launches = 0 => left'.launches = 0
           /\ left'.faults <= left.faults
           /\ (~\E name \in Names : Launch(name)) => left'.launches = left.launches
<1>1. left \in [Kinds -> Nat] /\ left.launches \in Nat /\ left.faults \in Nat
  BY QuietFacts DEF Kinds
<1>2. ASSUME NEW kind \in Kinds \ {"launches"}, Spend(kind)
      PROVE  left'.launches = left.launches /\ left'.faults <= left.faults
  BY <1>1, <1>2 DEF Spend, Kinds
<1>3. ASSUME NEW name \in Names, Launch(name)
      PROVE  left.launches # 0 /\ left'.faults <= left.faults
  BY <1>1, <1>3 DEF Launch, Spend, Kinds
<1>4. ASSUME NEW i, NEW again, NEW faults \in Nat, Finish(i, again, faults)
      PROVE  left'.launches = left.launches /\ left'.faults <= left.faults
  BY <1>1, <1>4 DEF Finish, Kinds
<1>5. ASSUME NEW i, NEW broken \in {{}} \cup {{rule} : rule \in Rules}, NEW again, Process(i, broken, again)
      PROVE  left'.launches = left.launches /\ left'.faults <= left.faults
  BY <1>4, <1>5, BrokenFacts DEF Process
<1>6. CASE UNCHANGED vars
  BY <1>1, <1>6 DEF vars
<1>7. CASE Tick \/ EmitFails \/ EmitNormal \/ Foreign
  <2>1. Spend("ticks") \/ Spend("faults") \/ Spend("normal") \/ Spend("foreign")
    BY <1>7 DEF Tick, EmitFails, EmitNormal, Foreign
  <2> QED
    BY <1>2, <2>1 DEF Kinds
<1>8. CASE EmitAttack
  BY <1>1, <1>8 DEF EmitAttack
<1>9. ASSUME NEW i, NEW again, Reject(i, again) \/ Duplicate(i, again)
      PROVE  left'.launches = left.launches /\ left'.faults <= left.faults
  BY <1>4, <1>9 DEF Reject, Duplicate
<1> QED
  BY <1>3, <1>5, <1>6, <1>7, <1>8, <1>9 DEF Next

LEMMA MootStep ==
    ASSUME QuietInv, [Next]_vars, Moot
    PROVE  Moot' /\ BreachEscalates'
<1>1. ~\E name \in Names : Launch(name)
  <2> SUFFICES ASSUME NEW name \in Names, Launch(name) PROVE FALSE
    OBVIOUS
  <2>1. left.launches > 0 /\ left.launches \in Nat
    BY QuietFacts DEF Launch, Spend, Kinds
  <2> QED
    BY <2>1 DEF Moot
<1>2. attack'.scenario = attack.scenario
  BY <1>1, SameScenario
<1>3. attack'.scenario # "ssh_brute_force"
  BY <1>2 DEF Moot, Launchable, Windowed
<1>4. left'.launches = 0 \/ Names = {}
  BY LaunchesLeft DEF Moot
<1> QED
  BY <1>2, <1>3, <1>4 DEF Moot, BreachEscalates

LEMMA ReadyStep ==
    ASSUME QuietInv, QuietInv', Own', [Next]_vars, Ready, BreachEscalates, ~\E name \in Names : Launch(name)
    PROVE  Ready' /\ BreachEscalates'
<1>1. /\ attack'.scenario = "none" /\ left'.launches <= 1
      /\ \E budget \in Budgets : budget.launches > 0 /\ left'.faults <= budget.faults
  <2>1. attack'.scenario = "none" /\ left'.launches <= 1
    BY SameScenario, LaunchesLeft DEF Ready
  <2>2. PICK budget \in Budgets : budget.launches > 0 /\ left.faults <= budget.faults
    BY DEF Ready
  <2>3. left'.faults <= left.faults /\ left.faults \in Nat /\ left'.faults \in Nat /\ budget.faults \in Nat
    BY LaunchesLeft, QuietFacts, BudgetNat DEF Kinds, QuietInv, IdInv, Typed
  <2> QED
    BY <2>1, <2>2, <2>3
<1>2. BreachEscalates'
  BY <1>1 DEF BreachEscalates
<1> DEFINE Same == queue' = <<>> /\ (\A i \in 1..Len(topic') : topic'[i].from = "normal") /\ OnlyBackground' /\ Untouched'
<1>3. IsTopic(topic)
  BY QuietFacts
<1>4. ASSUME UNCHANGED vars PROVE Same
  BY <1>4 DEF vars, Ready, OnlyBackground, Untouched
<1>5. ASSUME Tick PROVE Same
  BY <1>5 DEF Tick, Ready, OnlyBackground, Untouched
<1>6. ASSUME EmitAttack \/ EmitFails PROVE Same
  BY <1>6 DEF EmitAttack, EmitFails, Ready
<1>7. ASSUME Foreign PROVE Same
  BY <1>7 DEF Foreign, Spend, Ready, Own
<1>8. ASSUME EmitNormal PROVE Same
  <2>1. /\ \E raw : Send(raw, "normal")
        /\ UNCHANGED <<queue, last, log, taken>>
    BY <1>8 DEF EmitNormal
  <2>2. PICK raw : Send(raw, "normal")
    BY <2>1
  <2>3. \A j \in 1..Len(topic') : topic'[j].from = "normal"
    BY <2>2, SendFacts DEF Ready
  <2> QED
    BY <2>1, <2>3 DEF Ready, OnlyBackground, Untouched
<1>9. ASSUME NEW i \in 1..InFlight, NEW again \in BOOLEAN, Reject(i, again) \/ Duplicate(i, again)
      PROVE  Same
  <2>1. Drops(i, again)
    BY <1>3, <1>9, DropsIt
  <2>2. \A j \in 1..Len(topic') : \E k \in 1..Len(topic) : topic'[j] = topic[k]
    BY <1>3, <2>1, FinishTopic DEF Drops
  <2> QED
    BY <2>1, <2>2 DEF Drops, Ready, OnlyBackground, Untouched
<1>10. ASSUME NEW i \in 1..InFlight, NEW again \in BOOLEAN, NEW broken, Process(i, broken, again)
       PROVE  Same
  <2>1. PICK e, new : Takes(i, e, broken, again, new)
    BY <1>3, <1>10, ProcessTakes
  <2>2. /\ i \in 1..Len(topic) /\ queue' = queue /\ Finish(i, again, Cardinality(broken))
        /\ e = FromRaw(topic[i].raw, clock, Cardinality(taken))
        /\ Evaluate(e, broken, topic[i].from = "attack") /\ taken' = taken \cup {new} /\ new.from = topic[i].from
    BY <2>1 DEF Takes, Event
  <2>3. \A j \in 1..Len(topic') : \E k \in 1..Len(topic) : topic'[j] = topic[k]
    BY <1>3, <2>2, FinishTopic
  <2>4. topic[i].from = "normal"
    BY <2>2 DEF Ready
  <2>5. OnlyBackground'
    BY <2>2, <2>4 DEF Ready, OnlyBackground
  <2>6. ASSUME "ssh_brute_force" \in Names, NEW w \in Asked(e, broken), w.key = Target("ssh_brute_force")
        PROVE  FALSE
    <3> DEFINE name == "ssh_brute_force"
    <3>1. name \in Windowed /\ name \in Names /\ w.key = Target(name)
      BY <2>6 DEF Windowed
    <3> HIDE DEF name
    <3>2. name # "ssh_brute_force"
      BY <2>2, <2>4, <3>1, AsideNormal
    <3> QED
      BY <3>2 DEF name
  <2>7. ASSUME "ssh_brute_force" \in Names
        PROVE  LogAt(log', Target("ssh_brute_force")) = {}
    <3>1. LogAt(log, Target("ssh_brute_force")) = {}
      BY <2>7 DEF Ready, Untouched
    <3>2. \A m : m \in LogAt(log', Target("ssh_brute_force")) => m \in LogAt(log, Target("ssh_brute_force"))
      BY <2>2, <2>6, <2>7, LogAfter
    <3> QED
      BY <3>1, <3>2
  <2>8. ASSUME "ssh_brute_force" \in Names, NEW l \in last'.looks,
               l.rule = "RULE-001", l.mode = "measure", l.key[2] = AttackIp
        PROVE  FALSE
    <3>1. last'.looks = Looks(e, broken)
      <4>1. last'.looks = Evaluation(e, broken).looks
        BY <2>2 DEF Evaluate
      <4> QED
        BY <4>1, EvaluationFacts DEF Outcome
    <3>2. Window("RULE-001", e) \in Asked(e, broken) /\ Window("RULE-001", e).key = Target("ssh_brute_force")
      BY <2>8, <3>1, MeasureIs
    <3> QED
      BY <2>6, <2>8, <3>2
  <2>9. Untouched'
    BY <2>7, <2>8 DEF Untouched
  <2> QED
    BY <2>2, <2>3, <2>5, <2>9 DEF Ready
<1>11. Same
  BY <1>4, <1>5, <1>6, <1>7, <1>8, <1>9, <1>10 DEF Next
<1> QED
  BY <1>1, <1>2, <1>11 DEF Ready

\* Of the verdict on the breach only an evaluation and a launch decide.
LEMMA EscalatesStill ==
    ASSUME BreachEscalates, UNCHANGED <<attack, last>>
    PROVE  BreachEscalates'
BY DEF BreachEscalates

\* The steps of an attack.
LEMMA WarStep ==
    ASSUME QuietInv, QuietInv', Own', [Next]_vars, BreachEscalates, AtWar
    PROVE  AtWar' /\ BreachEscalates'
<1>1. PICK name, need, least : Suffices(name, need, least) /\ War(name, need)
  BY DEF AtWar
<1>2. need \in Nat /\ IsTopic(topic)
  BY <1>1, QuietFacts DEF Suffices
<1> SUFFICES War(name, need)' /\ BreachEscalates'
  BY <1>1 DEF AtWar
<1>3. ASSUME UNCHANGED vars PROVE War(name, need)' /\ BreachEscalates'
  <2>1. UNCHANGED <<clock, queue, topic, windows, attack, log, taken, left>> /\ UNCHANGED <<attack, last>>
    BY <1>3 DEF vars
  <2>2. /\ Times' /\ ShotsOf(name)' /\ InOrder(name)' /\ CaughtRight(name)' /\ WindowClean(name)'
        /\ Hope(name, need)' /\ Fires(name, need)' /\ Alive(name)'
    BY <1>1, <2>1 DEF War, Times, ShotsOf, InOrder, CaughtRight, WindowClean, Hope, Fires, Alive, Timely
  <2> QED
    BY <1>1, <2>1, <2>2, EscalatesStill DEF War
<1>4. ASSUME Tick PROVE War(name, need)' /\ BreachEscalates'
  BY <1>1, <1>2, <1>4, WarTick, EscalatesStill DEF Tick
<1>5. ASSUME NEW x \in Names, Launch(x) PROVE FALSE
  BY <1>1, <1>5 DEF Launch, Spend, War
<1>6. ASSUME EmitAttack PROVE War(name, need)' /\ BreachEscalates'
  BY <1>1, <1>2, <1>6, WarEmitAttack, EscalatesStill DEF EmitAttack
<1>7. ASSUME EmitFails PROVE War(name, need)' /\ BreachEscalates'
  BY <1>1, <1>2, <1>7, WarEmitFails, EscalatesStill DEF EmitFails
<1>8. ASSUME EmitNormal PROVE War(name, need)' /\ BreachEscalates'
  BY <1>1, <1>2, <1>8, WarEmitNormal, EscalatesStill DEF EmitNormal
<1>9. ASSUME Foreign PROVE FALSE
  BY <1>1, <1>9 DEF Foreign, Spend, War, Own
<1>10. ASSUME NEW i \in 1..InFlight, NEW again \in BOOLEAN, Reject(i, again) \/ Duplicate(i, again)
       PROVE  War(name, need)' /\ BreachEscalates'
  <2>1. Drops(i, again)
    BY <1>2, <1>10, DropsIt
  <2> QED
    BY <1>1, <1>2, <2>1, WarDrop, EscalatesStill DEF Drops
<1>11. ASSUME NEW i \in 1..InFlight, NEW again \in BOOLEAN, NEW broken \in {{}} \cup {{rule} : rule \in Rules},
              Process(i, broken, again)
       PROVE  War(name, need)' /\ BreachEscalates'
  <2>1. PICK e, new : Takes(i, e, broken, again, new)
    BY <1>2, <1>11, ProcessTakes
  <2>2. broken = {} \/ (\E rule : broken = {rule})
    OBVIOUS
  <2>3. Taking(name, i, e, broken) /\ attack'.scenario = name
    BY <1>1, <1>2, <2>1, <2>2, TakingFacts
  <2>4. War(name, need)'
    BY <1>1, <1>2, <2>1, <2>2, WarTake
  <2>5. BreachEscalates'
    BY <1>1, <1>2, <2>1, <2>3, TakeEscalates
  <2> QED
    BY <2>4, <2>5
<1> QED
  BY <1>3, <1>4, <1>5, <1>6, <1>7, <1>8, <1>9, <1>10, <1>11 DEF Next

\* Every step.
LEMMA AttackStep == AttackInv /\ [Next]_vars => AttackInv'
<1> SUFFICES ASSUME AttackInv, [Next]_vars PROVE AttackInv'
  OBVIOUS
<1>1. QuietInv /\ QuietInv' /\ BreachEscalates
  BY QuietStep DEF AttackInv
<1>2. Own => Own'
  BY <1>1, QuietFacts, OwnStep
<1>3. CASE Moot
  BY <1>1, <1>3, MootStep DEF AttackInv
<1>4. CASE Ready
  <2>1. Own'
    BY <1>2, <1>4 DEF Ready
  <2>2. CASE ~\E name \in Names : Launch(name)
    BY <1>1, <1>4, <2>1, <2>2, ReadyStep DEF AttackInv
  <2>3. ASSUME NEW name \in Names, Launch(name) PROVE AttackInv'
    BY <1>1, <1>4, <2>1, <2>3, LaunchBegins DEF AttackInv
  <2> QED
    BY <2>2, <2>3
<1>5. CASE AtWar
  <2>1. Own'
    BY <1>2, <1>5 DEF AtWar, War
  <2> QED
    BY <1>1, <1>5, <2>1, WarStep DEF AttackInv
<1> QED
  BY <1>3, <1>4, <1>5 DEF AttackInv

\* When nothing of the attack is left to come, what is not lost has been counted.
LEMMA AttackInvDetects == AttackInv => AttackIsDetected
<1> SUFFICES ASSUME AttackInv, attack.scenario \in DOMAIN Demonstrates, Done,
                    Demonstrates[attack.scenario] \in WindowRules =>
                      attack.gap < Params[Demonstrates[attack.scenario]].window + Slack
             PROVE  \E d \in attack.fired : d[1] = Demonstrates[attack.scenario]
  BY DEF AttackIsDetected
<1>1. QuietInv /\ AtWar
  BY LaunchableIs DEF AttackInv, Moot, Ready
<1>2. PICK name, need, least : Suffices(name, need, least) /\ War(name, need)
  BY <1>1 DEF AtWar
<1>3. need \in Nat /\ attack.scenario = name /\ name \in Launchable
  BY <1>2 DEF Suffices, War
<1>4. queue = <<>> /\ \A i \in 1..Len(topic) : topic[i].from # "attack"
  BY <1>1, QuietFacts DEF Done, IsTopic
<1>5. Promise(name, queue, topic, log, taken) = TallyOf(name, log, taken)
  <2>1. UnreadOf(name, topic, taken) = {}
    BY <1>4 DEF UnreadOf, IsUnread
  <2>2. \A r \in 1..Len(queue) : FALSE
    BY <1>4
  <2>3. AheadOf(name, queue) = {}
    BY <2>2 DEF AheadOf
  <2> QED
    BY <2>1, <2>3 DEF Promise
<1> DEFINE n == Cardinality(TallyOf(name, log, taken))
<1>6. FiredBy(name, attack.fired) \/ (n \in Nat /\ n >= need)
  <2>1. n \in Nat /\ left.faults \in Nat
    BY <1>1, QuietFacts, TallyFinite, FS_CardinalityType DEF Kinds
  <2>2. FiredBy(name, attack.fired) \/ n >= need + left.faults
    BY <1>2, <1>5 DEF War, Hope
  <2> HIDE DEF n
  <2> QED
    BY <1>3, <2>1, <2>2
<1>7. CASE name \in Windowed
  <2>1. Timely(name)
    BY <1>3, <1>7, AimFacts DEF Timely, Reach
  <2>2. FiredBy(name, attack.fired)
    BY <1>2, <1>6, <1>7, <2>1 DEF War, Fires
  <2> QED
    BY <1>3, <2>2 DEF FiredBy
<1>8. CASE name = "privilege_escalation"
  <2>1. name \notin Windowed
    BY <1>8 DEF Windowed
  <2>2. TallyOf(name, log, taken) = {}
    BY <2>1 DEF TallyOf, CaughtIn
  <2>3. n = 0 /\ need >= 1
    BY <1>2, <1>8, <2>2, FS_EmptySet DEF Suffices
  <2> HIDE DEF n
  <2>4. FiredBy(name, attack.fired)
    BY <1>3, <1>6, <2>3
  <2> QED
    BY <1>3, <2>4 DEF FiredBy
<1> QED
  BY <1>3, <1>7, <1>8 DEF Launchable

(***************************************************************************)
(* An attack of the simulator fires the rule it demonstrates               *)
(* (README.md:226-231), whatever its generator draws, the order in which   *)
(* its messages and the background's are sent and read, the sends that     *)
(* fail, the detectors that raise and the batches that are read again, as  *)
(* long as no two of its evaluations are further apart than the window     *)
(* lives in Redis.  EnoughAssumption states what the generators of         *)
(* simulator/attacks guarantee: more than the rule asks for, by the number *)
(* of faults.                                                              *)
(***************************************************************************)
THEOREM AttackIsDetectedHolds == Spec => []AttackIsDetected
<1>1. Init => AttackInv
  BY InitAttack
<1>2. AttackInv /\ [Next]_vars => AttackInv'
  BY AttackStep
<1>3. AttackInv => AttackIsDetected
  BY AttackInvDetects
<1> QED
  BY <1>1, <1>2, <1>3, PTL DEF Spec

(***************************************************************************)
(* The login that ends a brute force is "CRITICAL if a login then          *)
(* succeeds" (README.md:226) exactly when measure() finds the failures in  *)
(* the window, that is when it is read before the window's length has      *)
(* passed since they were generated (windows.py:73-81): not when it was    *)
(* made, and no matter which of the failures are lost.                     *)
(***************************************************************************)
THEOREM BreachEscalatesHolds == Spec => []BreachEscalates
<1>1. Init => AttackInv
  BY InitAttack
<1>2. AttackInv /\ [Next]_vars => AttackInv'
  BY AttackStep
<1>3. AttackInv => BreachEscalates
  BY DEF AttackInv
<1> QED
  BY <1>1, <1>2, <1>3, PTL DEF Spec
=============================================================================
