------------------------- MODULE GpsReferenceProofs -------------------------
(***************************************************************************)
(* Proofs about GpsReference, for every value of its constants.            *)
(***************************************************************************)
EXTENDS GpsReference, SequenceTheorems, TLAPS

(* What thread_valid last saw: it ran at most CheckLag seconds ago, and the
   reference it found usable was a measured one, not too old at that time.
   The rounds it has counted since a reset all came after the last lapse.    *)
SeenInv ==
    /\ Start <= checked /\ checked <= now /\ now - checked <= CheckLag
    /\ ref.systime <= now /\ lapse <= now
    /\ ref.xtal_err = "zero" => ref.systime = 0
    /\ gps_ref_valid => checked - ref.systime <= MAX_AGE
    /\ init_cpt > 0 => /\ gps_ref_valid
                       /\ init_cpt <= checked - lapse + 1
    /\ xtal_correct_ok => init_cpt = XERR_INIT_AVG + 1

(* The two flags of lgw_gps_sync tell the aberrant measures in a row. *)
FlagsInv ==
    strikes = IF aber_min1 THEN IF aber_min2 THEN 2 ELSE 1 ELSE 0

Inv == TypeOK /\ SeenInv /\ FlagsInv

(* The remainder of a counter. *)
LEMMA Remainder ==
    ASSUME NEW x \in Int
    PROVE  x % W \in 0..(W - 1)
BY ClockAssumption

(* What a second brings is a sequence of messages of that second. *)
LEMMA SentIsSeq ==
    ASSUME NEW s \in Nat, NEW u \in Statuses, NEW r \in Statuses
    PROVE  Sent(s, u, r) \in Seq(Message)
<1> DEFINE U == IF u = "lost" THEN <<>> ELSE <<TimeGps(s, u)>>
           R == IF r = "lost" THEN <<>> ELSE <<Rmc(s, r)>>
<1>1. TimeGps(s, u) \in Message /\ Rmc(s, r) \in Message
  BY DEF TimeGps, Rmc, Message
<1>2. U \in Seq(Message) /\ R \in Seq(Message)
  BY <1>1
<1>3. U \o R \in Seq(Message) /\ R \o U \in Seq(Message)
  BY <1>2, ConcatProperties
<1> HIDE DEF U, R
<1>4. Sent(s, u, r) = IF UbxFirst THEN U \o R ELSE R \o U
  BY DEF Sent, U, R
<1> QED
  BY <1>3, <1>4

LEMMA InitInv == Init => Inv
<1> SUFFICES ASSUME Init PROVE Inv
  OBVIOUS
<1>1. Start \in Nat /\ Start % W \in 0..(W - 1) /\ 0 \in 0..(W - 1)
  BY ClockAssumption, Remainder
<1>2. TypeOK
  <2>1. 0 \in 0..(XERR_INIT_AVG + 1) /\ 0 \in 0..3 /\ 0 \in 0..2
    BY ClockAssumption
  <2>2. inbox \in Seq(Message)
    BY DEF Init
  <2>3. ref \in Reference
    BY <1>1 DEF Init, Reference
  <2>4. now \in Nat /\ trig \in 0..(W - 1) /\ checked \in Nat /\ lapse \in Nat
    BY <1>1 DEF Init
  <2> QED
    BY <2>1, <2>2, <2>3, <2>4 DEF Init, TypeOK
<1>3. SeenInv
  BY <1>1, ClockAssumption DEF Init, SeenInv
<1>4. FlagsInv
  BY DEF Init, FlagsInv
<1> QED
  BY <1>2, <1>3, <1>4 DEF Inv

(* A second passes. *)
LEMMA PulseInv ==
    ASSUME Inv, NEW missed \in BOOLEAN, NEW u \in Statuses, NEW r \in Statuses,
           Pulse(missed, u, r)
    PROVE  Inv'
<1> USE DEF Inv
<1>1. now' = now + 1 /\ now' \in Nat /\ now \in Nat /\ checked \in Nat
  BY DEF Pulse, TypeOK
<1>2. UNCHANGED <<utc, gps, gps_time_ok, ref, aber_min1, aber_min2, strikes,
                  gps_ref_valid, xtal_correct_ok, init_cpt, checked>>
  BY DEF Pulse, parsed, synced, validation
<1>3. TypeOK'
  <2>1. trig' \in 0..(W - 1)
    <3>1. now' % W \in 0..(W - 1)
      BY <1>1, Remainder
    <3> QED
      BY <3>1 DEF Pulse, TypeOK
  <2>2. inbox' \in Seq(Message)
    BY <1>1, SentIsSeq, ConcatProperties DEF Pulse, TypeOK
  <2>3. faults' \in Nat /\ good' \in 0..3
    BY DEF Pulse, TypeOK, Least
  <2>4. lapse' \in Nat
    BY <1>1 DEF Pulse, TypeOK
  <2> QED
    BY <1>1, <1>2, <2>1, <2>2, <2>3, <2>4 DEF TypeOK
<1>4. SeenInv'
  <2>1. now' - checked <= CheckLag
    BY <1>1 DEF Pulse
  <2>2. CASE now' - ref.systime > MAX_AGE + CheckLag
    <3>1. ref.systime \in Nat /\ init_cpt \in Nat
      BY ClockAssumption DEF TypeOK, Reference
    <3>2. checked - ref.systime > MAX_AGE
      BY <1>1, <2>1, <2>2, <3>1, ClockAssumption
    <3>3. init_cpt = 0 /\ ~gps_ref_valid
      BY <3>1, <3>2, <1>1, ClockAssumption DEF SeenInv
    <3>4. lapse' = now'
      BY <2>2 DEF Pulse
    <3> QED
      BY <1>1, <1>2, <2>1, <3>1, <3>3, <3>4 DEF SeenInv
  <2>3. CASE ~(now' - ref.systime > MAX_AGE + CheckLag)
    <3>1. lapse' = lapse /\ lapse \in Nat
      BY <2>3 DEF Pulse, TypeOK
    <3>2. ref.systime \in Nat
      BY DEF TypeOK, Reference
    <3> QED
      BY <1>1, <1>2, <2>1, <3>1, <3>2 DEF SeenInv
  <2> QED
    BY <2>2, <2>3
<1>5. FlagsInv'
  BY <1>2 DEF FlagsInv
<1> QED
  BY <1>3, <1>4, <1>5

(* A measure is offered to lgw_gps_sync. *)
LEMMA SyncInv ==
    ASSUME Inv, NEW c \in 0..(W - 1), NEW u \in Nat, NEW g \in Nat, Sync(c, u, g)
    PROVE  /\ ref' \in Reference
           /\ aber_min1' \in BOOLEAN /\ aber_min2' \in BOOLEAN /\ strikes' \in 0..2
           /\ ref'.systime \in {now, ref.systime}
           /\ ref'.systime = ref.systime => ref' = ref \/ ref'.xtal_err # "zero"
           /\ ref'.systime # ref.systime => ref'.xtal_err # "zero"
           /\ FlagsInv'
<1> USE DEF Inv
<1>1. Aberrant(c, u) \in BOOLEAN
  BY DEF Aberrant
<1>2. now \in Nat /\ ref \in Reference /\ ref.xtal_err \in {"zero", "one", "slope"}
  BY DEF TypeOK, Reference
<1>3. \/ ref' = Point(c, u, g, "slope") \/ ref' = Point(c, u, g, "one")
      \/ ref' = Point(c, u, g, ref.xtal_err) /\ ref.xtal_err # "zero"
      \/ ref' = ref
  BY DEF Sync
<1>4. /\ ref' \in Reference
      /\ ref'.systime \in {now, ref.systime}
      /\ ref' = ref \/ ref'.xtal_err # "zero"
  BY <1>2, <1>3 DEF Point, Reference
<1>5. aber_min1' = Aberrant(c, u) /\ aber_min2' = aber_min1
  BY DEF Sync, Shift
<1>6. strikes' = IF Aberrant(c, u) THEN Least(strikes + 1, 2) ELSE 0
  BY DEF Sync
<1>7. strikes' = IF Aberrant(c, u) THEN IF aber_min1 THEN 2 ELSE 1 ELSE 0
  BY <1>6 DEF Least, FlagsInv
<1>8. FlagsInv'
  BY <1>5, <1>7 DEF FlagsInv
<1> QED
  BY <1>1, <1>4, <1>5, <1>7, <1>8 DEF TypeOK

(* thread_gps handles a message. *)
LEMMA HandleInv ==
    ASSUME Inv, Handle
    PROVE  Inv'
<1> USE DEF Inv
<1> DEFINE m == Head(inbox)
<1>1. UNCHANGED <<now, trig, faults, good, lapse,
                  gps_ref_valid, xtal_correct_ok, init_cpt, checked>>
  BY DEF Handle, receiver, validation
<1>2. m \in Message /\ inbox' \in Seq(Message)
  BY HeadTailProperties DEF Handle, TypeOK
<1>3. ParsedUtc(m) \in Nat /\ ParsedGps(m) \in Nat
  BY <1>2 DEF ParsedUtc, ParsedGps, Message, TypeOK
<1>4. utc' = ParsedUtc(m) /\ gps' = ParsedGps(m) /\ gps_time_ok' \in BOOLEAN
  BY DEF Handle
<1>5. /\ ref' \in Reference
      /\ aber_min1' \in BOOLEAN /\ aber_min2' \in BOOLEAN /\ strikes' \in 0..2
      /\ ref'.systime \in {now, ref.systime}
      /\ ref'.xtal_err = "zero" => ref' = ref
      /\ FlagsInv'
  <2>1. CASE m.status = "fix"
    <3>1. Sync(trig, ParsedUtc(m), ParsedGps(m))
      BY <2>1 DEF Handle
    <3>2. trig \in 0..(W - 1)
      BY DEF TypeOK
    <3> HIDE DEF m
    <3> QED
      BY <1>3, <3>1, <3>2, SyncInv
  <2>2. CASE m.status # "fix"
    <3>1. UNCHANGED <<ref, aber_min1, aber_min2, strikes>>
      BY <2>2 DEF Handle, synced
    <3> QED
      BY <3>1 DEF TypeOK, FlagsInv
  <2> QED
    BY <2>1, <2>2
<1>6. TypeOK'
  <2> HIDE DEF m
  <2> QED
    BY <1>1, <1>2, <1>3, <1>4, <1>5 DEF TypeOK
<1>7. SeenInv'
  <2>1. ref.systime \in Nat /\ now \in Nat /\ checked \in Nat
    BY DEF TypeOK, Reference
  <2>2. ref.systime <= ref'.systime /\ ref'.systime <= now
    BY <1>5, <2>1 DEF SeenInv
  <2>3. ref'.systime \in Nat
    BY <1>5, <2>1
  <2>4. gps_ref_valid => checked - ref'.systime <= MAX_AGE
    BY <2>1, <2>2, <2>3, ClockAssumption DEF SeenInv
  <2>5. ref'.xtal_err = "zero" => ref'.systime = 0
    BY <1>5 DEF SeenInv
  <2> QED
    BY <1>1, <2>2, <2>4, <2>5 DEF SeenInv
<1> QED
  BY <1>5, <1>6, <1>7

(* A round of thread_valid. *)
LEMMA CheckInv ==
    ASSUME Inv, Check
    PROVE  Inv'
<1> USE DEF Inv
<1>1. UNCHANGED <<now, trig, faults, good, lapse, inbox, utc, gps, gps_time_ok,
                  ref, aber_min1, aber_min2, strikes>>
  BY DEF Check, receiver, parsed, synced
<1>2. checked' = now /\ checked < now /\ now \in Nat /\ checked \in Nat
      /\ ref.systime \in Nat /\ lapse \in Nat /\ init_cpt \in Nat
  BY ClockAssumption DEF Check, TypeOK, Reference
<1>3. CASE IsFresh
  <2>1. gps_ref_valid' = TRUE /\ init_cpt' = Counted
        /\ xtal_correct_ok' = (xtal_correct_ok \/ init_cpt = XERR_INIT_AVG)
    BY <1>3 DEF Check, Restart
  <2>2. checked' - ref.systime <= MAX_AGE
    BY <1>2, <1>3, ClockAssumption DEF IsFresh
  <2>3. init_cpt' \in 0..(XERR_INIT_AVG + 1) /\ init_cpt' <= init_cpt + 1
    BY <2>1, ClockAssumption DEF Counted, TypeOK
  <2>4. xtal_correct_ok' => init_cpt' = XERR_INIT_AVG + 1
    <3>1. xtal_correct_ok' => xtal_correct_ok \/ init_cpt = XERR_INIT_AVG
      BY <2>1, Zenon
    <3>2. xtal_correct_ok => init_cpt = XERR_INIT_AVG + 1
      BY DEF SeenInv
    <3> QED
      BY <1>2, <2>1, <3>1, <3>2, ClockAssumption DEF Counted
  <2>5. init_cpt' <= checked' - lapse + 1
    BY <1>2, <2>3 DEF SeenInv
  <2>6. TypeOK'
    <3>1. xtal_correct_ok' \in BOOLEAN /\ gps_ref_valid' \in BOOLEAN
      BY <2>1
    <3> QED
      BY <1>1, <1>2, <2>3, <3>1 DEF TypeOK
  <2>7. SeenInv'
    BY <1>1, <1>2, <2>1, <2>2, <2>4, <2>5, ClockAssumption DEF SeenInv
  <2> QED
    BY <1>1, <2>6, <2>7 DEF FlagsInv
<1>4. CASE ~IsFresh
  <2>1. gps_ref_valid' = FALSE /\ init_cpt' = 0 /\ xtal_correct_ok' = FALSE
    BY <1>4 DEF Check, Restart
  <2>2. TypeOK'
    <3>1. 0 \in 0..(XERR_INIT_AVG + 1)
      BY ClockAssumption
    <3>2. /\ xtal_correct_ok' \in BOOLEAN /\ gps_ref_valid' \in BOOLEAN
          /\ init_cpt' \in 0..(XERR_INIT_AVG + 1)
      BY <2>1, <3>1
    <3> QED
      BY <1>1, <1>2, <3>2 DEF TypeOK
  <2>3. SeenInv'
    BY <1>1, <1>2, <2>1, ClockAssumption DEF SeenInv
  <2> QED
    BY <1>1, <2>2, <2>3 DEF FlagsInv
<1> QED
  BY <1>3, <1>4

LEMMA NextInv == Inv /\ [Next]_vars => Inv'
<1> SUFFICES ASSUME Inv, [Next]_vars PROVE Inv'
  OBVIOUS
<1>1. ASSUME NEW missed \in BOOLEAN, NEW u \in Statuses, NEW r \in Statuses,
             Pulse(missed, u, r)
      PROVE  Inv'
  BY <1>1, PulseInv
<1>2. CASE Handle
  BY <1>2, HandleInv
<1>3. CASE Check
  BY <1>3, CheckInv
<1>4. CASE UNCHANGED vars
  BY <1>4 DEF vars, receiver, parsed, synced, validation, Inv, TypeOK, SeenInv,
              FlagsInv
<1> QED
  BY <1>1, <1>2, <1>3, <1>4 DEF Next

THEOREM Invariance == Spec => []Inv
<1> QED
  BY InitInv, NextInv, PTL DEF Spec

(* Every variable keeps its type, and the initial average of the crystal
   correction ends.                                                          *)
THEOREM TypeCorrect == Spec => []TypeOK
<1>1. Inv => TypeOK
  BY DEF Inv
<1> QED
  BY <1>1, Invariance, PTL

(* A reference in use was measured and is at most MAX_AGE + CheckLag old. *)
THEOREM ValidReferenceIsFresh == Spec => []ValidIsFresh
<1>1. Inv => ValidIsFresh
  <2> SUFFICES ASSUME Inv, gps_ref_valid
               PROVE  now - ref.systime <= MAX_AGE + CheckLag
                      /\ ref.xtal_err # "zero"
    BY DEF ValidIsFresh
  <2>1. now \in Nat /\ checked \in Nat /\ ref.systime \in Nat
    BY DEF Inv, TypeOK, Reference
  <2>2. now - ref.systime <= MAX_AGE + CheckLag
    BY <2>1, ClockAssumption DEF Inv, SeenInv
  <2>3. ref.systime # 0
    BY <2>1, ClockAssumption DEF Inv, SeenInv
  <2> QED
    BY <2>2, <2>3 DEF Inv, SeenInv
<1> QED
  BY <1>1, Invariance, PTL

(* The crystal correction is usable only after XERR_INIT_AVG good seconds. *)
THEOREM CorrectionSettles == Spec => []XtalSettled
<1>1. Inv => XtalSettled
  <2> SUFFICES ASSUME Inv, xtal_correct_ok PROVE now - lapse >= XERR_INIT_AVG
    BY DEF XtalSettled
  <2>1. now \in Nat /\ checked \in Nat /\ lapse \in Nat
    BY DEF Inv, TypeOK
  <2>2. init_cpt = XERR_INIT_AVG + 1 /\ init_cpt > 0
    BY ClockAssumption DEF Inv, SeenInv
  <2>3. init_cpt <= checked - lapse + 1 /\ checked <= now
    BY <2>2 DEF Inv, SeenInv
  <2> QED
    BY <2>1, <2>2, <2>3, ClockAssumption
<1> QED
  BY <1>1, Invariance, PTL

(* With NAV-TIMEGPS first: what an undisturbed second leaves to handle, and
   that a reference not right yet has turned down every measure since, so that
   the third one at the latest resets it.                                    *)
IsRight == ref.count = ref.gps % W

Both == <<TimeGps(now, "fix"), Rmc(now, "fix")>>
Second == <<Rmc(now, "fix")>>

RecoverInv ==
    good >= 1 =>
        /\ trig = now % W
        /\ \/ inbox = Both /\ (IsRight \/ good = 1 \/ (good = 2 /\ ThirdInARow))
           \/ inbox = Second /\ gps = now /\ (IsRight \/ (good = 1 /\ aber_min1))
           \/ inbox = <<>> /\ gps = now /\ (IsRight \/ (good = 1 /\ ThirdInARow))

LEMMA RecoverInit == Init => RecoverInv
BY DEF Init, RecoverInv

(* A measure taken with the GPS time of the counter makes the reference right,
   keeps a right one, or is the first or the second to be turned down.       *)
LEMMA SyncRecovers ==
    ASSUME Inv, NEW u \in Nat, Sync(now % W, u, now)
    PROVE  /\ IsRight' \/ (ref' = ref /\ aber_min1' /\ ~ThirdInARow)
           /\ IsRight => IsRight'
           /\ aber_min2' = aber_min1
<1>1. ref' = ref \/ (ref'.count = now % W /\ ref'.gps = now)
  BY DEF Sync, Point
<1>2. ref' # ref => IsRight'
  BY <1>1 DEF IsRight
<1>3. IsRight => IsRight'
  BY <1>1 DEF IsRight
<1>4. aber_min1' = Aberrant(now % W, u) /\ aber_min2' = aber_min1
  BY DEF Sync, Shift
<1>5. ~Aberrant(now % W, u) \/ ThirdInARow => IsRight'
  BY DEF Sync, Point, IsRight
<1>6. Aberrant(now % W, u) /\ ~ThirdInARow => ref' = ref
  BY DEF Sync
<1> QED
  BY <1>3, <1>4, <1>5, <1>6

LEMMA PairOfTwo ==
    ASSUME NEW a \in Message, NEW b \in Message
    PROVE  <<a>> \o <<b>> = <<a, b>>
<1>1. <<a>> \in Seq(Message) /\ <<b>> \in Seq(Message) /\ <<a, b>> \in Seq(Message)
  OBVIOUS
<1>2. /\ <<a>> \o <<b>> \in Seq(Message)
      /\ Len(<<a>> \o <<b>>) = 2
      /\ (<<a>> \o <<b>>)[1] = a /\ (<<a>> \o <<b>>)[2] = b
  BY <1>1
<1>3. /\ Len(<<a, b>>) = 2 /\ <<a, b>>[1] = a /\ <<a, b>>[2] = b
  OBVIOUS
<1>4. \A i \in 1..2 : (<<a>> \o <<b>>)[i] = <<a, b>>[i]
  BY <1>2, <1>3
<1> HIDE DEF Message
<1> QED
  BY <1>1, <1>2, <1>3, <1>4, SeqEqual

LEMMA RecoverPulse ==
    ASSUME Inv, RecoverInv, UbxFirst,
           NEW missed \in BOOLEAN, NEW u \in Statuses, NEW r \in Statuses,
           Pulse(missed, u, r)
    PROVE  RecoverInv'
<1> SUFFICES ASSUME good' >= 1 PROVE RecoverInv'
  BY DEF RecoverInv
<1>1. Undisturbed(missed, u, r)
  BY DEF Pulse
<1>2. good' = Least(good + 1, 3) /\ good \in 0..3
  BY <1>1 DEF Pulse, Inv, TypeOK
<1>3. trig' = now' % W
  BY <1>1 DEF Pulse, Undisturbed
<1>4. UNCHANGED <<ref, aber_min1, aber_min2>>
  BY DEF Pulse, synced
<1>5. inbox' = Both'
  <2>1. Sent(now', u, r) = <<TimeGps(now', "fix")>> \o <<Rmc(now', "fix")>>
    BY <1>1 DEF Sent, Undisturbed
  <2>2. <<TimeGps(now', "fix")>> \o <<Rmc(now', "fix")>> = Both'
    <3>1. now' \in Nat
      BY DEF Pulse, Inv, TypeOK
    <3>2. TimeGps(now', "fix") \in Message /\ Rmc(now', "fix") \in Message
      BY <3>1 DEF TimeGps, Rmc, Message, Statuses
    <3>3. Both' = <<TimeGps(now', "fix"), Rmc(now', "fix")>>
      BY DEF Both, TimeGps, Rmc
    <3> QED
      BY <3>2, <3>3, PairOfTwo
  <2>3. inbox = <<>> /\ inbox' = inbox \o Sent(now', u, r)
    BY <1>1 DEF Pulse, Undisturbed
  <2> QED
    BY <2>1, <2>2, <2>3
<1>6. inbox = <<>> /\ Both # <<>> /\ Second # <<>>
  BY <1>1 DEF Undisturbed, Both, Second
<1>7. IsRight' \/ good' = 1 \/ (good' = 2 /\ ThirdInARow')
  BY <1>2, <1>4, <1>6 DEF RecoverInv, Least, IsRight, ThirdInARow
<1> QED
  BY <1>3, <1>5, <1>7 DEF RecoverInv

LEMMA RecoverHandle ==
    ASSUME Inv, RecoverInv, Handle
    PROVE  RecoverInv'
<1> SUFFICES ASSUME good >= 1 PROVE RecoverInv'
  BY DEF RecoverInv, Handle, receiver
<1>1. UNCHANGED <<now, trig, good>> /\ trig = now % W /\ now \in Nat /\ good \in 0..3
  BY DEF Handle, receiver, RecoverInv, Inv, TypeOK
<1>2. inbox # <<>>
  BY DEF Handle
<1>3. CASE inbox = Both
  <2>1. Head(inbox) = TimeGps(now, "fix") /\ Tail(inbox) = Second
    BY <1>3 DEF Both, Second
  <2>2. ParsedGps(TimeGps(now, "fix")) = now /\ ParsedUtc(TimeGps(now, "fix")) = utc
    BY DEF ParsedGps, ParsedUtc, TimeGps
  <2>3. gps' = now /\ inbox' = Second'
    BY <1>1, <2>1, <2>2 DEF Handle, Second
  <2>4. Sync(now % W, utc, now)
    BY <1>1, <2>1, <2>2 DEF Handle, TimeGps
  <2>5. /\ IsRight' \/ (ref' = ref /\ aber_min1' /\ ~ThirdInARow)
        /\ IsRight => IsRight'
    BY <2>4, SyncRecovers DEF Inv, TypeOK
  <2>6. IsRight \/ good = 1 \/ (good = 2 /\ ThirdInARow)
    BY <1>3 DEF RecoverInv, Both, Second
  <2>7. IsRight' \/ (good' = 1 /\ aber_min1')
    BY <1>1, <2>5, <2>6
  <2> QED
    BY <1>1, <2>3, <2>7 DEF RecoverInv
<1>4. CASE inbox = Second
  <2>1. Head(inbox) = Rmc(now, "fix") /\ Tail(inbox) = <<>>
    BY <1>4 DEF Second
  <2>2. gps = now
    BY <1>4 DEF RecoverInv, Both, Second
  <2>3. ParsedGps(Rmc(now, "fix")) = now /\ ParsedUtc(Rmc(now, "fix")) = now
    BY <2>2 DEF ParsedGps, ParsedUtc, Rmc
  <2>4. gps' = now /\ inbox' = <<>>
    BY <2>1, <2>3 DEF Handle
  <2>5. Sync(now % W, now, now)
    BY <1>1, <2>1, <2>3 DEF Handle, Rmc
  <2>6. /\ IsRight' \/ (ref' = ref /\ aber_min1' /\ ~ThirdInARow)
        /\ IsRight => IsRight'
        /\ aber_min2' = aber_min1
    BY <1>1, <2>5, SyncRecovers
  <2>7. IsRight \/ (good = 1 /\ aber_min1)
    BY <1>4 DEF RecoverInv, Both, Second
  <2>8. IsRight' \/ (good' = 1 /\ ThirdInARow')
    BY <1>1, <2>6, <2>7 DEF ThirdInARow
  <2> QED
    BY <1>1, <2>4, <2>8 DEF RecoverInv
<1> QED
  BY <1>2, <1>3, <1>4 DEF RecoverInv

LEMMA RecoverNext == UbxFirst /\ Inv /\ RecoverInv /\ [Next]_vars => RecoverInv'
<1> SUFFICES ASSUME UbxFirst, Inv, RecoverInv, [Next]_vars PROVE RecoverInv'
  OBVIOUS
<1>1. ASSUME NEW missed \in BOOLEAN, NEW u \in Statuses, NEW r \in Statuses,
             Pulse(missed, u, r)
      PROVE  RecoverInv'
  BY <1>1, RecoverPulse
<1>2. CASE Handle
  BY <1>2, RecoverHandle
<1>3. CASE Check
  BY <1>3 DEF Check, receiver, parsed, synced, RecoverInv, Both, Second, IsRight,
              ThirdInARow
<1>4. CASE UNCHANGED vars
  BY <1>4 DEF vars, receiver, parsed, synced, RecoverInv, Both, Second, IsRight,
              ThirdInARow
<1> QED
  BY <1>1, <1>2, <1>3, <1>4 DEF Next

(* When NAV-TIMEGPS comes first, two undisturbed seconds bring the GPS time of
   the reference back to that of its counter value, after any faults.        *)
THEOREM GpsTimeRecovers ==
    ASSUME UbxFirst
    PROVE  Spec => []GpsRecovers
<1>1. RecoverInv => GpsRecovers
  BY DEF RecoverInv, GpsRecovers, IsRight
<1>2. Inv /\ RecoverInv /\ [Next]_vars => RecoverInv'
  BY RecoverNext
<1> QED
  BY <1>1, <1>2, RecoverInit, Invariance, PTL DEF Spec

(* An outlier changes the reference only as the third in a row. *)
THEOREM ThirdOutlierOnly == Spec => OutliersIgnored
<1>1. Inv /\ [Next]_vars => [ref' # ref /\ Aberrant(trig, utc') => strikes = 2]_vars
  <2> SUFFICES ASSUME Inv, Next, ref' # ref, Aberrant(trig, utc')
               PROVE  strikes = 2
    OBVIOUS
  <2>1. CASE Handle
    <3> DEFINE m == Head(inbox)
    <3>1. m.status = "fix" => Sync(trig, ParsedUtc(m), ParsedGps(m))
      BY <2>1 DEF Handle
    <3>2. m.status # "fix" => ref' = ref
      BY <2>1 DEF Handle, synced
    <3>3. utc' = ParsedUtc(m)
      BY <2>1 DEF Handle
    <3> HIDE DEF m
    <3>4. Sync(trig, utc', ParsedGps(m))
      BY <3>1, <3>2, <3>3
    <3>5. ThirdInARow
      BY <3>4 DEF Sync
    <3> QED
      BY <3>5 DEF ThirdInARow, Inv, FlagsInv
  <2>3. ASSUME NEW missed \in BOOLEAN, NEW u \in Statuses, NEW r \in Statuses,
               Pulse(missed, u, r)
        PROVE  ref' = ref
    BY <2>3 DEF Pulse, synced
  <2>4. CASE Check
    BY <2>4 DEF Check, synced
  <2> QED
    BY <2>1, <2>3, <2>4 DEF Next
<1>2. Spec => [][Next]_vars
  BY DEF Spec
<1> QED
  BY <1>1, <1>2, Invariance, PTL DEF OutliersIgnored

=============================================================================
