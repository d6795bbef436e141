---------------------------- MODULE GpsReference ----------------------------
(***************************************************************************)
(* The time reference of the gateway: fwd.c's thread_gps, which parses the *)
(* messages of the receiver and calls lgw_gps_sync of loragw_gps.c after   *)
(* each NAV-TIMEGPS and each RMC, and thread_valid, which decides once a   *)
(* second whether the reference and the crystal correction may be used.    *)
(*                                                                         *)
(* Time is counted in seconds.  UTC and GPS time of the same second are    *)
(* the same number here (the leap seconds between them are a constant),    *)
(* the concentrator's counter of second s is s % W, and a slope within     *)
(* 10 ppm of 1 is a counter difference equal to the UTC difference.  The   *)
(* receiver pulses once a second and then sends its two messages; a pulse  *)
(* may be missed, a message may be lost, sent without a fix, or handled    *)
(* only after the next pulse.                                              *)
(***************************************************************************)
EXTENDS Integers, Sequences

CONSTANTS
    W,             \* period of the 32-bit microsecond counter, in seconds
    MAX_AGE,       \* GPS_REF_MAX_AGE
    XERR_INIT_AVG, \* checks the crystal correction is first averaged on
    CheckLag,      \* seconds between two rounds of thread_valid, at most
    UbxFirst,      \* does NAV-TIMEGPS come before RMC in a second?
    Start,         \* the host's clock when the threads start
    MaxTime,       \* bound: last second of a behaviour
    MaxFaults,     \* bound: seconds with a missed pulse, a fault or a delay
    MaxInbox       \* bound: messages thread_gps may be behind

ASSUME ClockAssumption ==
    /\ W \in Nat \ {0} /\ MAX_AGE \in Nat /\ XERR_INIT_AVG \in Nat
    /\ CheckLag \in Nat \ {0} /\ UbxFirst \in BOOLEAN
    /\ Start \in Nat /\ Start > MAX_AGE + CheckLag /\ MaxTime \in Nat
    /\ MaxFaults \in Nat /\ MaxInbox \in Nat

VARIABLES
    now,                 \* the current second, of the host and of the receiver
    trig,                \* counter latched at the last pulse
    inbox,               \* messages of the receiver not handled yet
    utc, gps,            \* static time fields of loragw_gps.c, last parsed
    gps_time_ok,
    ref,                 \* time_reference_gps
    aber_min1, aber_min2,
    gps_ref_valid, xtal_correct_ok, init_cpt,
    checked,             \* second of the last round of thread_valid
    faults,              \* bound: disturbed seconds so far
    good,                \* history: undisturbed seconds in a row, this one
                         \* included, at most 3
    strikes,             \* history: aberrant measures in a row, at most 2
    lapse                \* history: last second the reference was too old

receiver == <<now, trig, faults, good, lapse>>
parsed == <<utc, gps, gps_time_ok>>
synced == <<ref, aber_min1, aber_min2, strikes>>
validation == <<gps_ref_valid, xtal_correct_ok, init_cpt, checked>>
vars == <<receiver, inbox, parsed, synced, validation>>

Statuses == {"fix", "estimated", "none", "lost"}
Message == [kind : {"TIMEGPS", "RMC"}, sec : Nat, status : Statuses]
Reference == [systime : Nat, count : 0..(W - 1), utc : Nat, gps : Nat,
              xtal_err : {"zero", "one", "slope"}]

Least(a, b) == IF a < b THEN a ELSE b

-----------------------------------------------------------------------------
(* The receiver and the concentrator's pulse latch.                        *)

TimeGps(s, st) == [kind |-> "TIMEGPS", sec |-> s, status |-> st]
Rmc(s, st) == [kind |-> "RMC", sec |-> s, status |-> st]

(* What a second brings: a message that is lost never reaches the parser.  *)
Sent(s, u, r) ==
    LET U == IF u = "lost" THEN <<>> ELSE <<TimeGps(s, u)>>
        R == IF r = "lost" THEN <<>> ELSE <<Rmc(s, r)>>
    IN  IF UbxFirst THEN U \o R ELSE R \o U

Undisturbed(missed, u, r) ==
    ~missed /\ u = "fix" /\ r = "fix" /\ inbox = <<>>

(* A second passes.  thread_valid has run within CheckLag seconds.         *)
Pulse(missed, u, r) ==
    /\ now < MaxTime
    /\ now + 1 - checked <= CheckLag
    /\ Len(inbox) + 2 <= MaxInbox
    /\ Undisturbed(missed, u, r) \/ faults < MaxFaults
    /\ now' = now + 1
    /\ trig' = IF missed THEN trig ELSE now' % W
    /\ inbox' = inbox \o Sent(now', u, r)
    /\ faults' = IF Undisturbed(missed, u, r) THEN faults ELSE faults + 1
    /\ good' = IF Undisturbed(missed, u, r) THEN Least(good + 1, 3) ELSE 0
    /\ lapse' = IF now' - ref.systime > MAX_AGE + CheckLag THEN now' ELSE lapse
    /\ UNCHANGED <<parsed, synced, validation>>

-----------------------------------------------------------------------------
(* lgw_gps_sync.                                                           *)

CntDiff(c) == (c - ref.count) % W           \* of two unsigned counters
UtcDiff(u) == u - ref.utc

Aberrant(c, u) == UtcDiff(u) = 0 \/ CntDiff(c) # UtcDiff(u)

PointKeepsGps(c, u, g, x) ==              \* mutant: the GPS time is not stored
    [systime |-> now, count |-> c, utc |-> u, gps |-> ref.gps, xtal_err |-> x]

(* The reference a measure makes: all of its fields, or none.               *)
Point(c, u, g, x) ==
    [systime |-> now, count |-> c, utc |-> u, gps |-> g, xtal_err |-> x]

ShiftSwapped(aberrant) ==                 \* mutant: the two assignments swapped
    /\ aber_min1' = aberrant
    /\ aber_min2' = aberrant

(* The flags of the last two measures move up by one.                      *)
Shift(aberrant) ==
    /\ aber_min2' = aber_min1
    /\ aber_min1' = aberrant

ThirdInARow == aber_min1 /\ aber_min2

Sync(c, u, g) ==
    /\ Shift(Aberrant(c, u))
    /\ strikes' = IF Aberrant(c, u) THEN Least(strikes + 1, 2) ELSE 0
    /\ \/ /\ ~Aberrant(c, u)
          /\ ref' = Point(c, u, g, "slope")
       \/ /\ Aberrant(c, u) /\ ThirdInARow
          /\ ref' = Point(c, u, g, IF ref.xtal_err = "zero" THEN "one"
                                                            ELSE ref.xtal_err)
       \/ /\ Aberrant(c, u) /\ ~ThirdInARow
          /\ UNCHANGED ref

(* thread_gps takes the next message: the parser stores its time, then     *)
(* gps_process_sync offers the stored times and the latched counter, or    *)
(* gives up when the receiver has no fix.                                  *)
ParsedUtc(m) == IF m.kind = "RMC" /\ m.status # "none" THEN m.sec ELSE utc
ParsedGps(m) == IF m.kind = "TIMEGPS" /\ m.status = "fix" THEN m.sec ELSE gps

Handle ==
    /\ inbox # <<>>
    /\ inbox' = Tail(inbox)
    /\ LET m == Head(inbox) IN
       /\ utc' = ParsedUtc(m)
       /\ gps' = ParsedGps(m)
       /\ gps_time_ok' = (m.status = "fix")
       /\ IF m.status = "fix" THEN Sync(trig, ParsedUtc(m), ParsedGps(m))
                              ELSE UNCHANGED synced
    /\ UNCHANGED <<receiver, validation>>

-----------------------------------------------------------------------------
(* thread_valid: one round a second.                                       *)

IsFreshForever == now >= ref.systime        \* mutant: no upper limit

IsFresh == now - ref.systime \in 0..MAX_AGE

(* The correction is averaged on XERR_INIT_AVG rounds, then tracked.       *)
Counted == IF init_cpt <= XERR_INIT_AVG THEN init_cpt + 1 ELSE init_cpt

RestartKeepsSum ==                        \* mutant: the average is resumed
    /\ xtal_correct_ok' = FALSE
    /\ UNCHANGED init_cpt

Restart ==
    /\ xtal_correct_ok' = FALSE
    /\ init_cpt' = 0

Check ==
    /\ checked < now
    /\ checked' = now
    /\ gps_ref_valid' = IsFresh
    /\ \/ /\ IsFresh
          /\ init_cpt' = Counted
          /\ xtal_correct_ok' = (xtal_correct_ok \/ init_cpt = XERR_INIT_AVG)
       \/ ~IsFresh /\ Restart
    /\ UNCHANGED <<receiver, inbox, parsed, synced>>

-----------------------------------------------------------------------------

Init ==
    /\ now = Start /\ trig = Start % W /\ inbox = <<>>
    /\ utc = 0 /\ gps = 0 /\ gps_time_ok = FALSE
    /\ ref = [systime |-> 0, count |-> 0, utc |-> 0, gps |-> 0,
              xtal_err |-> "zero"]
    /\ aber_min1 = FALSE /\ aber_min2 = FALSE
    /\ gps_ref_valid = FALSE /\ xtal_correct_ok = FALSE /\ init_cpt = 0
    /\ checked = Start
    /\ faults = 0 /\ good = 0 /\ strikes = 0 /\ lapse = Start

Next ==
    \/ \E missed \in BOOLEAN, u \in Statuses \ {"estimated"}, r \in Statuses :
           Pulse(missed, u, r)
    \/ Handle
    \/ Check

Spec == Init /\ [][Next]_vars

-----------------------------------------------------------------------------
(* The variables have their types, and no counter passes its bound: the    *)
(* initial average of thread_valid in particular ends.                     *)
TypeOK ==
    /\ now \in Nat /\ trig \in 0..(W - 1) /\ inbox \in Seq(Message)
    /\ utc \in Nat /\ gps \in Nat /\ gps_time_ok \in BOOLEAN
    /\ ref \in Reference
    /\ aber_min1 \in BOOLEAN /\ aber_min2 \in BOOLEAN
    /\ gps_ref_valid \in BOOLEAN /\ xtal_correct_ok \in BOOLEAN
    /\ init_cpt \in 0..(XERR_INIT_AVG + 1)
    /\ checked \in Nat /\ faults \in Nat
    /\ good \in 0..3 /\ strikes \in 0..2 /\ lapse \in Nat

(* A reference the other threads may use was really measured, and no       *)
(* longer ago than the admitted age and one round of thread_valid: what    *)
(* the beacons and the timestamps of uplinks are computed from             *)
(* (semtech_serv.c, gps_ref_valid).  A reference with the zero crystal     *)
(* error it starts with, by which thread_valid divides, is never valid.    *)
ValidIsFresh ==
    gps_ref_valid => /\ now - ref.systime <= MAX_AGE + CheckLag
                     /\ ref.xtal_err # "zero"

(* Whatever went wrong before, two undisturbed seconds bring the reference *)
(* back: its GPS time is the GPS time of the second its counter value was  *)
(* latched in (lgw_gps_sync, the reset after three aberrant measures).     *)
GpsRecovers == good = 3 => ref.count = ref.gps % W

(* Outliers are ignored: a measure that does not fit the reference changes *)
(* it only as the third one in a row (lgw_gps_sync, aber_min1/aber_min2).  *)
OutliersIgnored ==
    [][ref' # ref /\ Aberrant(trig, utc') => strikes = 2]_vars

(* The crystal correction is declared usable only after XERR_INIT_AVG      *)
(* seconds in which the reference was never too old for longer than one    *)
(* round of thread_valid takes to see it.                                  *)
XtalSettled == xtal_correct_ok => now - lapse >= XERR_INIT_AVG

=============================================================================
