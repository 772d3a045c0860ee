---------------------------- MODULE Ltssm_proofs ----------------------------
(***************************************************************************)
(* Whatever the delays of the wire, the lengths of the transmissions and   *)
(* the moments at which the two ends start: a node that has taken a link   *)
(* number shares it with a peer that is training too, and the number of    *)
(* fast training sequences it learns is the peer's.  On a wire shorter     *)
(* than a training sequence, neither end gets two states ahead.            *)
(***************************************************************************)
EXTENDS Ltssm, FiniteSets, FiniteSetTheorems, FunctionTheorems, SequenceTheorems, TLAPS

\* Classes of states of the machine, in the order a node goes through them.
Before == {"Setup", "Quiet", "Compliance", "PollActive", "PollConfig", "DisableRest", "LoopRest"}
Ending == {"DisableEios", "DisableWait", "LoopEios", "LoopWait"}
Config == {"Start", "Wait", "Accept", "Complete", "Idle", "L0"}

Tests(s) == s.done \ {COMPLIANCE}
Weight(tests) == (IF DISABLE \in tests THEN 1 ELSE 0) + (IF LOOPBACK \in tests THEN 1 ELSE 0)

\* Electrical idle sequences a node has sent, one for each test it took ...
EiosSent(s) == Weight(Tests(s)) - (IF s.pc \in TestTs THEN 1 ELSE 0)

\* ... those that are still on the wire, and at least how many its peer has
\* seen, which ends each of its own tests with one.
IsIdle(e) == e.os.id = "IDL"
Idles(w) == Cardinality({k \in 1 .. Len(w) : IsIdle(w[k])})

Listening == {"DisableTs", "DisableEios", "DisableWait", "LoopEios", "LoopWait"}
EiosSeen(s) ==
  Weight(Tests(s)) - (IF s.pc \in TestTs \cup Ending THEN 1 ELSE 0)
    + (IF s.pc \in Listening /\ s.cnt["IDL"] > 0 THEN 1 ELSE 0)

EiosInv ==
  /\ \A n \in Node : EiosSeen(st[n]) + Idles(wire[Peer(n)]) <= EiosSent(st[Peer(n)])
  /\ \A n \in Node : st[n].pc \in {"DisableWait", "LoopWait"} /\ st[n].seen => st[n].cnt["IDL"] > 0

\* A node is on its lanes from Polling.Active to the end of its tests.
UpInv ==
  \A n \in Node :
    st[n].pc \in {"PollActive", "PollConfig", "DisableEios", "LoopEios"} \cup TestTs \cup Config =>
      st[n].up

IsTs(os) == os.id \in {"TS1", "TS2"}

\* Training sequences tell what their sender is configured with, and there
\* are none before its configuration is final.
Tells(os, cfg) == os.link \in {PAD, cfg.linknum} /\ os.n_fts = cfg.n_fts

Heard(s) == s.cnt["TS1"] > 0 \/ s.cnt["TS2"] > 0

SentInv ==
  \A n \in Node :
    LET p == Peer(n)
    IN  /\ \A k \in 1 .. Len(wire[p]) : IsTs(wire[p][k].os) => Tells(wire[p][k].os, st[p].cfg)
        /\ Heard(st[n]) => Tells(st[n].last, st[p].cfg)
        /\ st[n].last.link \in {PAD, st[p].cfg.linknum}
        /\ st[p].pc = "Setup" => wire[p] = <<>> /\ ~Heard(st[n]) /\ st[n].last.link = PAD

\* A link number is on the wire only when its sender is still in Configuration
\* or in a test, or when an electrical idle sequence comes behind it.
LinkInv ==
  \A n \in Node : \A k \in 1 .. Len(wire[n]) :
    IsTs(wire[n][k].os) /\ wire[n][k].os.link # PAD /\ st[n].pc \notin Config \cup TestTs =>
      \E j \in 1 .. Len(wire[n]) : j > k /\ IsIdle(wire[n][j])

SameTests(n) == Tests(st[n]) = Tests(st[Peer(n)])

\* What a link number means to a node in Configuration.
ConfigInv ==
  \A n \in Node : st[n].pc \in Config /\ SameTests(n) =>
    /\ st[n].last.link # PAD => st[Peer(n)].pc \in Config
    /\ st[n].pc # "Start" =>
         st[Peer(n)].pc \in Config /\ st[n].cfg.linknum = st[Peer(n)].cfg.linknum

FtsInv ==
  \A n \in Node :
    st[n].pc \in {"Idle", "L0"} =>
      st[n].tx_n_fts = st[Peer(n)].cfg.n_fts /\ st[Peer(n)].pc # "Setup"

CInv == EiosInv /\ UpInv /\ SentInv /\ LinkInv /\ ConfigInv /\ FtsInv
-----------------------------------------------------------------------------
ConfigRecord ==
  [linknum : 0 .. 255, n_fts : 0 .. 255, ts_ctl : 0 .. 31, quiet_to : Int,
   enable_tests : Int, force_tests : Int, poll_tx_count : Int]

Transit == [os : Sequences, at : Nat]

StateRecord ==
  [pc : States, todo : Seq(STRING \X Int), cfg : ConfigRecord, i : Nat, seen : BOOLEAN,
   done : SUBSET {DISABLE, COMPLIANCE, LOOPBACK}, up : BOOLEAN, tx_n_fts : 0 .. 255,
   cnt : [Events -> 0 .. CountCap], last : Sequences]

Types ==
  /\ st \in [Node -> StateRecord]
  /\ due \in [Node -> Nat] /\ lat \in [Node -> Nat]
  /\ wire \in [Node -> Seq(Transit)]
  /\ stray \in {0, CtlLoopback} /\ fatal \in BOOLEAN
-----------------------------------------------------------------------------
(* A transmission of the program: where it may go from where it is.        *)

UpStates == {"PollActive", "PollConfig", "DisableEios", "LoopEios"} \cup TestTs \cup Config

\* The counters are reset or left alone, the rest is the receiver's.
Keeps(s, t) ==
  /\ t.cfg = s.cfg /\ t.last = s.last /\ s.done \subseteq t.done
  /\ \A e \in Events : t.cnt[e] \in {0, s.cnt[e]}
  /\ t.pc \in UpStates => t.up

SameIdle(s, t) == t.done = s.done /\ t.cnt["IDL"] = s.cnt["IDL"]

Approaches(s, t) ==
  /\ s.pc \in Before /\ t.pc \in Before \ {"Setup"} /\ Tests(t) = Tests(s)

Starts(s, t) ==
  s.pc \in Before /\ t.pc = "Start" /\ t.done = s.done /\ s.last.link = PAD

TakesTest(s, t) ==
  /\ s.pc \in Before /\ t.pc \in {"DisableTs", "LoopEntry"}
  /\ \E test \in {DISABLE, LOOPBACK} \ s.done : t.done = s.done \cup {test}
  /\ t.pc = "DisableTs" => t.cnt["IDL"] = 0

InTest(s, t) ==
  /\ s.pc \in TestTs /\ t.pc \in TestTs /\ (t.pc = "DisableTs" <=> s.pc = "DisableTs")
  /\ SameIdle(s, t)

SendsEios(s, t) ==
  /\ s.pc \in TestTs /\ t.done = s.done
  /\ \/ s.pc = "DisableTs" /\ t.pc = "DisableEios" /\ t.cnt["IDL"] = s.cnt["IDL"]
     \/ s.pc # "DisableTs" /\ t.pc = "LoopEios" /\ t.cnt["IDL"] = 0

WaitsForEios(s, t) ==
  /\ s.pc \in Ending /\ t.pc \in {"DisableWait", "LoopWait"} /\ SameIdle(s, t)
  /\ t.seen => t.cnt["IDL"] > 0

EndsTest(s, t) ==
  /\ s.pc \in Ending /\ t.pc \in {"DisableRest", "LoopRest"} /\ SameIdle(s, t)
  /\ s.cnt["IDL"] > 0

Configures(s, t) ==
  /\ s.pc \in Config /\ t.pc \in Config /\ t.done = s.done
  /\ t.pc = "Start" => s.pc = "Start"
  /\ s.pc = "Start" /\ t.pc # "Start" => s.last.link = s.cfg.linknum
  /\ t.pc \in {"Idle", "L0"} =>
       \/ s.pc \in {"Idle", "L0"} /\ t.tx_n_fts = s.tx_n_fts
       \/ Heard(s) /\ t.tx_n_fts = s.last.n_fts

Moves(s, t) ==
  /\ t \in StateRecord /\ Keeps(s, t)
  /\ \/ Approaches(s, t) \/ Starts(s, t) \/ TakesTest(s, t) \/ InTest(s, t)
     \/ SendsEios(s, t) \/ WaitsForEios(s, t) \/ EndsTest(s, t) \/ Configures(s, t)

\* What is used of a state to find its moves.
Sound(s) ==
  /\ s \in StateRecord
  /\ s.pc \in UpStates => s.up
  /\ s.pc \in {"DisableWait", "LoopWait"} /\ s.seen => s.cnt["IDL"] > 0

\* Only the place in the program differs, and counters that are reset.
Near(s, t) ==
  /\ t \in StateRecord
  /\ t.todo = s.todo /\ t.cfg = s.cfg /\ t.last = s.last /\ t.done = s.done /\ t.up = s.up
  /\ t.tx_n_fts = s.tx_n_fts
  /\ \A e \in Events : t.cnt[e] \in {0, s.cnt[e]}

LEMMA AtNear ==
  ASSUME NEW s \in StateRecord, NEW pc \in States
  PROVE  /\ Near(s, At(s, pc))
         /\ At(s, pc).pc = pc /\ At(s, pc).seen = s.seen /\ At(s, pc).cnt = s.cnt
BY ZenonT(60) DEF At, StateRecord, Near

LEMMA ResetNear ==
  ASSUME NEW s \in StateRecord, NEW ids \in SUBSET Events
  PROVE  /\ Near(s, Reset(s, ids))
         /\ Reset(s, ids).pc = s.pc /\ Reset(s, ids).seen = s.seen /\ Reset(s, ids).i = s.i
         /\ \A e \in Events : Reset(s, ids).cnt[e] = IF e \in ids THEN 0 ELSE s.cnt[e]
<1> DEFINE c == [e \in Events |-> IF e \in ids THEN 0 ELSE s.cnt[e]]
<1>1. s.cnt \in [Events -> 0 .. CountCap]
  BY DEF StateRecord
<1>2. c \in [Events -> 0 .. CountCap] /\ \A e \in Events : c[e] = IF e \in ids THEN 0 ELSE s.cnt[e]
  BY <1>1 DEF CountCap
<1>3. Reset(s, ids) = [s EXCEPT !.cnt = c]
  BY DEF Reset
<1> HIDE DEF c
<1> QED
  BY <1>2, <1>3, ZenonT(60) DEF StateRecord, Near

LEMMA LoopNear ==
  ASSUME NEW s \in StateRecord, NEW j \in Nat
  PROVE  /\ Near(s, [s EXCEPT !.i = j])
         /\ [s EXCEPT !.i = j].pc = s.pc /\ [s EXCEPT !.i = j].cnt = s.cnt
         /\ [s EXCEPT !.i = j].seen = s.seen
BY ZenonT(60) DEF StateRecord, Near

LEMMA SeenNear ==
  ASSUME NEW s \in StateRecord, NEW b \in BOOLEAN
  PROVE  /\ Near(s, [s EXCEPT !.seen = b])
         /\ [s EXCEPT !.seen = b].pc = s.pc /\ [s EXCEPT !.seen = b].cnt = s.cnt
         /\ [s EXCEPT !.seen = b].seen = b
<1> DEFINE t == [s EXCEPT !.seen = b]
<1>1. t \in StateRecord
  BY ZenonT(60) DEF StateRecord
<1>2. /\ t.pc = s.pc /\ t.cnt = s.cnt /\ t.todo = s.todo /\ t.cfg = s.cfg /\ t.last = s.last
      /\ t.done = s.done /\ t.up = s.up /\ t.tx_n_fts = s.tx_n_fts /\ t.seen = b
  BY Zenon DEF StateRecord
<1> HIDE DEF t
<1> QED
  BY <1>1, <1>2 DEF Near, t

LEMMA NearSelf ==
  ASSUME NEW s \in StateRecord
  PROVE  Near(s, s)
BY DEF Near

LEMMA NearTrans ==
  ASSUME NEW s, NEW t, NEW u, Near(s, t), Near(t, u)
  PROVE  Near(s, u)
BY DEF Near

LEMMA NearKeeps ==
  ASSUME NEW s, NEW t, Near(s, t), s.up
  PROVE  t \in StateRecord /\ Keeps(s, t) /\ t.done = s.done
BY DEF Near, Keeps

\* A state entered with some counters reset.
LEMMA Entered ==
  ASSUME NEW s \in StateRecord, NEW pc \in States, NEW ids \in SUBSET Events
  PROVE  /\ Near(s, Reset(At(s, pc), ids)) /\ Reset(At(s, pc), ids).pc = pc
         /\ \A e \in Events : Reset(At(s, pc), ids).cnt[e] = IF e \in ids THEN 0 ELSE s.cnt[e]
<1> DEFINE r == At(s, pc)
           t == Reset(r, ids)
<1>1. Near(s, r) /\ r.pc = pc /\ r.cnt = s.cnt
  BY AtNear
<1>2. r \in StateRecord
  BY <1>1 DEF Near
<1> HIDE DEF r
<1>3. Near(r, t) /\ t.pc = pc /\ \A e \in Events : t.cnt[e] = IF e \in ids THEN 0 ELSE s.cnt[e]
  BY <1>1, <1>2, ResetNear
<1> HIDE DEF t
<1>4. Near(s, t)
  BY <1>1, <1>3, NearTrans
<1> QED
  BY <1>3, <1>4 DEF t, r

\* The names of counters and states, for the facts above.
LEMMA Names ==
  /\ {"TS1"} \in SUBSET Events /\ {"TS2"} \in SUBSET Events /\ {"IDL"} \in SUBSET Events
  /\ {"D0"} \in SUBSET Events /\ {"TS1", "TS2"} \in SUBSET Events
  /\ {"Quiet", "Compliance", "PollActive", "PollConfig", "DisableRest", "LoopRest"} \subseteq States
  /\ Ending \subseteq States /\ Config \subseteq States /\ TestTs \subseteq States
BY DEF Events, States, Ending, Config, TestTs, Training

LEMMA ConfigMove ==
  ASSUME NEW s, NEW u, Sound(s), s.pc \in Config, Near(s, u), u.pc \in Config,
         u.pc = "Start" => s.pc = "Start",
         s.pc = "Start" /\ u.pc # "Start" => s.last.link = s.cfg.linknum,
         u.pc \in {"Idle", "L0"} => s.pc \in {"Idle", "L0"}
  PROVE  u \in StateRecord /\ Moves(s, u)
<1>1. s.up
  BY DEF Sound, UpStates
<1>2. u \in StateRecord /\ Keeps(s, u) /\ u.done = s.done /\ u.tx_n_fts = s.tx_n_fts
  BY <1>1, NearKeeps DEF Near
<1>3. Configures(s, u)
  BY <1>2 DEF Configures
<1> QED
  BY <1>2, <1>3 DEF Moves

LEMMA ApproachMove ==
  ASSUME NEW s, NEW u, s.pc \in Before, Near(s, u), u.pc \in Before \ {"Setup"},
         u.pc \in {"PollActive", "PollConfig"} => s.up
  PROVE  u \in StateRecord /\ Moves(s, u)
<1>1. u \in StateRecord /\ Keeps(s, u)
  BY DEF Near, Keeps, UpStates, Before, TestTs, Config
<1>2. Approaches(s, u)
  BY DEF Approaches, Near, Tests
<1> QED
  BY <1>1, <1>2 DEF Moves

\* A counter of the loop.
LEMMA CountedNat ==
  ASSUME NEW s \in StateRecord, NEW heard
  PROVE  Counted(s, heard) \in Nat /\ Least(s.i + 1, LoopCap(s)) \in Nat
<1>1. s.i \in Nat /\ s.cfg.poll_tx_count \in Int
  BY DEF StateRecord, ConfigRecord
<1> QED
  BY <1>1 DEF Counted, Least, LoopCap

LEMMA QuietMoves ==
  ASSUME NEW n \in Node, Sound(st[n]), InitLink(n) \/ BackToDetect(n)
  PROVE  \E t \in StateRecord : Go(n, t) /\ Moves(st[n], t)
<1> DEFINE s == st[n]
           u == At(s, "Quiet")
<1>1. s.pc \in {"Setup", "DisableRest", "LoopRest"} /\ Go(n, u)
  BY DEF InitLink, BackToDetect, Ready, Detect
<1>2. Near(s, u) /\ u.pc = "Quiet"
  BY Names, AtNear DEF Sound
<1> HIDE DEF u
<1>3. u \in StateRecord /\ Moves(s, u)
  BY <1>1, <1>2, ApproachMove DEF Before
<1> QED
  BY <1>1, <1>3

LEMMA LaneSet ==
  ASSUME NEW s \in StateRecord, NEW b \in BOOLEAN
  PROVE  /\ [s EXCEPT !.up = b] \in StateRecord
         /\ [s EXCEPT !.up = b].pc = s.pc /\ [s EXCEPT !.up = b].cnt = s.cnt
         /\ [s EXCEPT !.up = b].cfg = s.cfg /\ [s EXCEPT !.up = b].last = s.last
         /\ [s EXCEPT !.up = b].done = s.done /\ [s EXCEPT !.up = b].up = b
         /\ [s EXCEPT !.up = b].seen = s.seen
<1>1. [s EXCEPT !.up = b] \in StateRecord
  BY DEF StateRecord
<1> QED
  BY <1>1, Zenon DEF StateRecord

LEMMA TestNoted ==
  ASSUME NEW s \in StateRecord, NEW test \in {DISABLE, COMPLIANCE, LOOPBACK},
         NEW t, t = [s EXCEPT !.done = @ \cup {test}]
  PROVE  /\ t \in StateRecord
         /\ t.pc = s.pc /\ t.cnt = s.cnt /\ t.cfg = s.cfg /\ t.last = s.last
         /\ t.done = s.done \cup {test} /\ t.up = s.up /\ t.seen = s.seen
<1>1. t \in StateRecord
  BY ZenonT(60) DEF StateRecord
<1> QED
  BY <1>1, Zenon DEF StateRecord

\* Polling.Active always follows with the lane driven.
LEMMA ActiveMove ==
  ASSUME NEW s, NEW r, Near(s, r), s.pc \in Before, r \in StateRecord
  PROVE  PollActive(r) \in StateRecord /\ Moves(s, PollActive(r))
<1> DEFINE a == At(r, "PollActive")
           t == [a EXCEPT !.up = TRUE]
<1>1. Near(r, a) /\ a.pc = "PollActive"
  BY Names, AtNear
<1>2. a \in StateRecord /\ Near(s, a)
  BY <1>1, NearTrans DEF Near
<1> HIDE DEF a
<1>3. /\ t \in StateRecord
      /\ t.pc = a.pc /\ t.cnt = a.cnt /\ t.cfg = a.cfg /\ t.last = a.last /\ t.done = a.done /\ t.up
  BY <1>2, LaneSet
<1> HIDE DEF t
<1>4. Keeps(s, t) /\ Approaches(s, t)
  BY <1>1, <1>2, <1>3 DEF Near, Keeps, Approaches, Before, Tests
<1>5. t = PollActive(r)
  BY DEF t, a, PollActive
<1> QED
  BY <1>3, <1>4, <1>5 DEF Moves

LEMMA ComplianceMove ==
  ASSUME NEW s, NEW r, Near(s, r), s.pc \in Before, r \in StateRecord,
         NEW u, u = [At(r, "Compliance") EXCEPT !.done = @ \cup {COMPLIANCE}]
  PROVE  /\ u \in StateRecord /\ Moves(s, u)
         /\ [u EXCEPT !.up = FALSE] \in StateRecord /\ Moves(s, [u EXCEPT !.up = FALSE])
<1> DEFINE a == At(r, "Compliance")
           v == [u EXCEPT !.up = FALSE]
<1>1. Near(r, a) /\ a.pc = "Compliance"
  BY Names, AtNear
<1>2. a \in StateRecord /\ Near(s, a)
  BY <1>1, NearTrans DEF Near
<1> HIDE DEF a
<1>3. /\ u \in StateRecord /\ u.pc = a.pc /\ u.cnt = a.cnt /\ u.cfg = a.cfg /\ u.last = a.last
      /\ u.done = a.done \cup {COMPLIANCE}
  BY <1>2, TestNoted DEF a
<1>4. /\ v \in StateRecord /\ v.pc = u.pc /\ v.cnt = u.cnt /\ v.cfg = u.cfg /\ v.last = u.last
      /\ v.done = u.done
  BY <1>3, LaneSet
<1> HIDE DEF v
<1>5. Keeps(s, u) /\ Keeps(s, v)
  BY <1>1, <1>2, <1>3, <1>4 DEF Near, Keeps, UpStates, TestTs, Config
<1>6. Approaches(s, u) /\ Approaches(s, v)
  BY <1>1, <1>2, <1>3, <1>4 DEF Near, Approaches, Before, Tests
<1> QED
  BY <1>3, <1>4, <1>5, <1>6 DEF Moves, v

LEMMA DetectMoves ==
  ASSUME NEW n \in Node, Sound(st[n]), DetectQuiet(n)
  PROVE  \E t \in StateRecord : Go(n, t) /\ Moves(st[n], t)
<1> DEFINE s == st[n]
           u == [s EXCEPT !.i = @ + 1]
<1>1. s.pc = "Quiet" /\ (Go(n, u) \/ \E p \in Polling(s) : Go(n, p))
  BY DEF DetectQuiet, Ready
<1>2. s \in StateRecord /\ s.pc \in Before /\ s.i + 1 \in Nat
  BY <1>1 DEF Sound, Before, StateRecord
<1> HIDE DEF s
<1>3. u \in StateRecord /\ Moves(s, u)
  <2>1. Near(s, u) /\ u.pc = "Quiet"
    BY <1>1, <1>2, LoopNear
  <2> HIDE DEF u
  <2> QED
    BY <1>2, <2>1, ApproachMove DEF Before
<1>4. ASSUME NEW p \in Polling(s)
      PROVE  p \in StateRecord /\ Moves(s, p)
  <2> DEFINE r == Reset(s, {"TS1", "TS2"})
             test == [At(r, "Compliance") EXCEPT !.done = @ \cup {COMPLIANCE}]
  <2>1. Near(s, r) /\ r \in StateRecord
    BY <1>2, Names, ResetNear DEF Near
  <2>2. p = test \/ p = [test EXCEPT !.up = FALSE] \/ p = PollActive(r)
    BY DEF Polling
  <2> HIDE DEF r
  <2>3. CASE p = PollActive(r)
    BY <1>2, <2>1, <2>3, ActiveMove
  <2>4. CASE p = test \/ p = [test EXCEPT !.up = FALSE]
    <3>1. /\ test \in StateRecord /\ Moves(s, test)
          /\ [test EXCEPT !.up = FALSE] \in StateRecord
          /\ Moves(s, [test EXCEPT !.up = FALSE])
      BY <1>2, <2>1, ComplianceMove
    <3> HIDE DEF test
    <3> QED
      BY <2>4, <3>1
  <2> QED
    BY <2>2, <2>3, <2>4
<1> QED
  BY <1>1, <1>3, <1>4 DEF s

LEMMA ComplianceMoves ==
  ASSUME NEW n \in Node, Sound(st[n]), LeaveCompliance(n)
  PROVE  \E t \in StateRecord : Go(n, t) /\ Moves(st[n], t)
<1>1. st[n].pc = "Compliance" /\ Go(n, PollActive(st[n]))
  BY DEF LeaveCompliance, Ready
<1>2. st[n] \in StateRecord /\ st[n].pc \in Before
  BY <1>1 DEF Sound, Before
<1> QED
  BY <1>1, <1>2, NearSelf, ActiveMove

LEMMA PollingActiveMoves ==
  ASSUME NEW n \in Node, Sound(st[n]), PollingActive(n)
  PROVE  \E t \in StateRecord : Go(n, t) /\ Moves(st[n], t)
<1> DEFINE s == st[n]
           j == Counted(s, s.cnt["TS1"] > 0 \/ s.cnt["TS2"] > 0)
           t == Reset(At(s, "PollConfig"), {"TS2"})
           u == [s EXCEPT !.i = j]
<1>1. s.pc = "PollActive" /\ (Go(n, t) \/ Go(n, u))
  BY DEF PollingActive, Ready
<1>2. s \in StateRecord /\ s.up /\ s.pc \in Before
  BY <1>1 DEF Sound, UpStates, Before
<1> HIDE DEF s
<1>3. j \in Nat
  BY <1>2, CountedNat
<1> HIDE DEF j
<1>4. Near(s, t) /\ t.pc = "PollConfig" /\ Near(s, u) /\ u.pc = "PollActive"
  BY <1>1, <1>2, <1>3, Names, Entered, LoopNear
<1> HIDE DEF t, u
<1>5. t \in StateRecord /\ Moves(s, t) /\ u \in StateRecord /\ Moves(s, u)
  BY <1>2, <1>4, ApproachMove DEF Before
<1> QED
  BY <1>1, <1>5 DEF s

LEMMA TakesFresh ==
  ASSUME NEW s, NEW test, TRUE \in Takes(s, test)
  PROVE  test \notin s.done
BY DEF Takes

LEMMA TestMove ==
  ASSUME NEW s, NEW t, Near(s, t), t \in StateRecord, s.pc = "PollConfig", s.up
  PROVE  /\ TRUE \in Takes(t, DISABLE) => Disabled(t) \in StateRecord /\ Moves(s, Disabled(t))
         /\ TRUE \in Takes(t, LOOPBACK) => Loopback(t) \in StateRecord /\ Moves(s, Loopback(t))
<1>1. ASSUME TRUE \in Takes(t, DISABLE)
      PROVE  Disabled(t) \in StateRecord /\ Moves(s, Disabled(t))
  <2> DEFINE r == Reset(At(t, "DisableTs"), {"IDL"})
             u == [r EXCEPT !.done = @ \cup {DISABLE}]
  <2>1. Near(t, r) /\ r.pc = "DisableTs" /\ r.cnt["IDL"] = 0
    BY Names, Entered DEF TestTs, Events
  <2>2. r \in StateRecord /\ Near(s, r)
    BY <2>1, NearTrans DEF Near
  <2> HIDE DEF r
  <2>3. /\ u \in StateRecord /\ u.pc = r.pc /\ u.cnt = r.cnt /\ u.cfg = r.cfg
        /\ u.last = r.last /\ u.done = r.done \cup {DISABLE} /\ u.up = r.up
    BY <2>2, TestNoted
  <2>4. u = Disabled(t)
    BY DEF Disabled, r
  <2> HIDE DEF u
  <2>5. Keeps(s, u)
    BY <2>2, <2>3 DEF Near, Keeps
  <2>6. TakesTest(s, u)
    <3>1. DISABLE \in {DISABLE, LOOPBACK} \ s.done
      BY <1>1, TakesFresh DEF Near
    <3> QED
      BY <2>1, <2>2, <2>3, <3>1 DEF TakesTest, Near, Before
  <2> QED
    BY <2>3, <2>4, <2>5, <2>6 DEF Moves
<1>2. ASSUME TRUE \in Takes(t, LOOPBACK)
      PROVE  Loopback(t) \in StateRecord /\ Moves(s, Loopback(t))
  <2> DEFINE r == Reset(At(t, "LoopEntry"), {"TS1"})
             u == [r EXCEPT !.done = @ \cup {LOOPBACK}]
  <2>1. Near(t, r) /\ r.pc = "LoopEntry"
    BY Names, Entered DEF TestTs
  <2>2. r \in StateRecord /\ Near(s, r)
    BY <2>1, NearTrans DEF Near
  <2> HIDE DEF r
  <2>3. /\ u \in StateRecord /\ u.pc = r.pc /\ u.cnt = r.cnt /\ u.cfg = r.cfg
        /\ u.last = r.last /\ u.done = r.done \cup {LOOPBACK} /\ u.up = r.up
    BY <2>2, TestNoted
  <2>4. u = Loopback(t)
    BY DEF Loopback, r
  <2> HIDE DEF u
  <2>5. Keeps(s, u)
    BY <2>2, <2>3 DEF Near, Keeps
  <2>6. TakesTest(s, u)
    <3>1. LOOPBACK \in {DISABLE, LOOPBACK} \ s.done
      BY <1>2, TakesFresh DEF Near
    <3> QED
      BY <2>1, <2>2, <2>3, <3>1 DEF TakesTest, Near, Before
  <2> QED
    BY <2>3, <2>4, <2>5, <2>6 DEF Moves
<1> QED
  BY <1>1, <1>2

LEMMA ConfigurationMove ==
  ASSUME NEW s, NEW t, Near(s, t), t \in StateRecord, s.pc = "PollConfig", s.up,
         t.last.link = PAD, NEW c \in Configuration(t)
  PROVE  c \in StateRecord /\ Moves(s, c)
<1>1. CASE c = Start(t)
  <2> DEFINE u == Reset(At(t, "Start"), {"TS1"})
  <2>1. Near(t, u) /\ u.pc = "Start"
    BY Names, Entered DEF Config
  <2> HIDE DEF u
  <2>2. Near(s, u)
    BY <2>1, NearTrans
  <2>3. u \in StateRecord /\ Keeps(s, u) /\ u.done = s.done
    BY <2>2, NearKeeps
  <2>4. Starts(s, u)
    BY <2>1, <2>3 DEF Starts, Near, Before
  <2> QED
    BY <1>1, <2>3, <2>4 DEF Moves, Start, u
<1>2. CASE c # Start(t)
  <2>1. \/ TRUE \in Takes(t, DISABLE) /\ c = Disabled(t)
        \/ TRUE \in Takes(t, LOOPBACK) /\ c = Loopback(t)
    <3>1. Takes(t, DISABLE) \subseteq BOOLEAN /\ Takes(t, LOOPBACK) \subseteq BOOLEAN
      BY DEF Takes
    <3>2. PICK d \in Takes(t, DISABLE) :
            c \in IF d THEN {Disabled(t)}
                  ELSE {IF l THEN Loopback(t) ELSE Start(t) : l \in Takes(t, LOOPBACK)}
      BY Zenon DEF Configuration
    <3>3. CASE d = TRUE
      BY <3>2, <3>3
    <3>4. CASE d = FALSE
      <4>1. PICK l \in Takes(t, LOOPBACK) : c = IF l THEN Loopback(t) ELSE Start(t)
        BY <3>2, <3>4
      <4> QED
        BY <1>2, <3>1, <4>1
    <3> QED
      BY <3>1, <3>3, <3>4
  <2> QED
    BY <2>1, TestMove
<1> QED
  BY <1>1, <1>2

LEMMA PollingConfigMoves ==
  ASSUME NEW n \in Node, Sound(st[n]), PollingConfig(n)
  PROVE  \E t \in StateRecord : Go(n, t) /\ Moves(st[n], t)
<1> DEFINE s == st[n]
           j == Counted(s, s.cnt["TS2"] > 0)
           t == IF HeardPad(s) THEN s ELSE Reset(s, {"TS2"})
           u == [t EXCEPT !.i = j]
<1>1. /\ s.pc = "PollConfig"
      /\ \/ t.cnt["TS2"] >= 8 /\ \E c \in Configuration(t) : Go(n, c)
         \/ Go(n, u)
  BY DEF PollingConfig, Ready
<1>2. s \in StateRecord /\ s.up /\ s.pc \in Before
  BY <1>1 DEF Sound, UpStates, Before
<1> HIDE DEF s
<1>3. j \in Nat
  BY <1>2, CountedNat
<1> HIDE DEF j
<1>4. Near(s, t) /\ t.pc = s.pc /\ (t.cnt["TS2"] >= 8 => t.last.link = PAD)
  <2> DEFINE r == Reset(s, {"TS2"})
  <2>1. Near(s, r) /\ r.pc = s.pc /\ r.cnt["TS2"] = 0
    BY <1>2, Names, ResetNear DEF Events
  <2> HIDE DEF r
  <2>2. CASE HeardPad(s)
    BY <1>2, <2>2, NearSelf DEF HeardPad
  <2>3. CASE ~HeardPad(s)
    <3>1. t = r
      BY <2>3 DEF r
    <3> QED
      BY <2>1, <3>1
  <2> QED
    BY <2>2, <2>3
<1>5. t \in StateRecord
  BY <1>4 DEF Near
<1> HIDE DEF t
<1>6. u \in StateRecord /\ Moves(s, u)
  <2>1. Near(t, u) /\ u.pc = t.pc
    BY <1>3, <1>5, LoopNear
  <2> HIDE DEF u
  <2>2. Near(s, u)
    BY <1>4, <2>1, NearTrans
  <2> QED
    BY <1>1, <1>2, <1>4, <2>1, <2>2, ApproachMove DEF Before
<1>7. ASSUME t.cnt["TS2"] >= 8, NEW c \in Configuration(t)
      PROVE  c \in StateRecord /\ Moves(s, c)
  BY <1>1, <1>2, <1>4, <1>5, <1>7, ConfigurationMove
<1> QED
  BY <1>1, <1>6, <1>7 DEF s

\* Complete(t) but for the first value of its local.
LEMMA CompleteNear ==
  ASSUME NEW t \in StateRecord, NEW c \in Complete(t)
  PROVE  Near(t, c) /\ c.pc = "Complete"
<1> DEFINE r == Reset(At(t, "Complete"), {"TS2"})
<1>1. Near(t, r) /\ r.pc = "Complete" /\ r \in StateRecord
  BY Names, Entered DEF Config, Near
<1>2. PICK b \in BOOLEAN : c = [r EXCEPT !.seen = b]
  BY DEF Complete
<1> HIDE DEF r
<1>3. Near(r, c) /\ c.pc = r.pc
  BY <1>1, <1>2, SeenNear
<1> QED
  BY <1>1, <1>3, NearTrans

LEMMA LinkwidthMoves ==
  ASSUME NEW n \in Node, Sound(st[n]), LinkwidthStart(n)
  PROVE  \E t \in StateRecord : Go(n, t) /\ Moves(st[n], t)
<1> DEFINE s == st[n]
           t == IF s.last.link = PAD THEN Reset(s, {"TS1"}) ELSE s
           r == Reset(At(t, "Wait"), {"TS1"})
           u == IF t.cnt["TS1"] >= 2 /\ s.last.link = s.cfg.linknum THEN r ELSE t
<1>1. s.pc = "Start" /\ Go(n, u)
  BY DEF LinkwidthStart, Ready
<1>2. Sound(s) /\ s \in StateRecord
  BY DEF Sound
<1> HIDE DEF s
<1>3. Near(s, t) /\ t.pc = s.pc
  <2>1. Near(s, Reset(s, {"TS1"})) /\ Reset(s, {"TS1"}).pc = s.pc
    BY <1>2, Names, ResetNear
  <2> QED
    BY <1>2, <2>1, NearSelf
<1> HIDE DEF t
<1>4. Near(t, r) /\ r.pc = "Wait" /\ Near(t, t)
  BY <1>3, Names, Entered, NearSelf DEF Config, Near
<1> HIDE DEF r
<1>5. Near(s, u) /\ (u.pc = "Start" \/ (u.pc = "Wait" /\ s.last.link = s.cfg.linknum))
  BY <1>1, <1>3, <1>4, NearTrans
<1> HIDE DEF u
<1>6. u \in StateRecord /\ Moves(s, u)
  BY <1>1, <1>2, <1>5, ConfigMove DEF Config
<1> QED
  BY <1>1, <1>6 DEF s

LEMMA LanenumMoves ==
  ASSUME NEW n \in Node, Sound(st[n]), LanenumWait(n) \/ LanenumAccept(n)
  PROVE  \E t \in StateRecord : Go(n, t) /\ Moves(st[n], t)
<1> DEFINE s == st[n]
           r == Reset(s, {"TS1"})
<1>1. /\ s.pc \in {"Wait", "Accept"}
      /\ \E t \in {s, r} : \/ Go(n, t)
                           \/ Go(n, Reset(At(t, "Accept"), {"TS1"}))
                           \/ \E c \in Complete(t) : Go(n, c)
  BY DEF LanenumWait, LanenumAccept, Ready
<1>2. Sound(s) /\ s \in StateRecord /\ s.pc \in Config
  BY <1>1 DEF Sound, Config
<1> HIDE DEF s
<1>3. Near(s, r) /\ r.pc = s.pc /\ Near(s, s)
  BY <1>2, Names, ResetNear, NearSelf
<1> HIDE DEF r
<1>4. PICK t \in {s, r} : \/ Go(n, t)
                          \/ Go(n, Reset(At(t, "Accept"), {"TS1"}))
                          \/ \E c \in Complete(t) : Go(n, c)
  BY <1>1
<1>5. Near(s, t) /\ t.pc = s.pc /\ t \in StateRecord
  BY <1>3, <1>4 DEF Near
<1>6. ASSUME NEW u, Near(t, u), u.pc \in {"Wait", "Accept", "Complete"}
      PROVE  u \in StateRecord /\ Moves(s, u)
  <2>1. Near(s, u)
    BY <1>5, <1>6, NearTrans
  <2> QED
    BY <1>1, <1>2, <1>6, <2>1, ConfigMove DEF Config
<1>7. /\ Near(t, t)
      /\ Near(t, Reset(At(t, "Accept"), {"TS1"})) /\ Reset(At(t, "Accept"), {"TS1"}).pc = "Accept"
      /\ \A c \in Complete(t) : Near(t, c) /\ c.pc = "Complete"
  BY <1>5, Names, Entered, NearSelf, CompleteNear DEF Config
<1> QED
  BY <1>1, <1>4, <1>5, <1>6, <1>7 DEF s

LEMMA CompleteMoves ==
  ASSUME NEW n \in Node, Sound(st[n]), ConfigComplete(n)
  PROVE  \E t \in StateRecord : Go(n, t) /\ Moves(st[n], t)
<1> DEFINE s == st[n]
           j == IF s.seen THEN Least(s.i + 1, LoopCap(s)) ELSE s.i
           got == IF BothWrong(s) THEN 0 ELSE s.cnt["TS2"]
           r == Reset(At(s, "Idle"), {"D0"})
           t == [r EXCEPT !.tx_n_fts = s.last.n_fts]
           u == [s EXCEPT !.i = j, !.seen = got > 0]
<1>1. s.pc = "Complete" /\ ((got >= 8 /\ Go(n, t)) \/ Go(n, u))
  BY DEF ConfigComplete, Ready
<1>2. /\ Sound(s) /\ s \in StateRecord /\ s.pc \in Config /\ s.i \in Nat /\ s.up
      /\ s.last.n_fts \in 0 .. 255
  BY <1>1 DEF Sound, Config, UpStates, StateRecord, Sequences
<1> HIDE DEF s
<1>3. j \in Nat
  BY <1>2, CountedNat
<1> HIDE DEF j
<1>4. u \in StateRecord /\ Moves(s, u)
  <2> DEFINE v == [s EXCEPT !.i = j]
             b == got > 0
  <2>1. Near(s, v) /\ v.pc = s.pc /\ v \in StateRecord
    BY <1>2, <1>3, LoopNear DEF Near
  <2>2. u = [v EXCEPT !.seen = b]
    OBVIOUS
  <2>3. b \in BOOLEAN
    OBVIOUS
  <2> HIDE DEF u, v, b
  <2>4. Near(v, u) /\ u.pc = v.pc
    BY <2>1, <2>2, <2>3, SeenNear
  <2>5. Near(s, u)
    BY <2>1, <2>4, NearTrans
  <2> QED
    BY <1>1, <1>2, <2>1, <2>4, <2>5, ConfigMove DEF Config
<1>5. ASSUME got >= 8
      PROVE  t \in StateRecord /\ Moves(s, t)
  <2>0. Near(s, r) /\ r.pc = "Idle"
    BY <1>2, Names, Entered DEF Config
  <2>1. Near(s, r) /\ r.pc = "Idle" /\ r \in StateRecord
    BY <2>0 DEF Near
  <2> HIDE DEF r
  <2>2. t \in StateRecord
    BY <1>2, <2>1, ZenonT(60) DEF StateRecord
  <2>3. /\ t.pc = r.pc /\ t.cfg = r.cfg /\ t.last = r.last /\ t.cnt = r.cnt /\ t.up = r.up
        /\ t.done = r.done /\ t.tx_n_fts = s.last.n_fts
    BY <2>1, Zenon DEF StateRecord
  <2> HIDE DEF t
  <2>4. Heard(s)
    <3>1. s.cnt["TS2"] \in Nat
      BY <1>2 DEF StateRecord, Events, CountCap
    <3> QED
      BY <1>5, <3>1 DEF Heard
  <2>5. Keeps(s, t) /\ Configures(s, t)
    BY <1>1, <1>2, <2>1, <2>3, <2>4 DEF Near, Keeps, Configures, Config
  <2> QED
    BY <2>2, <2>5 DEF Moves
<1> QED
  BY <1>1, <1>4, <1>5 DEF s

LEMMA IdleMoves ==
  ASSUME NEW n \in Node, Sound(st[n]), ConfigIdle(n) \/ LinkUp(n)
  PROVE  \E t \in StateRecord : Go(n, t) /\ Moves(st[n], t)
<1> DEFINE s == st[n]
           j == IF s.cnt["D0"] > 0 THEN Least(s.i + 1, LoopCap(s)) ELSE s.i
           t == At(s, "L0")
           u == [s EXCEPT !.i = j]
<1>1. s.pc \in {"Idle", "L0"} /\ (Go(n, t) \/ Go(n, u) \/ (s.pc = "L0" /\ Go(n, s)))
  <2>1. CASE ConfigIdle(n)
    <3>1. s.pc = "Idle"
      BY <2>1 DEF ConfigIdle, Ready
    <3>2. IF j >= 16 /\ s.cnt["D0"] >= 8 THEN Go(n, t) ELSE Go(n, u)
      BY <2>1, Zenon DEF ConfigIdle
    <3> HIDE DEF s, t, u, j
    <3> QED
      BY <3>1, <3>2
  <2>2. CASE LinkUp(n)
    BY <2>2 DEF LinkUp, Ready
  <2> QED
    BY <2>1, <2>2
<1>2. Sound(s) /\ s \in StateRecord /\ s.pc \in Config /\ s.i \in Nat
  BY <1>1 DEF Sound, Config, StateRecord
<1> HIDE DEF s
<1>3. j \in Nat
  BY <1>2, CountedNat
<1> HIDE DEF j
<1>4. Near(s, t) /\ t.pc = "L0" /\ Near(s, u) /\ u.pc = s.pc /\ Near(s, s)
  BY <1>2, <1>3, Names, AtNear, LoopNear, NearSelf DEF Config
<1> HIDE DEF t, u
<1>5. \A v \in {s, t, u} : v \in StateRecord /\ Moves(s, v)
  BY <1>1, <1>2, <1>4, ConfigMove DEF Config
<1> QED
  BY <1>1, <1>5 DEF s

LEMMA InTestMove ==
  ASSUME NEW s, NEW u, Sound(s), s.pc \in TestTs, Near(s, u), u.pc \in TestTs,
         u.pc = "DisableTs" <=> s.pc = "DisableTs", u.cnt["IDL"] = s.cnt["IDL"]
  PROVE  u \in StateRecord /\ Moves(s, u)
<1>1. s.up
  BY DEF Sound, UpStates
<1>2. u \in StateRecord /\ Keeps(s, u) /\ u.done = s.done
  BY <1>1, NearKeeps
<1>3. InTest(s, u)
  BY <1>2 DEF InTest, SameIdle
<1> QED
  BY <1>2, <1>3 DEF Moves

LEMMA EiosMove ==
  ASSUME NEW s, NEW u, Sound(s), Near(s, u),
         \/ s.pc = "DisableTs" /\ u.pc = "DisableEios" /\ u.cnt["IDL"] = s.cnt["IDL"]
         \/ s.pc \in {"LoopEntry", "LoopActive"} /\ u.pc = "LoopEios" /\ u.cnt["IDL"] = 0
  PROVE  u \in StateRecord /\ Moves(s, u)
<1>1. s.up
  BY DEF Sound, UpStates, TestTs
<1>2. u \in StateRecord /\ Keeps(s, u) /\ u.done = s.done
  BY <1>1, NearKeeps
<1>3. SendsEios(s, u)
  BY <1>2 DEF SendsEios, TestTs
<1> QED
  BY <1>2, <1>3 DEF Moves

LEMMA DisableTsMoves ==
  ASSUME NEW n \in Node, Sound(st[n]), DisableTs(n)
  PROVE  \E t \in StateRecord : Go(n, t) /\ Moves(st[n], t)
<1> DEFINE s == st[n]
           t == [s EXCEPT !.i = @ + 1]
           u == At(t, "DisableEios")
<1>1. s.pc = "DisableTs" /\ (Go(n, t) \/ Go(n, u))
  BY DEF DisableTs, Repeat, Ready
<1>2. Sound(s) /\ s \in StateRecord /\ s.i + 1 \in Nat
  BY DEF Sound, StateRecord
<1> HIDE DEF s
<1>3. Near(s, t) /\ t.pc = s.pc /\ t.cnt = s.cnt
  BY <1>2, LoopNear
<1>4. t \in StateRecord
  BY <1>3 DEF Near
<1> HIDE DEF t
<1>5. Near(t, u) /\ u.pc = "DisableEios" /\ u.cnt = t.cnt
  BY <1>4, Names, AtNear DEF Ending
<1> HIDE DEF u
<1>6. Near(s, u) /\ u.cnt = s.cnt
  BY <1>3, <1>5, NearTrans
<1>7. t \in StateRecord /\ Moves(s, t)
  BY <1>1, <1>2, <1>3, InTestMove DEF TestTs
<1>8. u \in StateRecord /\ Moves(s, u)
  BY <1>1, <1>2, <1>5, <1>6, EiosMove
<1> QED
  BY <1>1, <1>7, <1>8 DEF s

LEMMA LoopbackEntryMoves ==
  ASSUME NEW n \in Node, Sound(st[n]), LoopbackEntry(n)
  PROVE  \E t \in StateRecord : Go(n, t) /\ Moves(st[n], t)
<1> DEFINE s == st[n]
           u == At(s, "LoopActive")
<1>1. s.pc = "LoopEntry" /\ (Go(n, s) \/ Go(n, u))
  BY DEF LoopbackEntry, Ready
<1>2. Sound(s) /\ s \in StateRecord
  BY DEF Sound
<1> HIDE DEF s
<1>3. Near(s, u) /\ u.pc = "LoopActive" /\ u.cnt = s.cnt /\ Near(s, s)
  BY <1>2, Names, AtNear, NearSelf DEF TestTs
<1> HIDE DEF u
<1>4. \A t \in {s, u} : t \in StateRecord /\ Moves(s, t)
  BY <1>1, <1>2, <1>3, InTestMove DEF TestTs
<1> QED
  BY <1>1, <1>4 DEF s

LEMMA LoopbackActiveMoves ==
  ASSUME NEW n \in Node, Sound(st[n]), LoopbackActive(n)
  PROVE  \E t \in StateRecord : Go(n, t) /\ Moves(st[n], t)
<1> DEFINE s == st[n]
           t == [s EXCEPT !.i = @ + 1]
           u == Reset(At(t, "LoopEios"), {"IDL"})
<1>1. s.pc = "LoopActive" /\ (Go(n, t) \/ Go(n, u))
  BY DEF LoopbackActive, Repeat, Ready
<1>2. Sound(s) /\ s \in StateRecord /\ s.i + 1 \in Nat
  BY DEF Sound, StateRecord
<1> HIDE DEF s
<1>3. Near(s, t) /\ t.pc = s.pc /\ t.cnt = s.cnt
  BY <1>2, LoopNear
<1>4. t \in StateRecord
  BY <1>3 DEF Near
<1> HIDE DEF t
<1>5. Near(t, u) /\ u.pc = "LoopEios" /\ u.cnt["IDL"] = 0
  BY <1>4, Names, Entered DEF Ending, Events
<1> HIDE DEF u
<1>6. Near(s, u)
  BY <1>3, <1>5, NearTrans
<1>7. t \in StateRecord /\ Moves(s, t)
  BY <1>1, <1>2, <1>3, InTestMove DEF TestTs
<1>8. u \in StateRecord /\ Moves(s, u)
  BY <1>1, <1>2, <1>5, <1>6, EiosMove
<1> QED
  BY <1>1, <1>7, <1>8 DEF s

\* The loop that waits for the peer's EIOS, and its end.
LEMMA WaitMoves ==
  ASSUME NEW n \in Node, Sound(st[n]),
         DisableEios(n) \/ DisableWait(n) \/ LoopbackEios(n) \/ LoopbackWait(n)
  PROVE  \E t \in StateRecord : Go(n, t) /\ Moves(st[n], t)
<1> DEFINE s == st[n]
<1>1. /\ s.pc \in Ending
      /\ \/ \E pc \in {"DisableWait", "LoopWait"} : Go(n, WaitEios(s, pc))
         \/ /\ s.pc \in {"DisableWait", "LoopWait"} /\ s.seen
            /\ \E pc \in {"DisableRest", "LoopRest"} : Go(n, At(s, pc))
  <2>1. CASE DisableEios(n)
    BY <2>1 DEF DisableEios, Ready, Ending
  <2>2. CASE DisableWait(n)
    BY <2>2 DEF DisableWait, Ready, Ending
  <2>3. CASE LoopbackEios(n)
    BY <2>3 DEF LoopbackEios, Ready, Ending
  <2>4. CASE LoopbackWait(n)
    BY <2>4 DEF LoopbackWait, Ready, Ending
  <2> QED
    BY <2>1, <2>2, <2>3, <2>4
<1>2. s \in StateRecord /\ (s.pc \in {"DisableWait", "LoopWait"} /\ s.seen => s.cnt["IDL"] > 0)
  BY DEF Sound
<1> HIDE DEF s
<1>3. ASSUME NEW pc \in {"DisableWait", "LoopWait"}
      PROVE  WaitEios(s, pc) \in StateRecord /\ Moves(s, WaitEios(s, pc))
  <2> DEFINE a == At(s, pc)
             l == [a EXCEPT !.up = FALSE]
             b == s.cnt["IDL"] > 0
             u == [l EXCEPT !.seen = b]
  <2>1. Near(s, a) /\ a.pc = pc /\ a.cnt = s.cnt
    BY <1>2, Names, AtNear DEF Ending
  <2>2. a \in StateRecord
    BY <2>1 DEF Near
  <2>3. b \in BOOLEAN
    OBVIOUS
  <2>4. u = WaitEios(s, pc)
    BY DEF WaitEios
  <2> HIDE DEF a
  <2>5. /\ l \in StateRecord /\ l.pc = a.pc /\ l.cnt = a.cnt /\ l.cfg = a.cfg
        /\ l.last = a.last /\ l.done = a.done
    BY <2>2, LaneSet
  <2> HIDE DEF l, b
  <2>6. Near(l, u) /\ u.pc = l.pc /\ u.cnt = l.cnt /\ u.seen = b
    BY <2>3, <2>5, SeenNear
  <2> HIDE DEF u
  <2>7. u \in StateRecord /\ Keeps(s, u)
    BY <2>1, <2>5, <2>6 DEF Near, Keeps, UpStates, TestTs, Config
  <2>8. WaitsForEios(s, u)
    BY <1>1, <2>1, <2>5, <2>6 DEF Near, WaitsForEios, SameIdle, b
  <2> QED
    BY <2>4, <2>7, <2>8 DEF Moves
<1>4. ASSUME NEW pc \in {"DisableRest", "LoopRest"}, s.cnt["IDL"] > 0
      PROVE  At(s, pc) \in StateRecord /\ Moves(s, At(s, pc))
  <2> DEFINE u == At(s, pc)
  <2>1. Near(s, u) /\ u.pc = pc /\ u.cnt = s.cnt
    BY <1>2, Names, AtNear
  <2> HIDE DEF u
  <2>2. u \in StateRecord /\ Keeps(s, u)
    BY <2>1 DEF Near, Keeps, UpStates, TestTs, Config
  <2>3. EndsTest(s, u)
    BY <1>1, <1>4, <2>1 DEF Near, EndsTest, SameIdle
  <2> QED
    BY <2>2, <2>3 DEF Moves, u
<1> QED
  BY <1>1, <1>2, <1>3, <1>4 DEF s

(* Every step of a program but a configuration call is one transmission,   *)
(* and goes where Moves says.                                              *)
LEMMA StepMoves ==
  ASSUME NEW n \in Node, Sound(st[n]), Step(n), ~Configure(n)
  PROVE  \E t \in StateRecord : Go(n, t) /\ Moves(st[n], t)
<1>1. CASE InitLink(n) \/ BackToDetect(n)
  BY <1>1, QuietMoves
<1>2. CASE DetectQuiet(n)
  BY <1>2, DetectMoves
<1>3. CASE LeaveCompliance(n)
  BY <1>3, ComplianceMoves
<1>4. CASE PollingActive(n)
  BY <1>4, PollingActiveMoves
<1>5. CASE PollingConfig(n)
  BY <1>5, PollingConfigMoves
<1>6. CASE LinkwidthStart(n)
  BY <1>6, LinkwidthMoves
<1>7. CASE LanenumWait(n) \/ LanenumAccept(n)
  BY <1>7, LanenumMoves
<1>8. CASE ConfigComplete(n)
  BY <1>8, CompleteMoves
<1>9. CASE ConfigIdle(n) \/ LinkUp(n)
  BY <1>9, IdleMoves
<1>10. CASE DisableTs(n)
  BY <1>10, DisableTsMoves
<1>11. CASE LoopbackEntry(n)
  BY <1>11, LoopbackEntryMoves
<1>12. CASE LoopbackActive(n)
  BY <1>12, LoopbackActiveMoves
<1>13. CASE DisableEios(n) \/ DisableWait(n) \/ LoopbackEios(n) \/ LoopbackWait(n)
  BY <1>13, WaitMoves
<1> QED
  BY <1>1, <1>2, <1>3, <1>4, <1>5, <1>6, <1>7, <1>8, <1>9, <1>10, <1>11, <1>12, <1>13 DEF Step
-----------------------------------------------------------------------------
(* The two ends, the wire, and time.                                       *)

LEMMA Peers ==
  ASSUME NEW n \in Node
  PROVE  /\ Peer(n) \in Node /\ Peer(n) # n /\ Peer(Peer(n)) = n
         /\ \A m \in Node : m = n \/ m = Peer(n)
<1>1. PICK a, b \in Node : a # b /\ Node = {a, b}
  BY NodeAssumption
<1>2. Peer(a) = b /\ Peer(b) = a
  BY <1>1 DEF Peer
<1> QED
  BY <1>1, <1>2

LEMMA Minimum ==
  ASSUME NEW T \in SUBSET Nat, T # {}
  PROVE  \E x \in T : \A y \in T : x <= y
<1> DEFINE R == OpToRel(<, Nat)
<1>1. IsWellFoundedOn(R, Nat)
  BY NatLessThanWellFounded
<1>2. \A x, y \in Nat : x < y => <<x, y>> \in R
  BY DEF OpToRel
<1> HIDE DEF R
<1>3. PICK x \in T : \A y \in T : <<y, x>> \notin R
  BY <1>1, WFMin
<1>4. ASSUME NEW y \in T
      PROVE  x <= y
  <2>1. x \in Nat /\ y \in Nat
    OBVIOUS
  <2>2. ~(y < x)
    BY <1>2, <1>3, <2>1, Zenon
  <2> QED
    BY <2>1, <2>2
<1> QED
  BY <1>4

LEMMA Sends ==
  ASSUME NEW w \in Seq(Transit), NEW e \in Transit
  PROVE  /\ Append(w, e) \in Seq(Transit)
         /\ Len(w) \in Nat /\ Len(Append(w, e)) = Len(w) + 1
         /\ \A k \in 1 .. Len(w) : Append(w, e)[k] = w[k]
         /\ Append(w, e)[Len(w) + 1] = e
BY LenProperties

LEMMA Receives ==
  ASSUME NEW w \in Seq(Transit), w # <<>>
  PROVE  /\ Tail(w) \in Seq(Transit) /\ Head(w) \in Transit /\ Head(w) = w[1]
         /\ Len(w) \in Nat \ {0} /\ Len(Tail(w)) = Len(w) - 1
         /\ \A k \in 1 .. Len(w) - 1 : Tail(w)[k] = w[k + 1]
<1>1. /\ Tail(w) \in Seq(Transit) /\ Len(Tail(w)) = Len(w) - 1
      /\ \A i \in 1 .. Len(Tail(w)) : Tail(w)[i] = w[i + 1]
  BY HeadTailProperties
<1>2. Len(w) \in Nat \ {0} /\ Head(w) = w[1]
  BY EmptySeq
<1>3. w[1] \in Transit
  BY <1>2, ElementOfSeq
<1> QED
  BY <1>1, <1>2, <1>3

IdlePlaces(w) == {k \in 1 .. Len(w) : IsIdle(w[k])}

LEMMA IdlesFinite ==
  ASSUME NEW w \in Seq(Transit)
  PROVE  /\ IsFiniteSet(IdlePlaces(w)) /\ Idles(w) \in Nat
         /\ Idles(w) = Cardinality(IdlePlaces(w))
         /\ Idles(w) = 0 => \A k \in 1 .. Len(w) : ~IsIdle(w[k])
<1>1. Len(w) \in Nat
  BY LenProperties
<1>2. IsFiniteSet(1 .. Len(w)) /\ IdlePlaces(w) \in SUBSET (1 .. Len(w))
  BY <1>1, FS_Interval DEF IdlePlaces
<1>3. IsFiniteSet(IdlePlaces(w))
  BY <1>2, FS_Subset
<1>4. Idles(w) = Cardinality(IdlePlaces(w))
  BY DEF Idles, IdlePlaces
<1>5. Idles(w) = 0 => IdlePlaces(w) = {}
  BY <1>3, <1>4, FS_EmptySet
<1> QED
  BY <1>3, <1>4, <1>5, FS_CardinalityType DEF IdlePlaces

LEMMA IdlesSent ==
  ASSUME NEW w \in Seq(Transit), NEW e \in Transit
  PROVE  Idles(Append(w, e)) = Idles(w) + (IF IsIdle(e) THEN 1 ELSE 0)
<1> DEFINE u == Append(w, e)
           m == Len(w) + 1
<1>1. /\ u \in Seq(Transit) /\ Len(w) \in Nat /\ Len(u) = m
      /\ \A k \in 1 .. Len(w) : u[k] = w[k]
      /\ u[m] = e
  BY Sends
<1> HIDE DEF u
<1>2. IdlePlaces(u) = IdlePlaces(w) \cup (IF IsIdle(e) THEN {m} ELSE {}) /\ m \notin IdlePlaces(w)
  <2>1. \A k : k \in 1 .. m <=> (k \in 1 .. Len(w) \/ k = m)
    BY <1>1
  <2>2. m \notin IdlePlaces(w)
    BY <1>1 DEF IdlePlaces
  <2>3. \A k : k \in IdlePlaces(u) <=> (k \in IdlePlaces(w) \/ (k = m /\ IsIdle(e)))
    BY <1>1, <2>1 DEF IdlePlaces
  <2> QED
    BY <2>2, <2>3
<1>3. /\ IsFiniteSet(IdlePlaces(w)) /\ Idles(w) = Cardinality(IdlePlaces(w)) /\ Idles(w) \in Nat
      /\ Idles(u) = Cardinality(IdlePlaces(u))
  BY <1>1, IdlesFinite
<1>4. Cardinality(IdlePlaces(w) \cup {m}) = Cardinality(IdlePlaces(w)) + 1
  BY <1>2, <1>3, FS_AddElement
<1>5. CASE IsIdle(e)
  BY <1>2, <1>3, <1>4, <1>5 DEF u
<1>6. CASE ~IsIdle(e)
  <2>1. IdlePlaces(u) = IdlePlaces(w)
    BY <1>2, <1>6
  <2> QED
    BY <1>3, <1>6, <2>1 DEF u
<1> QED
  BY <1>5, <1>6

LEMMA IdlesReceived ==
  ASSUME NEW w \in Seq(Transit), w # <<>>
  PROVE  Idles(w) = Idles(Tail(w)) + (IF IsIdle(Head(w)) THEN 1 ELSE 0)
<1> DEFINE u == Tail(w)
           S == IdlePlaces(w) \ {1}
           T == IdlePlaces(u)
           f == [k \in T |-> k + 1]
<1>1. /\ u \in Seq(Transit) /\ Head(w) = w[1]
      /\ Len(w) \in Nat \ {0} /\ Len(u) = Len(w) - 1
      /\ \A k \in 1 .. Len(w) - 1 : u[k] = w[k + 1]
  BY Receives
<1> HIDE DEF u
<1>2. \A k \in T : k \in Nat /\ k + 1 \in S
  BY <1>1 DEF IdlePlaces
<1>3. ASSUME NEW k \in S
      PROVE  k - 1 \in T /\ f[k - 1] = k
  <2>1. k \in Nat /\ k - 1 \in 1 .. Len(w) - 1 /\ IsIdle(w[k]) /\ (k - 1) + 1 = k
    BY <1>1 DEF IdlePlaces
  <2>2. k - 1 \in T
    BY <1>1, <2>1 DEF IdlePlaces
  <2> QED
    BY <2>1, <2>2
<1>4. f \in Bijection(T, S)
  <2>1. f \in [T -> S]
    BY <1>2
  <2>2. \A a, b \in T : f[a] = f[b] => a = b
    BY <1>2
  <2>3. \A t \in S : \E k \in T : f[k] = t
    BY <1>3
  <2> HIDE DEF f, S, T
  <2> QED
    BY <2>1, <2>2, <2>3, Fun_IsBij
<1>5. ExistsBijection(T, S)
  <2> HIDE DEF f, S, T
  <2> QED
    BY <1>4, Fun_ExistsBij
<1>6. /\ IsFiniteSet(T) /\ Idles(u) = Cardinality(T)
      /\ IsFiniteSet(IdlePlaces(w)) /\ Idles(w) = Cardinality(IdlePlaces(w)) /\ Idles(w) \in Nat
  BY <1>1, IdlesFinite
<1>7. Cardinality(S) = Cardinality(T)
  <2> HIDE DEF f, S, T
  <2> QED
    BY <1>5, <1>6, FS_Bijection
<1>8. Cardinality(S) = IF 1 \in IdlePlaces(w) THEN Cardinality(IdlePlaces(w)) - 1
                                              ELSE Cardinality(IdlePlaces(w))
  BY <1>6, FS_RemoveElement
<1>9. 1 \in IdlePlaces(w) <=> IsIdle(Head(w))
  BY <1>1 DEF IdlePlaces
<1> QED
  BY <1>6, <1>7, <1>8, <1>9 DEF u
-----------------------------------------------------------------------------
(* What is sent.                                                           *)

LEMMA SentTells ==
  ASSUME NEW t \in StateRecord, stray \in {0, CtlLoopback}
  PROVE  /\ Sent(t) \in Sequences
         /\ Sent(t).id = "IDL" <=> t.pc \in {"DisableEios", "LoopEios"}
         /\ IsTs(Sent(t)) => Tells(Sent(t), t.cfg)
         /\ IsTs(Sent(t)) /\ Sent(t).link # PAD => t.pc \in Config \cup TestTs
<1> DEFINE o == Sent(t)
<1>1. t.pc \in States /\ t.cfg.linknum \in 0 .. 255 /\ t.cfg.n_fts \in 0 .. 255
  BY DEF StateRecord, ConfigRecord
<1>2. LinkSent(t) \in {PAD, t.cfg.linknum} /\ LaneSent(t) \in {0, PAD}
      /\ CtlSent(t) \in {0, CtlDisable, CtlLoopback}
  BY DEF LinkSent, LaneSent, CtlSent
<1>3. LinkSent(t) # PAD => t.pc \notin {"PollActive", "PollConfig"}
  BY DEF LinkSent
<1>4. CASE t.pc \in Training \cup TestTs
  <2>1. \E id \in {"TS1", "TS2"} :
          o = Ts(id, LaneSent(t), LinkSent(t), t.cfg.n_fts, CtlSent(t))
    BY <1>4 DEF Sent, Training, TestTs
  <2>2. \E id \in {"TS1", "TS2"} :
          /\ o = [id |-> id, lane |-> LaneSent(t), link |-> LinkSent(t),
                  n_fts |-> t.cfg.n_fts, ctl |-> CtlSent(t)]
          /\ id \in Events
    BY <2>1 DEF Ts, Events
  <2>3. o \in Sequences
    BY <1>1, <1>2, <2>2 DEF Sequences
  <2>4. /\ o.id \in {"TS1", "TS2"} /\ o.link = LinkSent(t) /\ o.n_fts = t.cfg.n_fts
    BY <2>2
  <2>5. t.pc \notin {"DisableEios", "LoopEios"}
        /\ (t.pc \notin {"PollActive", "PollConfig"} => t.pc \in Config \cup TestTs)
    BY <1>4 DEF Training, TestTs, Config
  <2> HIDE DEF o
  <2>6. /\ o.id # "IDL" /\ IsTs(o) /\ Tells(o, t.cfg)
        /\ o.link # PAD => t.pc \in Config \cup TestTs
    BY <1>2, <1>3, <2>4, <2>5 DEF IsTs, Tells
  <2> QED
    BY <2>3, <2>5, <2>6 DEF o
<1>5. CASE t.pc \notin Training \cup TestTs
  <2>1. o = Blank(IF t.pc \in {"DisableEios", "LoopEios"} THEN "IDL" ELSE "D0")
    BY <1>5 DEF Sent, Training, TestTs
  <2>2. o = [id |-> IF t.pc \in {"DisableEios", "LoopEios"} THEN "IDL" ELSE "D0",
             lane |-> PAD, link |-> PAD, n_fts |-> 0, ctl |-> 0]
    BY <2>1 DEF Blank, Ts
  <2>3. o \in Sequences
    BY <2>2 DEF Sequences, Events
  <2>4. (o.id = "IDL" <=> t.pc \in {"DisableEios", "LoopEios"}) /\ ~IsTs(o)
    BY <2>2 DEF IsTs
  <2> QED
    BY <2>3, <2>4
<1> QED
  BY <1>4, <1>5

LEMMA LengthNat ==
  ASSUME NEW t
  PROVE  Length(t) \in Nat
BY TimeAssumption DEF Length

LEMMA GoFacts ==
  ASSUME Types, NEW n \in Node, NEW t \in StateRecord, Go(n, t)
  PROVE  /\ Types'
         /\ st'[n] = t /\ st'[Peer(n)] = st[Peer(n)] /\ wire'[Peer(n)] = wire[Peer(n)]
         /\ \E e \in Transit :
              e.os = Sent(t) /\ wire'[n] = IF t.up THEN Append(wire[n], e) ELSE wire[n]
<1> DEFINE e == [os |-> Sent(t), at |-> Length(t) + lat[n]]
<1>1. Length(t) \in Nat /\ lat[n] \in Nat
  BY LengthNat DEF Types
<1>2. e \in Transit /\ e.os = Sent(t)
  BY <1>1, SentTells DEF Transit, Types
<1>3. wire[n] \in Seq(Transit) /\ Append(wire[n], e) \in Seq(Transit)
  BY <1>2, Sends DEF Types
<1>4. /\ st' = [st EXCEPT ![n] = t] /\ due' = [due EXCEPT ![n] = Length(t)]
      /\ wire' = IF t.up THEN [wire EXCEPT ![n] = Append(@, e)] ELSE wire
      /\ UNCHANGED <<lat, stray, fatal>>
  BY DEF Go
<1> HIDE DEF e
<1>5. Types'
  <2>1. wire' \in [Node -> Seq(Transit)]
    BY <1>3, <1>4 DEF Types
  <2>2. st' \in [Node -> StateRecord] /\ due' \in [Node -> Nat]
    BY <1>1, <1>4 DEF Types
  <2> QED
    BY <1>4, <2>1, <2>2 DEF Types
<1>6. st'[n] = t /\ st'[Peer(n)] = st[Peer(n)] /\ wire'[Peer(n)] = wire[Peer(n)]
  BY <1>4, Peers DEF Types
<1>7. wire'[n] = IF t.up THEN Append(wire[n], e) ELSE wire[n]
  BY <1>4 DEF Types
<1> QED
  BY <1>2, <1>5, <1>6, <1>7
-----------------------------------------------------------------------------
(* Electrical idle sequences sent and seen.                                *)

LEMMA Weights ==
  ASSUME NEW D, NEW test \in {DISABLE, LOOPBACK}
  PROVE  /\ Weight(D) \in Nat
         /\ test \notin D => Weight(D \cup {test}) = Weight(D) + 1
BY DEF Weight, DISABLE, LOOPBACK

LEMMA EiosInt ==
  ASSUME NEW s
  PROVE  EiosSent(s) \in Int /\ EiosSeen(s) \in Int
<1>1. Weight(Tests(s)) \in Nat
  BY Weights
<1> QED
  BY <1>1 DEF EiosSent, EiosSeen

LEMMA MoveEios ==
  ASSUME NEW s \in StateRecord, NEW t \in StateRecord, Moves(s, t)
  PROVE  /\ EiosSeen(t) <= EiosSeen(s)
         /\ EiosSent(t) = EiosSent(s) + (IF t.pc \in {"DisableEios", "LoopEios"} THEN 1 ELSE 0)
<1> DEFINE w == Weight(Tests(s))
           v == Weight(Tests(t))
<1>1. w \in Nat /\ v \in Nat
  BY Weights
<1>2. s.cnt["IDL"] \in Nat /\ t.cnt["IDL"] \in Nat
  BY SMTT(30) DEF StateRecord, Events, CountCap
<1>3. Tests(s) = Tests(t) => w = v
  OBVIOUS
<1>4. t.done = s.done => Tests(t) = Tests(s)
  BY DEF Tests
<1> USE DEF EiosSeen, EiosSent, TestTs, Ending, Listening
<1>5. CASE Approaches(s, t)
  <2>1. w = v
    BY <1>3, <1>5 DEF Approaches
  <2> HIDE DEF w, v
  <2> QED
    BY <1>1, <1>5, <2>1 DEF Approaches, Before, w, v
<1>6. CASE Starts(s, t)
  BY <1>1, <1>3, <1>4, <1>6 DEF Starts, Before
<1>7. CASE TakesTest(s, t)
  <2>1. PICK test \in {DISABLE, LOOPBACK} \ s.done : t.done = s.done \cup {test}
    BY <1>7 DEF TakesTest
  <2>2. Tests(t) = Tests(s) \cup {test} /\ test \notin Tests(s)
    BY <2>1 DEF Tests, DISABLE, LOOPBACK, COMPLIANCE
  <2>3. v = w + 1
    BY <2>2, Weights
  <2> QED
    BY <1>1, <1>7, <2>3 DEF TakesTest, Before
<1>8. CASE InTest(s, t)
  BY <1>1, <1>2, <1>3, <1>4, <1>8 DEF InTest, SameIdle
<1>9. CASE SendsEios(s, t)
  BY <1>1, <1>2, <1>3, <1>4, <1>9 DEF SendsEios
<1>10. CASE WaitsForEios(s, t)
  BY <1>1, <1>2, <1>3, <1>4, <1>10 DEF WaitsForEios, SameIdle
<1>11. CASE EndsTest(s, t)
  BY <1>1, <1>2, <1>3, <1>4, <1>11 DEF EndsTest, SameIdle
<1>12. CASE Configures(s, t)
  BY <1>1, <1>3, <1>4, <1>12 DEF Configures, Config
<1> QED
  BY <1>5, <1>6, <1>7, <1>8, <1>9, <1>10, <1>11, <1>12 DEF Moves
-----------------------------------------------------------------------------
(* The invariants over one transmission.                                   *)

LEMMA SoundStates ==
  ASSUME Types, EiosInv, UpInv, NEW n \in Node
  PROVE  Sound(st[n])
BY DEF Types, EiosInv, UpInv, Sound, UpStates

\* What a move means for the places where the classes of states matter.
LEMMA MovePlaces ==
  ASSUME NEW s \in StateRecord, NEW t \in StateRecord, Moves(s, t)
  PROVE  /\ t.pc # "Setup" /\ t.cfg = s.cfg /\ t.last = s.last
         /\ Heard(t) => Heard(s)
         /\ s.pc \in Config => t.pc \in Config
         /\ s.pc \in TestTs /\ t.pc \notin Config \cup TestTs =>
              t.pc \in {"DisableEios", "LoopEios"} /\ t.up
         /\ Tests(s) \subseteq Tests(t)
         /\ Tests(s) # Tests(t) =>
              \E test \in {DISABLE, LOOPBACK} \ Tests(s) : Tests(t) = Tests(s) \cup {test}
<1>1. t.cfg = s.cfg /\ t.last = s.last /\ (t.pc \in UpStates => t.up)
  BY DEF Moves, Keeps
<1>2. Heard(t) => Heard(s)
  <2>1. t.cnt["TS1"] \in {0, s.cnt["TS1"]} /\ t.cnt["TS2"] \in {0, s.cnt["TS2"]}
    BY DEF Moves, Keeps, Events
  <2> QED
    BY <2>1 DEF Heard
<1>3. t.pc # "Setup"
  BY DEF Moves, Approaches, Starts, TakesTest, InTest, SendsEios, WaitsForEios, EndsTest,
         Configures, TestTs, Config
<1>4. s.pc \in Config => t.pc \in Config
  BY DEF Moves, Approaches, Starts, TakesTest, InTest, SendsEios, WaitsForEios, EndsTest,
         Configures, Before, Ending, TestTs, Config
<1>5. s.pc \in TestTs /\ t.pc \notin Config \cup TestTs => t.pc \in {"DisableEios", "LoopEios"}
  BY DEF Moves, Approaches, Starts, TakesTest, InTest, SendsEios, WaitsForEios, EndsTest,
         Configures, Before, Ending, TestTs, Config
<1>6. /\ Tests(s) \subseteq Tests(t)
      /\ Tests(s) # Tests(t) =>
           \E test \in {DISABLE, LOOPBACK} \ Tests(s) : Tests(t) = Tests(s) \cup {test}
  <2>1. CASE Approaches(s, t)
    BY <2>1 DEF Approaches
  <2>2. CASE t.done = s.done
    BY <2>2 DEF Tests
  <2>3. CASE TakesTest(s, t)
    <3>1. PICK test \in {DISABLE, LOOPBACK} \ s.done : t.done = s.done \cup {test}
      BY <2>3 DEF TakesTest
    <3>2. Tests(t) = Tests(s) \cup {test} /\ test \notin Tests(s)
      BY <3>1 DEF Tests, DISABLE, LOOPBACK, COMPLIANCE
    <3> QED
      BY <3>2
  <2> QED
    BY <2>1, <2>2, <2>3
       DEF Moves, Starts, InTest, SendsEios, WaitsForEios, EndsTest, Configures, SameIdle
<1> QED
  BY <1>1, <1>2, <1>3, <1>4, <1>5, <1>6 DEF UpStates

\* When two nodes have taken the same tests and one of them is past its own,
\* everything that the other sent in them has come in.
LEMMA AllSeen ==
  ASSUME Types, EiosInv, NEW n \in Node, st[n].pc \in Config, SameTests(n)
  PROVE  /\ \A k \in 1 .. Len(wire[Peer(n)]) : ~IsIdle(wire[Peer(n)][k])
         /\ st[Peer(n)].pc \notin TestTs
<1> DEFINE p == Peer(n)
           w == Weight(Tests(st[n]))
<1>1. w \in Nat
  BY Weights
<1>2. EiosSeen(st[n]) = w
  BY <1>1 DEF EiosSeen, Config, TestTs, Ending, Listening
<1>3. EiosSent(st[p]) = w - (IF st[p].pc \in TestTs THEN 1 ELSE 0)
  BY DEF EiosSent, SameTests
<1>4. wire[p] \in Seq(Transit)
  BY Peers DEF Types
<1>5. Idles(wire[p]) \in Nat
  BY <1>4, IdlesFinite
<1>6. EiosSeen(st[n]) + Idles(wire[p]) <= EiosSent(st[p])
  BY DEF EiosInv
<1> HIDE DEF w, p
<1>7. Idles(wire[p]) = 0 /\ st[p].pc \notin TestTs
  BY <1>1, <1>2, <1>3, <1>5, <1>6
<1> QED
  BY <1>4, <1>7, IdlesFinite DEF p

LEMMA MoveEiosInv ==
  ASSUME Types, EiosInv, NEW n \in Node, NEW t \in StateRecord, Go(n, t), Moves(st[n], t)
  PROVE  EiosInv'
<1> DEFINE p == Peer(n)
           s == st[n]
           more == IF t.pc \in {"DisableEios", "LoopEios"} THEN 1 ELSE 0
<1>1. p \in Node /\ p # n /\ Peer(p) = n /\ \A m \in Node : m = n \/ m = p
  BY Peers
<1>2. s \in StateRecord /\ wire[n] \in Seq(Transit) /\ wire[p] \in Seq(Transit)
  BY <1>1 DEF Types
<1>3. PICK e \in Transit :
        e.os = Sent(t) /\ wire'[n] = IF t.up THEN Append(wire[n], e) ELSE wire[n]
  BY GoFacts
<1>4. st'[n] = t /\ st'[p] = st[p] /\ wire'[p] = wire[p]
  BY GoFacts
<1>5. EiosSeen(t) <= EiosSeen(s) /\ EiosSent(t) = EiosSent(s) + more
  BY <1>2, MoveEios
<1>6. IsIdle(e) <=> t.pc \in {"DisableEios", "LoopEios"}
  BY <1>3, SentTells DEF IsIdle, Types
<1>7. Idles(wire'[n]) <= Idles(wire[n]) + more
  <2>1. Idles(wire[n]) \in Nat
    BY <1>2, IdlesFinite
  <2>2. Idles(Append(wire[n], e)) = Idles(wire[n]) + (IF IsIdle(e) THEN 1 ELSE 0)
    BY <1>2, IdlesSent
  <2> QED
    BY <1>3, <1>6, <2>1, <2>2
<1>8. /\ EiosSeen(s) + Idles(wire[p]) <= EiosSent(st[p])
      /\ EiosSeen(st[p]) + Idles(wire[n]) <= EiosSent(s)
  BY <1>1 DEF EiosInv
<1>9. /\ Idles(wire[n]) \in Nat /\ Idles(wire[p]) \in Nat /\ Idles(wire'[n]) \in Nat
      /\ EiosSeen(s) \in Int /\ EiosSeen(st[p]) \in Int /\ EiosSeen(t) \in Int
      /\ EiosSent(s) \in Int /\ EiosSent(st[p]) \in Int /\ EiosSent(t) \in Int
  <2>1. wire'[n] \in Seq(Transit)
    BY <1>2, <1>3, Sends
  <2> QED
    BY <1>2, <2>1, IdlesFinite, EiosInt
<1> HIDE DEF s, p
<1>10. /\ EiosSeen(t) + Idles(wire[p]) <= EiosSent(st[p])
       /\ EiosSeen(st[p]) + Idles(wire'[n]) <= EiosSent(t)
  BY <1>5, <1>7, <1>8, <1>9
<1>11. \A m \in Node : EiosSeen(st'[m]) + Idles(wire'[Peer(m)]) <= EiosSent(st'[Peer(m)])
  <2> SUFFICES ASSUME NEW m \in Node
               PROVE  EiosSeen(st'[m]) + Idles(wire'[Peer(m)]) <= EiosSent(st'[Peer(m)])
    OBVIOUS
  <2>1. CASE m = n
    BY <1>4, <1>10, <2>1 DEF p
  <2>2. CASE m = p
    BY <1>1, <1>4, <1>10, <2>2
  <2> QED
    BY <1>1, <2>1, <2>2
<1>12. t.pc \in {"DisableWait", "LoopWait"} /\ t.seen => t.cnt["IDL"] > 0
  BY DEF Moves, Approaches, Starts, TakesTest, InTest, SendsEios, WaitsForEios, EndsTest,
         Configures, Before, TestTs, Config
<1>13. \A m \in Node :
         st'[m].pc \in {"DisableWait", "LoopWait"} /\ st'[m].seen => st'[m].cnt["IDL"] > 0
  <2> SUFFICES ASSUME NEW m \in Node
               PROVE  st'[m].pc \in {"DisableWait", "LoopWait"} /\ st'[m].seen =>
                        st'[m].cnt["IDL"] > 0
    OBVIOUS
  <2>1. CASE m = n
    BY <1>4, <1>12, <2>1
  <2>2. CASE m = p
    BY <1>4, <2>2 DEF EiosInv
  <2> QED
    BY <1>1, <2>1, <2>2
<1>14. EiosInv' <=>
         /\ \A m \in Node : EiosSeen(st'[m]) + Idles(wire'[Peer(m)]) <= EiosSent(st'[Peer(m)])
         /\ \A m \in Node :
              st'[m].pc \in {"DisableWait", "LoopWait"} /\ st'[m].seen => st'[m].cnt["IDL"] > 0
  BY DEF EiosInv
<1> QED
  BY <1>11, <1>13, <1>14

LEMMA MoveUpInv ==
  ASSUME Types, UpInv, NEW n \in Node, NEW t \in StateRecord, Go(n, t), Moves(st[n], t)
  PROVE  UpInv'
<1>1. st'[n] = t /\ st'[Peer(n)] = st[Peer(n)] /\ \A m \in Node : m = n \/ m = Peer(n)
  BY GoFacts, Peers
<1>2. t.pc \in UpStates => t.up
  BY DEF Moves, Keeps
<1>3. ASSUME NEW m \in Node, st'[m].pc \in UpStates
      PROVE  st'[m].up
  BY <1>1, <1>2, <1>3 DEF UpInv, UpStates
<1>4. UpInv' <=> \A m \in Node : st'[m].pc \in UpStates => st'[m].up
  BY DEF UpInv, UpStates
<1> QED
  BY <1>3, <1>4

LEMMA MoveSentInv ==
  ASSUME Types, SentInv, NEW n \in Node, NEW t \in StateRecord, Go(n, t), Moves(st[n], t)
  PROVE  SentInv'
<1> DEFINE p == Peer(n)
           s == st[n]
<1>1. p \in Node /\ p # n /\ Peer(p) = n /\ \A m \in Node : m = n \/ m = p
  BY Peers
<1>2. s \in StateRecord /\ wire[n] \in Seq(Transit)
  BY DEF Types
<1>3. PICK e \in Transit :
        e.os = Sent(t) /\ wire'[n] = IF t.up THEN Append(wire[n], e) ELSE wire[n]
  BY GoFacts
<1>4. st'[n] = t /\ st'[p] = st[p] /\ wire'[p] = wire[p]
  BY GoFacts
<1>5. t.pc # "Setup" /\ t.cfg = s.cfg /\ t.last = s.last /\ (Heard(t) => Heard(s))
  BY <1>2, MovePlaces
<1>6. /\ \A k \in 1 .. Len(wire[p]) : IsTs(wire[p][k].os) => Tells(wire[p][k].os, st[p].cfg)
      /\ Heard(t) => Tells(t.last, st[p].cfg)
      /\ t.last.link \in {PAD, st[p].cfg.linknum}
      /\ st[p].pc = "Setup" => wire[p] = <<>> /\ ~Heard(t) /\ t.last.link = PAD
  BY <1>1, <1>5 DEF SentInv
<1>7. ASSUME NEW k \in 1 .. Len(wire'[n]), IsTs(wire'[n][k].os)
      PROVE  Tells(wire'[n][k].os, t.cfg)
  <2>1. CASE k \in 1 .. Len(wire[n])
    <3>1. wire'[n][k] = wire[n][k]
      BY <1>2, <1>3, <2>1, Sends
    <3> QED
      BY <1>1, <1>5, <1>7, <2>1, <3>1 DEF SentInv
  <2>2. CASE k \notin 1 .. Len(wire[n])
    <3>1. wire'[n][k] = e
      BY <1>2, <1>3, <2>2, Sends
    <3> QED
      BY <1>3, <1>7, <3>1, SentTells DEF Types
  <2> QED
    BY <2>1, <2>2
<1>8. /\ Heard(st[p]) => Tells(st[p].last, t.cfg)
      /\ st[p].last.link \in {PAD, t.cfg.linknum}
  BY <1>1, <1>5 DEF SentInv
<1> HIDE DEF p, s
<1>9. ASSUME NEW m \in Node
      PROVE  LET q == Peer(m)
             IN  /\ \A k \in 1 .. Len(wire'[q]) :
                      IsTs(wire'[q][k].os) => Tells(wire'[q][k].os, st'[q].cfg)
                 /\ Heard(st'[m]) => Tells(st'[m].last, st'[q].cfg)
                 /\ st'[m].last.link \in {PAD, st'[q].cfg.linknum}
                 /\ st'[q].pc = "Setup" => wire'[q] = <<>> /\ ~Heard(st'[m]) /\ st'[m].last.link = PAD
  <2>1. CASE m = n
    BY <1>4, <1>6, <2>1 DEF p
  <2>2. CASE m = p
    BY <1>1, <1>4, <1>5, <1>7, <1>8, <2>2
  <2> QED
    BY <1>1, <2>1, <2>2
<1> QED
  BY <1>9 DEF SentInv

LEMMA MoveLinkInv ==
  ASSUME Types, LinkInv, NEW n \in Node, NEW t \in StateRecord, Go(n, t), Moves(st[n], t)
  PROVE  LinkInv'
<1> DEFINE p == Peer(n)
           s == st[n]
           w == wire'[n]
<1>1. p \in Node /\ p # n /\ \A m \in Node : m = n \/ m = p
  BY Peers
<1>2. s \in StateRecord /\ wire[n] \in Seq(Transit)
  BY DEF Types
<1>3. PICK e \in Transit :
        e.os = Sent(t) /\ w = IF t.up THEN Append(wire[n], e) ELSE wire[n]
  BY GoFacts
<1>4. st'[n] = t /\ st'[p] = st[p] /\ wire'[p] = wire[p]
  BY GoFacts
<1>5. /\ s.pc \in Config => t.pc \in Config
      /\ s.pc \in TestTs /\ t.pc \notin Config \cup TestTs =>
           t.pc \in {"DisableEios", "LoopEios"} /\ t.up
  BY <1>2, MovePlaces
<1>6. /\ Sent(t).id = "IDL" <=> t.pc \in {"DisableEios", "LoopEios"}
      /\ IsTs(Sent(t)) /\ Sent(t).link # PAD => t.pc \in Config \cup TestTs
  BY SentTells DEF Types
<1>7. /\ Len(wire[n]) \in Nat
      /\ Len(w) = IF t.up THEN Len(wire[n]) + 1 ELSE Len(wire[n])
      /\ \A k \in 1 .. Len(wire[n]) : w[k] = wire[n][k]
      /\ t.up => w[Len(wire[n]) + 1] = e
  BY <1>2, <1>3, Sends
<1> HIDE DEF w
<1>8. ASSUME NEW k \in 1 .. Len(w), IsTs(w[k].os), w[k].os.link # PAD, t.pc \notin Config \cup TestTs
      PROVE  \E j \in 1 .. Len(w) : j > k /\ IsIdle(w[j])
  <2>1. k \in 1 .. Len(wire[n])
    <3> SUFFICES ASSUME k \notin 1 .. Len(wire[n])
                 PROVE  FALSE
      OBVIOUS
    <3>1. w[k] = e
      BY <1>7
    <3> QED
      BY <1>3, <1>6, <1>8, <3>1
  <2>2. w[k] = wire[n][k]
    BY <1>7, <2>1
  <2>3. CASE s.pc \in TestTs
    <3>1. t.up /\ IsIdle(e)
      BY <1>3, <1>5, <1>6, <1>8, <2>3 DEF IsIdle
    <3>2. Len(wire[n]) + 1 \in 1 .. Len(w) /\ Len(wire[n]) + 1 > k /\ w[Len(wire[n]) + 1] = e
      BY <1>7, <2>1, <3>1
    <3> QED
      BY <3>1, <3>2
  <2>4. CASE s.pc \notin Config \cup TestTs
    <3>1. PICK j \in 1 .. Len(wire[n]) : j > k /\ IsIdle(wire[n][j])
      BY <1>8, <2>1, <2>2, <2>4 DEF LinkInv
    <3>2. j \in 1 .. Len(w) /\ w[j] = wire[n][j]
      BY <1>7
    <3> QED
      BY <3>1, <3>2
  <2> QED
    BY <1>5, <1>8, <2>3, <2>4
<1> HIDE DEF p, s
<1>9. ASSUME NEW m \in Node, NEW k \in 1 .. Len(wire'[m]), IsTs(wire'[m][k].os),
             wire'[m][k].os.link # PAD, st'[m].pc \notin Config \cup TestTs
      PROVE  \E j \in 1 .. Len(wire'[m]) : j > k /\ IsIdle(wire'[m][j])
  <2>1. CASE m = n
    BY <1>4, <1>8, <1>9, <2>1 DEF w
  <2>2. CASE m = p
    BY <1>4, <1>9, <2>2 DEF LinkInv
  <2> QED
    BY <1>1, <2>1, <2>2
<1> QED
  BY <1>9 DEF LinkInv

\* A node past its tests has seen the end of every test its peer took, so the
\* peer cannot only now be taking the one that makes their tests the same.
LEMMA NotOnlyNow ==
  ASSUME Types, EiosInv, NEW n \in Node, NEW t \in StateRecord, Moves(st[n], t),
         st[Peer(n)].pc \in Config, Tests(st[Peer(n)]) = Tests(t)
  PROVE  Tests(st[n]) = Tests(t)
<1> DEFINE p == Peer(n)
           s == st[n]
           w == Weight(Tests(s))
<1>1. p \in Node /\ Peer(p) = n
  BY Peers
<1>2. s \in StateRecord /\ wire[n] \in Seq(Transit)
  BY DEF Types
<1>3. SUFFICES ASSUME Tests(s) # Tests(t)
               PROVE  FALSE
  OBVIOUS
<1>4. PICK test \in {DISABLE, LOOPBACK} \ Tests(s) : Tests(t) = Tests(s) \cup {test}
  BY <1>2, <1>3, MovePlaces
<1>5. w \in Nat /\ Weight(Tests(st[p])) = w + 1
  BY <1>4, Weights
<1>6. EiosSeen(st[p]) = w + 1
  BY <1>5 DEF EiosSeen, Config, TestTs, Ending, Listening
<1>7. EiosSent(s) = w - (IF s.pc \in TestTs THEN 1 ELSE 0)
  BY DEF EiosSent
<1>8. EiosSeen(st[p]) + Idles(wire[n]) <= EiosSent(s)
  BY <1>1 DEF EiosInv
<1>9. Idles(wire[n]) \in Nat
  BY <1>2, IdlesFinite
<1> HIDE DEF w, p, s
<1> QED
  BY <1>5, <1>6, <1>7, <1>8, <1>9

LEMMA MoveConfigInv ==
  ASSUME Types, EiosInv, SentInv, ConfigInv,
         NEW n \in Node, NEW t \in StateRecord, Go(n, t), Moves(st[n], t)
  PROVE  ConfigInv'
<1> DEFINE p == Peer(n)
           s == st[n]
           Right(a, b) == /\ a.last.link # PAD => b.pc \in Config
                          /\ a.pc # "Start" => b.pc \in Config /\ a.cfg.linknum = b.cfg.linknum
<1>1. p \in Node /\ p # n /\ Peer(p) = n /\ \A m \in Node : m = n \/ m = p
  BY Peers
<1>2. s \in StateRecord
  BY DEF Types
<1>3. st'[n] = t /\ st'[p] = st[p]
  BY GoFacts
<1>4. t.cfg = s.cfg /\ t.last = s.last /\ (s.pc \in Config => t.pc \in Config)
  BY <1>2, MovePlaces
<1>5. ASSUME t.pc \in Config, Tests(t) = Tests(st[p])
      PROVE  Right(t, st[p])
  <2>1. CASE Starts(s, t)
    BY <1>4, <2>1 DEF Starts
  <2>2. CASE Configures(s, t)
    <3>1. Tests(s) = Tests(t) /\ s.pc \in Config
      BY <2>2 DEF Configures, Tests
    <3>2. Right(s, st[p])
      BY <1>5, <3>1 DEF ConfigInv, SameTests
    <3>3. CASE t.pc = "Start" \/ s.pc # "Start"
      BY <1>4, <2>2, <3>2, <3>3 DEF Configures
    <3>4. CASE t.pc # "Start" /\ s.pc = "Start"
      <4>1. s.last.link = s.cfg.linknum /\ s.last.link # PAD
        <5>1. s.cfg.linknum \in 0 .. 255
          BY <1>2 DEF StateRecord, ConfigRecord
        <5>2. s.last.link = s.cfg.linknum
          BY <2>2, <3>4 DEF Configures
        <5> QED
          BY <5>1, <5>2, SMTT(30) DEF PAD
      <4>2. s.last.link = st[p].cfg.linknum
        BY <4>1 DEF SentInv
      <4> QED
        BY <1>4, <3>2, <4>1, <4>2
    <3> QED
      BY <3>3, <3>4
  <2> QED
    BY <1>5, <2>1, <2>2
       DEF Moves, Approaches, TakesTest, InTest, SendsEios, WaitsForEios, EndsTest,
           Before, TestTs, Config
<1>6. ASSUME st[p].pc \in Config, Tests(st[p]) = Tests(t)
      PROVE  Right(st[p], t)
  <2>1. Tests(s) = Tests(t)
    BY <1>6, NotOnlyNow
  <2>2. Right(st[p], s)
    BY <1>1, <1>6, <2>1 DEF ConfigInv, SameTests
  <2> QED
    BY <1>4, <2>2
<1>7. ASSUME NEW m \in Node, st'[m].pc \in Config, Tests(st'[m]) = Tests(st'[Peer(m)])
      PROVE  Right(st'[m], st'[Peer(m)])
  <2> HIDE DEF Right
  <2>1. CASE m = n
    BY <1>3, <1>5, <1>7, <2>1
  <2>2. CASE m = p
    <3>1. Peer(m) = n /\ st'[m] = st[p]
      BY <1>1, <1>3, <2>2
    <3> QED
      BY <1>3, <1>6, <1>7, <3>1
  <2> QED
    BY <1>1, <2>1, <2>2
<1> HIDE DEF p, s
<1> QED
  BY <1>7 DEF ConfigInv, SameTests

LEMMA MoveFtsInv ==
  ASSUME Types, SentInv, FtsInv, NEW n \in Node, NEW t \in StateRecord, Go(n, t), Moves(st[n], t)
  PROVE  FtsInv'
<1> DEFINE p == Peer(n)
           s == st[n]
<1>1. p \in Node /\ p # n /\ Peer(p) = n /\ \A m \in Node : m = n \/ m = p
  BY Peers
<1>2. s \in StateRecord
  BY DEF Types
<1>3. st'[n] = t /\ st'[p] = st[p]
  BY GoFacts
<1>4. t.pc # "Setup" /\ t.cfg = s.cfg
  BY <1>2, MovePlaces
<1>5. ASSUME t.pc \in {"Idle", "L0"}
      PROVE  t.tx_n_fts = st[p].cfg.n_fts /\ st[p].pc # "Setup"
  <2>1. Configures(s, t)
    BY <1>5 DEF Moves, Approaches, Starts, TakesTest, InTest, SendsEios, WaitsForEios, EndsTest,
                Before, TestTs
  <2>2. CASE s.pc \in {"Idle", "L0"} /\ t.tx_n_fts = s.tx_n_fts
    BY <2>2 DEF FtsInv
  <2>3. CASE Heard(s) /\ t.tx_n_fts = s.last.n_fts
    <3>1. Tells(s.last, st[p].cfg) /\ st[p].pc # "Setup"
      BY <2>3 DEF SentInv
    <3> QED
      BY <2>3, <3>1 DEF Tells
  <2> QED
    BY <1>5, <2>1, <2>2, <2>3 DEF Configures
<1>6. st[p].pc \in {"Idle", "L0"} => st[p].tx_n_fts = t.cfg.n_fts
  BY <1>1, <1>4 DEF FtsInv
<1>7. ASSUME NEW m \in Node, st'[m].pc \in {"Idle", "L0"}
      PROVE  st'[m].tx_n_fts = st'[Peer(m)].cfg.n_fts /\ st'[Peer(m)].pc # "Setup"
  <2>1. CASE m = n
    BY <1>3, <1>5, <1>7, <2>1
  <2>2. CASE m = p
    <3>1. Peer(m) = n /\ st'[m] = st[p]
      BY <1>1, <1>3, <2>2
    <3> QED
      BY <1>3, <1>4, <1>6, <1>7, <3>1
  <2> QED
    BY <1>1, <2>1, <2>2
<1> HIDE DEF p, s
<1> QED
  BY <1>7 DEF FtsInv

LEMMA MoveKeeps ==
  ASSUME Types, CInv, NEW n \in Node, NEW t \in StateRecord, Go(n, t), Moves(st[n], t)
  PROVE  Types' /\ CInv'
<1>1. Types'
  BY GoFacts
<1>2. EiosInv' /\ UpInv' /\ SentInv' /\ LinkInv' /\ ConfigInv' /\ FtsInv'
  BY MoveEiosInv, MoveUpInv, MoveSentInv, MoveLinkInv, MoveConfigInv, MoveFtsInv DEF CInv
<1> QED
  BY <1>1, <1>2 DEF CInv
-----------------------------------------------------------------------------
(* A configuration call: nothing has been sent yet.                        *)

LEMMA ConfigTyped ==
  ASSUME NEW cfg \in ConfigRecord, NEW field \in DOMAIN DefaultConfig, NEW value \in Int
  PROVE  ConfigLinkInit(cfg, field, value) \in ConfigRecord
<1>1. field \in {"linknum", "n_fts", "ts_ctl", "quiet_to", "enable_tests", "force_tests",
                 "poll_tx_count"}
  BY DEF DefaultConfig
<1>2. value % 256 \in 0 .. 255 /\ value % 32 \in 0 .. 31
  OBVIOUS
<1> DEFINE v == Limit(field, value)
<1>3. /\ field \in {"linknum", "n_fts"} => v \in 0 .. 255
      /\ field = "ts_ctl" => v \in 0 .. 31
      /\ v \in Int
  BY <1>2 DEF Limit
<1> HIDE DEF v
<1>4. [cfg EXCEPT ![field] = v] \in ConfigRecord
  BY <1>1, <1>3 DEF ConfigRecord
<1> QED
  BY <1>4 DEF ConfigLinkInit, v

LEMMA ConfigureFacts ==
  ASSUME Types, NEW n \in Node, Configure(n)
  PROVE  /\ Types' /\ wire' = wire /\ st[n].pc = "Setup"
         /\ st'[Peer(n)] = st[Peer(n)]
         /\ st'[n].pc = st[n].pc /\ st'[n].done = st[n].done /\ st'[n].cnt = st[n].cnt
         /\ st'[n].last = st[n].last /\ st'[n].up = st[n].up /\ st'[n].seen = st[n].seen
<1> DEFINE s == st[n]
           call == Head(s.todo)
           c == ConfigLinkInit(s.cfg, call[1], call[2])
           t == [s EXCEPT !.todo = Tail(@), !.cfg = c]
<1>1. s.pc = "Setup" /\ s.todo # <<>> /\ UNCHANGED <<due, wire, lat, stray>>
  BY DEF Configure, Ready
<1>2. s \in StateRecord
  BY DEF Types
<1>3. CASE st' = st /\ fatal' = TRUE
  BY <1>1, <1>3, Peers DEF Types
<1>4. CASE /\ call[1] \in DOMAIN DefaultConfig /\ UNCHANGED fatal
           /\ st' = [st EXCEPT ![n].todo = Tail(@),
                               ![n].cfg = ConfigLinkInit(@, call[1], call[2])]
  <2>1. call \in STRING \X Int /\ Tail(s.todo) \in Seq(STRING \X Int)
    <3>1. s.todo \in Seq(STRING \X Int)
      BY <1>2 DEF StateRecord
    <3> QED
      BY <1>1, <3>1, HeadTailProperties
  <2>2. c \in ConfigRecord
    <3>1. s.cfg \in ConfigRecord /\ call[2] \in Int
      BY <1>2, <2>1 DEF StateRecord
    <3> HIDE DEF call
    <3> QED
      BY <1>4, <3>1, ConfigTyped
  <2>3. st' = [st EXCEPT ![n] = t]
    BY <1>4 DEF Types
  <2> HIDE DEF c, call
  <2>4. t \in StateRecord
    BY <1>2, <2>1, <2>2 DEF StateRecord
  <2>5. /\ t.pc = s.pc /\ t.done = s.done /\ t.cnt = s.cnt /\ t.last = s.last
        /\ t.up = s.up /\ t.seen = s.seen
    BY <1>2, Zenon DEF StateRecord
  <2> HIDE DEF t
  <2>6. st'[n] = t /\ st'[Peer(n)] = st[Peer(n)] /\ st' \in [Node -> StateRecord]
    BY <2>3, <2>4, Peers DEF Types
  <2>7. Types'
    BY <1>1, <1>4, <2>6 DEF Types
  <2> QED
    BY <1>1, <2>5, <2>6, <2>7
<1> QED
  BY <1>3, <1>4 DEF Configure

LEMMA ConfigureKeeps ==
  ASSUME Types, CInv, NEW n \in Node, Configure(n)
  PROVE  Types' /\ CInv'
<1> DEFINE p == Peer(n)
<1>1. p \in Node /\ p # n /\ Peer(p) = n /\ \A m \in Node : m = n \/ m = p
  BY Peers
<1>2. /\ Types' /\ wire' = wire /\ st[n].pc = "Setup" /\ st'[p] = st[p]
      /\ st'[n].pc = st[n].pc /\ st'[n].done = st[n].done /\ st'[n].cnt = st[n].cnt
      /\ st'[n].last = st[n].last /\ st'[n].up = st[n].up /\ st'[n].seen = st[n].seen
  BY ConfigureFacts
<1> HIDE DEF p
<1>3. \A m \in Node : /\ st'[m].pc = st[m].pc /\ st'[m].done = st[m].done
                      /\ st'[m].cnt = st[m].cnt /\ st'[m].last = st[m].last
                      /\ st'[m].up = st[m].up /\ st'[m].seen = st[m].seen
  BY <1>1, <1>2
<1>4. /\ wire[n] = <<>> /\ ~Heard(st[p]) /\ st[p].last.link = PAD
  BY <1>1, <1>2 DEF CInv, SentInv
<1>5. EiosInv'
  <2>1. \A m \in Node : EiosSeen(st'[m]) = EiosSeen(st[m]) /\ EiosSent(st'[m]) = EiosSent(st[m])
    BY <1>3 DEF EiosSeen, EiosSent, Tests
  <2> QED
    BY <1>2, <1>3, <2>1, Peers DEF CInv, EiosInv
<1>6. UpInv' /\ LinkInv'
  BY <1>2, <1>3 DEF CInv, UpInv, LinkInv
<1>7. SentInv'
  <2>1. ASSUME NEW m \in Node
        PROVE  LET q == Peer(m)
               IN  /\ \A k \in 1 .. Len(wire'[q]) :
                        IsTs(wire'[q][k].os) => Tells(wire'[q][k].os, st'[q].cfg)
                   /\ Heard(st'[m]) => Tells(st'[m].last, st'[q].cfg)
                   /\ st'[m].last.link \in {PAD, st'[q].cfg.linknum}
                   /\ st'[q].pc = "Setup" => wire'[q] = <<>> /\ ~Heard(st'[m]) /\ st'[m].last.link = PAD
    <3>1. Heard(st'[m]) = Heard(st[m])
      BY <1>3 DEF Heard
    <3>2. CASE m = n
      <4>1. Peer(m) = p /\ st'[p] = st[p] /\ wire' = wire /\ st'[m].last = st[m].last
        BY <1>2, <1>3, <3>2 DEF p
      <4> QED
        BY <3>1, <4>1 DEF CInv, SentInv
    <3>3. CASE m = p
      <4>1. Peer(m) = n /\ wire'[n] = <<>> /\ ~Heard(st'[m]) /\ st'[m].last.link = PAD
        BY <1>1, <1>2, <1>3, <1>4, <3>1, <3>3
      <4>2. 1 .. Len(wire'[n]) = {}
        BY <4>1, EmptySeq
      <4> QED
        BY <4>1, <4>2
    <3> QED
      BY <1>1, <3>2, <3>3
  <2> QED
    BY <2>1 DEF SentInv
<1>8. ConfigInv'
  <2>1. ASSUME NEW m \in Node, st'[m].pc \in Config, Tests(st'[m]) = Tests(st'[Peer(m)])
        PROVE  /\ st'[m].last.link # PAD => st'[Peer(m)].pc \in Config
               /\ st'[m].pc # "Start" =>
                    st'[Peer(m)].pc \in Config /\ st'[m].cfg.linknum = st'[Peer(m)].cfg.linknum
    <3>1. m = p
      BY <1>1, <1>2, <2>1 DEF Config
    <3>2. st[m].pc \in Config /\ SameTests(m) /\ Peer(m) = n /\ st[n].pc \notin Config
      BY <1>1, <1>2, <1>3, <2>1, <3>1 DEF SameTests, Tests, Config
    <3>3. st[m].pc = "Start"
      BY <3>2 DEF CInv, ConfigInv
    <3> QED
      BY <1>3, <1>4, <3>1, <3>3
  <2> QED
    BY <2>1 DEF ConfigInv, SameTests
<1>9. FtsInv'
  <2>1. ASSUME NEW m \in Node, st'[m].pc \in {"Idle", "L0"}
        PROVE  FALSE
    <3>1. m = p /\ st[p].pc \in {"Idle", "L0"}
      BY <1>1, <1>2, <2>1
    <3> QED
      BY <1>1, <1>2, <3>1 DEF CInv, FtsInv
  <2> QED
    BY <2>1 DEF FtsInv
<1> QED
  BY <1>2, <1>5, <1>6, <1>7, <1>8, <1>9 DEF CInv
-----------------------------------------------------------------------------
(* What arrives is counted.                                                *)

LEMMA Counts ==
  ASSUME NEW s \in StateRecord, NEW os \in Sequences
  PROVE  LET c == Count(s, os)
         IN  /\ c \in StateRecord
             /\ c.pc = s.pc /\ c.done = s.done /\ c.cfg = s.cfg /\ c.up = s.up
             /\ c.seen = s.seen /\ c.tx_n_fts = s.tx_n_fts
             /\ c.last = IF IsTs(os) THEN os ELSE s.last
             /\ c.cnt[os.id] > 0
             /\ \A e \in Events \ {os.id} : c.cnt[e] = s.cnt[e]
             /\ \A e \in Events : s.cnt[e] > 0 => c.cnt[e] > 0
<1> DEFINE x == Least(s.cnt[os.id] + 1, CountCap)
           d == [s.cnt EXCEPT ![os.id] = x]
           l == IF IsTs(os) THEN os ELSE s.last
           c == [s EXCEPT !.cnt = d, !.last = l]
<1>1. os.id \in Events /\ s.cnt \in [Events -> 0 .. CountCap] /\ l \in Sequences
  BY DEF StateRecord, Sequences
<1>2. x \in 0 .. CountCap /\ x > 0
  BY <1>1 DEF Least, CountCap
<1>3. c = Count(s, os)
  BY DEF Count, StateRecord, IsTs
<1> HIDE DEF x, l
<1>4. /\ d \in [Events -> 0 .. CountCap] /\ d[os.id] = x
      /\ \A e \in Events \ {os.id} : d[e] = s.cnt[e]
  BY <1>1, <1>2
<1> HIDE DEF d
<1>5. c \in StateRecord
  BY <1>1, <1>4 DEF StateRecord
<1>6. /\ c.pc = s.pc /\ c.done = s.done /\ c.cfg = s.cfg /\ c.up = s.up
      /\ c.seen = s.seen /\ c.tx_n_fts = s.tx_n_fts /\ c.last = l /\ c.cnt = d
  BY Zenon DEF StateRecord
<1> HIDE DEF c
<1>7. \A e \in Events : s.cnt[e] > 0 => c.cnt[e] > 0
  BY <1>2, <1>4, <1>6
<1> QED
  BY <1>2, <1>3, <1>4, <1>5, <1>6, <1>7 DEF l

\* One electrical idle sequence off the wire is at most one more seen.
LEMMA CountSeen ==
  ASSUME NEW s \in StateRecord, NEW os \in Sequences
  PROVE  /\ EiosSeen(Count(s, os)) <= EiosSeen(s) + (IF os.id = "IDL" THEN 1 ELSE 0)
         /\ EiosSent(Count(s, os)) = EiosSent(s)
<1> DEFINE c == Count(s, os)
<1>1. /\ c.pc = s.pc /\ c.done = s.done /\ c.cnt[os.id] > 0
      /\ \A e \in Events \ {os.id} : c.cnt[e] = s.cnt[e]
  BY Counts
<1>2. os.id # "IDL" => c.cnt["IDL"] = s.cnt["IDL"]
  BY <1>1 DEF Events
<1> HIDE DEF c
<1>3. Tests(c) = Tests(s) /\ Weight(Tests(s)) \in Nat
  BY <1>1, Weights DEF Tests
<1>4. EiosSent(c) = EiosSent(s)
  BY <1>1, <1>3 DEF EiosSent
<1>5. EiosSeen(c) <= EiosSeen(s) + (IF os.id = "IDL" THEN 1 ELSE 0)
  <2> DEFINE a == Weight(Tests(s)) - (IF s.pc \in TestTs \cup Ending THEN 1 ELSE 0)
             P == s.pc \in Listening /\ s.cnt["IDL"] > 0
             Q == s.pc \in Listening /\ c.cnt["IDL"] > 0
  <2>1. a \in Int /\ EiosSeen(s) = a + (IF P THEN 1 ELSE 0) /\ EiosSeen(c) = a + (IF Q THEN 1 ELSE 0)
    BY <1>1, <1>3 DEF EiosSeen
  <2>2. os.id # "IDL" => (P <=> Q)
    BY <1>2
  <2> HIDE DEF a, P, Q
  <2> QED
    BY <2>1, <2>2
<1> QED
  BY <1>4, <1>5 DEF c

LEMMA ArriveFacts ==
  ASSUME Types, NEW n \in Node, Arrive(n)
  PROVE  LET os == Head(wire[n]).os
             w == wire[n]
         IN  /\ Types' /\ os \in Sequences
             /\ w \in Seq(Transit) /\ w # <<>> /\ Head(w) = w[1] /\ Head(w) \in Transit
             /\ st'[n] = st[n] /\ st'[Peer(n)] = Count(st[Peer(n)], os)
             /\ wire'[n] = Tail(w) /\ wire'[Peer(n)] = wire[Peer(n)]
<1> DEFINE p == Peer(n)
           w == wire[n]
           os == Head(w).os
           c == Count(st[p], os)
<1>1. p \in Node /\ p # n
  BY Peers
<1>2. w \in Seq(Transit) /\ st[p] \in StateRecord
  BY <1>1 DEF Types
<1>3. /\ w # <<>> /\ st' = [st EXCEPT ![p] = c] /\ wire' = [wire EXCEPT ![n] = Tail(w)]
      /\ UNCHANGED <<due, lat, stray, fatal>>
  BY <1>1 DEF Arrive, Types
<1>4. Head(w) \in Transit /\ Head(w) = w[1] /\ Tail(w) \in Seq(Transit)
  BY <1>2, <1>3, Receives
<1>5. os \in Sequences
  BY <1>4 DEF Transit
<1>6. c \in StateRecord
  BY <1>2, <1>5, Counts
<1> HIDE DEF p, w, os, c
<1>7. /\ st' \in [Node -> StateRecord] /\ st'[n] = st[n] /\ st'[p] = c
  BY <1>1, <1>3, <1>6 DEF Types
<1>8. wire' \in [Node -> Seq(Transit)] /\ wire'[n] = Tail(w) /\ wire'[p] = wire[p]
  BY <1>1, <1>3, <1>4 DEF Types
<1>9. Types'
  BY <1>3, <1>7, <1>8 DEF Types
<1> QED
  BY <1>2, <1>3, <1>4, <1>5, <1>7, <1>8, <1>9 DEF p, w, os, c

LEMMA ArriveEiosInv ==
  ASSUME Types, EiosInv, NEW n \in Node, Arrive(n)
  PROVE  EiosInv'
<1> DEFINE p == Peer(n)
           w == wire[n]
           os == Head(w).os
           c == Count(st[p], os)
           one == IF os.id = "IDL" THEN 1 ELSE 0
<1>1. p \in Node /\ p # n /\ Peer(p) = n /\ \A m \in Node : m = n \/ m = p
  BY Peers
<1>2. /\ Types' /\ os \in Sequences /\ w \in Seq(Transit) /\ w # <<>>
      /\ st'[n] = st[n] /\ st'[p] = c /\ wire'[n] = Tail(w) /\ wire'[p] = wire[p]
  BY ArriveFacts
<1>3. st[p] \in StateRecord /\ st[n] \in StateRecord /\ wire[p] \in Seq(Transit)
      /\ Tail(w) \in Seq(Transit)
  BY <1>1, <1>2, Receives DEF Types
<1>4. EiosSeen(c) <= EiosSeen(st[p]) + one /\ EiosSent(c) = EiosSent(st[p])
  BY <1>2, <1>3, CountSeen
<1>5. Idles(w) = Idles(Tail(w)) + one
  BY <1>2, IdlesReceived DEF IsIdle
<1>6. /\ Idles(w) \in Nat /\ Idles(Tail(w)) \in Nat /\ Idles(wire[p]) \in Nat
      /\ EiosSeen(c) \in Int /\ EiosSeen(st[p]) \in Int /\ EiosSent(st[n]) \in Int
  BY <1>2, <1>3, IdlesFinite, EiosInt
<1>7. /\ EiosSeen(st[p]) + Idles(w) <= EiosSent(st[n])
      /\ EiosSeen(st[n]) + Idles(wire[p]) <= EiosSent(st[p])
  BY <1>1 DEF EiosInv
<1>8. c.pc = st[p].pc /\ c.seen = st[p].seen /\ (st[p].cnt["IDL"] > 0 => c.cnt["IDL"] > 0)
  BY <1>2, <1>3, Counts DEF Events
<1>9. one \in {0, 1}
  OBVIOUS
<1> HIDE DEF p, w, os, c, one
<1>10. EiosSeen(c) + Idles(Tail(w)) <= EiosSent(st[n])
  BY <1>4, <1>5, <1>6, <1>7, <1>9
<1>11. \A m \in Node : EiosSeen(st'[m]) + Idles(wire'[Peer(m)]) <= EiosSent(st'[Peer(m)])
  <2> SUFFICES ASSUME NEW m \in Node
               PROVE  EiosSeen(st'[m]) + Idles(wire'[Peer(m)]) <= EiosSent(st'[Peer(m)])
    OBVIOUS
  <2>1. CASE m = n
    BY <1>2, <1>4, <1>7, <2>1 DEF p
  <2>2. CASE m = p
    <3>1. Peer(m) = n /\ st'[m] = c
      BY <1>1, <1>2, <2>2
    <3> QED
      BY <1>2, <1>10, <3>1
  <2> QED
    BY <1>1, <2>1, <2>2
<1>12. \A m \in Node :
         st'[m].pc \in {"DisableWait", "LoopWait"} /\ st'[m].seen => st'[m].cnt["IDL"] > 0
  <2> SUFFICES ASSUME NEW m \in Node
               PROVE  st'[m].pc \in {"DisableWait", "LoopWait"} /\ st'[m].seen =>
                        st'[m].cnt["IDL"] > 0
    OBVIOUS
  <2>1. CASE m = n
    BY <1>2, <2>1 DEF EiosInv
  <2>2. CASE m = p
    BY <1>1, <1>2, <1>8, <2>2 DEF EiosInv
  <2> QED
    BY <1>1, <2>1, <2>2
<1>13. EiosInv' <=>
         /\ \A m \in Node : EiosSeen(st'[m]) + Idles(wire'[Peer(m)]) <= EiosSent(st'[Peer(m)])
         /\ \A m \in Node :
              st'[m].pc \in {"DisableWait", "LoopWait"} /\ st'[m].seen => st'[m].cnt["IDL"] > 0
  BY DEF EiosInv
<1> QED
  BY <1>11, <1>12, <1>13

LEMMA ArriveSentInv ==
  ASSUME Types, SentInv, NEW n \in Node, Arrive(n)
  PROVE  SentInv'
<1> DEFINE p == Peer(n)
           w == wire[n]
           os == Head(w).os
           c == Count(st[p], os)
           u == Tail(w)
<1>1. p \in Node /\ p # n /\ Peer(p) = n /\ \A m \in Node : m = n \/ m = p
  BY Peers
<1>2. /\ os \in Sequences /\ w \in Seq(Transit) /\ w # <<>> /\ Head(w) = w[1]
      /\ st'[n] = st[n] /\ st'[p] = c /\ wire'[n] = u /\ wire'[p] = wire[p]
  BY ArriveFacts
<1>3. /\ Len(w) \in Nat \ {0} /\ Len(u) = Len(w) - 1
      /\ \A k \in 1 .. Len(w) - 1 : u[k] = w[k + 1]
  BY <1>2, Receives
<1>4. st[p] \in StateRecord
  BY <1>1 DEF Types
<1>5. /\ c.pc = st[p].pc /\ c.cfg = st[p].cfg
      /\ c.last = IF IsTs(os) THEN os ELSE st[p].last
      /\ \A e \in Events \ {os.id} : c.cnt[e] = st[p].cnt[e]
  BY <1>2, <1>4, Counts
<1>6. /\ \A k \in 1 .. Len(w) : IsTs(w[k].os) => Tells(w[k].os, st[n].cfg)
      /\ Heard(st[p]) => Tells(st[p].last, st[n].cfg)
      /\ st[p].last.link \in {PAD, st[n].cfg.linknum}
      /\ st[n].pc # "Setup"
  BY <1>1, <1>2 DEF SentInv
<1>7. IsTs(os) => Tells(os, st[n].cfg)
  <2>1. 1 \in 1 .. Len(w) /\ w[1].os = os
    BY <1>2, <1>3
  <2> QED
    BY <1>6, <2>1
<1>8. ~IsTs(os) => Heard(c) = Heard(st[p])
  BY <1>5 DEF IsTs, Heard, Events
<1> HIDE DEF p, w, os, c, u
<1>9. /\ Heard(c) => Tells(c.last, st[n].cfg)
      /\ c.last.link \in {PAD, st[n].cfg.linknum}
  BY <1>5, <1>6, <1>7, <1>8 DEF Tells
<1>10. \A k \in 1 .. Len(u) : IsTs(u[k].os) => Tells(u[k].os, st[n].cfg)
  <2> SUFFICES ASSUME NEW k \in 1 .. Len(u)
               PROVE  IsTs(u[k].os) => Tells(u[k].os, st[n].cfg)
    OBVIOUS
  <2>1. k + 1 \in 1 .. Len(w) /\ u[k] = w[k + 1]
    BY <1>3
  <2> QED
    BY <1>6, <2>1
<1>11. ASSUME NEW m \in Node
       PROVE  LET q == Peer(m)
              IN  /\ \A k \in 1 .. Len(wire'[q]) :
                       IsTs(wire'[q][k].os) => Tells(wire'[q][k].os, st'[q].cfg)
                  /\ Heard(st'[m]) => Tells(st'[m].last, st'[q].cfg)
                  /\ st'[m].last.link \in {PAD, st'[q].cfg.linknum}
                  /\ st'[q].pc = "Setup" => wire'[q] = <<>> /\ ~Heard(st'[m]) /\ st'[m].last.link = PAD
  <2>1. CASE m = n
    <3>1. Peer(m) = p /\ st'[m] = st[m] /\ wire'[p] = wire[p] /\ st'[p].cfg = st[p].cfg
          /\ st'[p].pc = st[p].pc
      BY <1>2, <1>5, <2>1 DEF p
    <3> QED
      BY <3>1 DEF SentInv
  <2>2. CASE m = p
    <3>1. Peer(m) = n /\ st'[m] = c /\ wire'[n] = u /\ st'[n] = st[n]
      BY <1>1, <1>2, <2>2
    <3> QED
      BY <1>6, <1>9, <1>10, <3>1
  <2> QED
    BY <1>1, <2>1, <2>2
<1> QED
  BY <1>11 DEF SentInv

LEMMA ArriveLinkInv ==
  ASSUME Types, LinkInv, NEW n \in Node, Arrive(n)
  PROVE  LinkInv'
<1> DEFINE p == Peer(n)
           w == wire[n]
           u == Tail(w)
<1>1. p \in Node /\ p # n /\ \A m \in Node : m = n \/ m = p
  BY Peers
<1>2. /\ w \in Seq(Transit) /\ w # <<>> /\ st'[n] = st[n]
      /\ wire'[n] = u /\ wire'[p] = wire[p]
  BY ArriveFacts
<1>3. st'[p].pc = st[p].pc
  <2>1. st[p] \in StateRecord
    BY <1>1 DEF Types
  <2> QED
    BY <2>1, ArriveFacts, Counts
<1>4. /\ Len(w) \in Nat \ {0} /\ Len(u) = Len(w) - 1
      /\ \A k \in 1 .. Len(w) - 1 : u[k] = w[k + 1]
  BY <1>2, Receives
<1> HIDE DEF p, u
<1>5. ASSUME NEW k \in 1 .. Len(u), IsTs(u[k].os), u[k].os.link # PAD,
             st[n].pc \notin Config \cup TestTs
      PROVE  \E j \in 1 .. Len(u) : j > k /\ IsIdle(u[j])
  <2>1. k + 1 \in 1 .. Len(w) /\ u[k] = w[k + 1]
    BY <1>4
  <2>2. PICK i \in 1 .. Len(w) : i > k + 1 /\ IsIdle(w[i])
    BY <1>5, <2>1 DEF LinkInv
  <2>3. i - 1 \in 1 .. Len(w) - 1 /\ (i - 1) + 1 = i /\ i - 1 > k
    BY <1>4, <2>2
  <2>4. i - 1 \in 1 .. Len(u) /\ u[i - 1] = w[i]
    BY <1>4, <2>3
  <2> QED
    BY <2>2, <2>3, <2>4
<1> HIDE DEF w
<1>6. ASSUME NEW m \in Node, NEW k \in 1 .. Len(wire'[m]), IsTs(wire'[m][k].os),
             wire'[m][k].os.link # PAD, st'[m].pc \notin Config \cup TestTs
      PROVE  \E j \in 1 .. Len(wire'[m]) : j > k /\ IsIdle(wire'[m][j])
  <2>1. CASE m = n
    BY <1>2, <1>5, <1>6, <2>1
  <2>2. CASE m = p
    BY <1>2, <1>3, <1>6, <2>2 DEF LinkInv
  <2> QED
    BY <1>1, <2>1, <2>2
<1> QED
  BY <1>6 DEF LinkInv

\* A link number that comes in while both have taken the same tests was sent
\* after the last of them, by a peer that is still in Configuration.
LEMMA ArriveConfigInv ==
  ASSUME Types, EiosInv, LinkInv, ConfigInv, NEW n \in Node, Arrive(n)
  PROVE  ConfigInv'
<1> DEFINE p == Peer(n)
           w == wire[n]
           os == Head(w).os
           c == Count(st[p], os)
<1>1. p \in Node /\ p # n /\ Peer(p) = n /\ \A m \in Node : m = n \/ m = p
  BY Peers
<1>2. /\ os \in Sequences /\ w \in Seq(Transit) /\ w # <<>> /\ Head(w) = w[1]
      /\ st'[n] = st[n] /\ st'[p] = c
  BY ArriveFacts
<1>3. st[p] \in StateRecord /\ Len(w) \in Nat \ {0}
  BY <1>1, <1>2, Receives DEF Types
<1>4. /\ c.pc = st[p].pc /\ c.cfg = st[p].cfg /\ c.done = st[p].done
      /\ c.last = IF IsTs(os) THEN os ELSE st[p].last
  BY <1>2, <1>3, Counts
<1>5. ASSUME st[p].pc \in Config, SameTests(p), IsTs(os), os.link # PAD
      PROVE  st[n].pc \in Config
  <2>1. (\A k \in 1 .. Len(w) : ~IsIdle(w[k])) /\ st[n].pc \notin TestTs
    BY <1>1, <1>5, AllSeen
  <2>2. 1 \in 1 .. Len(w) /\ w[1].os = os
    BY <1>2, <1>3
  <2> QED
    BY <1>5, <2>1, <2>2 DEF LinkInv
<1> HIDE DEF p, w, os, c
<1>6. ASSUME NEW m \in Node, st'[m].pc \in Config, Tests(st'[m]) = Tests(st'[Peer(m)])
      PROVE  /\ st'[m].last.link # PAD => st'[Peer(m)].pc \in Config
             /\ st'[m].pc # "Start" =>
                  st'[Peer(m)].pc \in Config /\ st'[m].cfg.linknum = st'[Peer(m)].cfg.linknum
  <2>1. CASE m = n
    <3>1. /\ Peer(m) = p /\ st'[m] = st[m] /\ st'[p].pc = st[p].pc /\ st'[p].cfg = st[p].cfg
          /\ st'[p].done = st[p].done
      BY <1>2, <1>4, <2>1 DEF p
    <3>2. st[m].pc \in Config /\ SameTests(m)
      BY <1>6, <3>1 DEF SameTests, Tests
    <3> QED
      BY <3>1, <3>2 DEF ConfigInv
  <2>2. CASE m = p
    <3>1. Peer(m) = n /\ st'[m] = c /\ st'[n] = st[n]
      BY <1>1, <1>2, <2>2
    <3>2. st[p].pc \in Config /\ SameTests(p)
      BY <1>1, <1>4, <1>6, <3>1 DEF SameTests, Tests
    <3>3. /\ st[p].last.link # PAD => st[n].pc \in Config
          /\ st[p].pc # "Start" => st[n].pc \in Config /\ st[p].cfg.linknum = st[n].cfg.linknum
      BY <1>1, <3>2 DEF ConfigInv
    <3> QED
      BY <1>4, <1>5, <3>1, <3>2, <3>3
  <2> QED
    BY <1>1, <2>1, <2>2
<1> QED
  BY <1>6 DEF ConfigInv, SameTests

LEMMA ArriveKeeps ==
  ASSUME Types, CInv, NEW n \in Node, Arrive(n)
  PROVE  Types' /\ CInv'
<1> DEFINE p == Peer(n)
<1>1. p \in Node /\ Peer(p) = n /\ \A m \in Node : m = n \/ m = p
  BY Peers
<1>2. \A m \in Node : /\ st'[m].pc = st[m].pc /\ st'[m].up = st[m].up
                      /\ st'[m].tx_n_fts = st[m].tx_n_fts /\ st'[m].cfg = st[m].cfg
  <2>1. st'[n] = st[n] /\ st'[p] = Count(st[p], Head(wire[n]).os)
        /\ Head(wire[n]).os \in Sequences
    BY ArriveFacts
  <2>2. st[p] \in StateRecord
    BY <1>1 DEF Types
  <2>3. /\ st'[p].pc = st[p].pc /\ st'[p].up = st[p].up
        /\ st'[p].tx_n_fts = st[p].tx_n_fts /\ st'[p].cfg = st[p].cfg
    BY <2>1, <2>2, Counts
  <2> HIDE DEF p
  <2> QED
    BY <1>1, <2>1, <2>3
<1>3. UpInv' /\ FtsInv'
  BY <1>2, Peers DEF CInv, UpInv, FtsInv
<1>4. EiosInv' /\ SentInv' /\ LinkInv' /\ ConfigInv'
  BY ArriveEiosInv, ArriveSentInv, ArriveLinkInv, ArriveConfigInv DEF CInv
<1>5. Types'
  BY ArriveFacts
<1> QED
  BY <1>3, <1>4, <1>5 DEF CInv
-----------------------------------------------------------------------------
(* Time passes up to the next thing that happens: nothing else changes.    *)

SameWires ==
  \A n \in Node : /\ Len(wire'[n]) = Len(wire[n])
                  /\ \A k \in 1 .. Len(wire[n]) : wire'[n][k].os = wire[n][k].os

LEMMA IdleKeeps ==
  ASSUME Types', CInv, st' = st, SameWires
  PROVE  CInv'
<1>1. \A n \in Node : Idles(wire'[n]) = Idles(wire[n])
  <2> SUFFICES ASSUME NEW n \in Node
               PROVE  Idles(wire'[n]) = Idles(wire[n])
    OBVIOUS
  <2>1. {k \in 1 .. Len(wire'[n]) : IsIdle(wire'[n][k])} = {k \in 1 .. Len(wire[n]) : IsIdle(wire[n][k])}
    BY DEF SameWires, IsIdle
  <2> QED
    BY <2>1 DEF Idles
<1>2. EiosInv'
  <2>1. \A n \in Node : EiosSeen(st'[n]) + Idles(wire'[Peer(n)]) <= EiosSent(st'[Peer(n)])
    BY <1>1, Peers DEF CInv, EiosInv
  <2> QED
    BY <2>1 DEF CInv, EiosInv
<1>3. UpInv' /\ ConfigInv' /\ FtsInv'
  BY DEF CInv, UpInv, ConfigInv, FtsInv, SameTests
<1>4. SentInv'
  <2>1. ASSUME NEW n \in Node
        PROVE  LET p == Peer(n)
               IN  /\ \A k \in 1 .. Len(wire'[p]) :
                        IsTs(wire'[p][k].os) => Tells(wire'[p][k].os, st'[p].cfg)
                   /\ Heard(st'[n]) => Tells(st'[n].last, st'[p].cfg)
                   /\ st'[n].last.link \in {PAD, st'[p].cfg.linknum}
                   /\ st'[p].pc = "Setup" => wire'[p] = <<>> /\ ~Heard(st'[n]) /\ st'[n].last.link = PAD
    <3> DEFINE p == Peer(n)
    <3>1. p \in Node /\ wire'[p] \in Seq(Transit)
      BY Peers DEF Types
    <3>2. /\ \A k \in 1 .. Len(wire[p]) : IsTs(wire[p][k].os) => Tells(wire[p][k].os, st[p].cfg)
          /\ Heard(st[n]) => Tells(st[n].last, st[p].cfg)
          /\ st[n].last.link \in {PAD, st[p].cfg.linknum}
          /\ st[p].pc = "Setup" => wire[p] = <<>> /\ ~Heard(st[n]) /\ st[n].last.link = PAD
      BY DEF CInv, SentInv
    <3> HIDE DEF p
    <3>3. /\ Len(wire'[p]) = Len(wire[p])
          /\ \A k \in 1 .. Len(wire[p]) : wire'[p][k].os = wire[p][k].os
      BY <3>1 DEF SameWires
    <3>4. wire[p] = <<>> => wire'[p] = <<>>
      BY <3>1, <3>3, EmptySeq
    <3> QED
      BY <3>2, <3>3, <3>4 DEF p
  <2> QED
    BY <2>1 DEF SentInv
<1>5. LinkInv'
  <2>1. ASSUME NEW n \in Node, NEW k \in 1 .. Len(wire'[n]), IsTs(wire'[n][k].os),
               wire'[n][k].os.link # PAD, st'[n].pc \notin Config \cup TestTs
        PROVE  \E j \in 1 .. Len(wire'[n]) : j > k /\ IsIdle(wire'[n][j])
    <3>1. /\ k \in 1 .. Len(wire[n]) /\ IsTs(wire[n][k].os) /\ wire[n][k].os.link # PAD
      BY <2>1 DEF SameWires
    <3>2. PICK j \in 1 .. Len(wire[n]) : j > k /\ IsIdle(wire[n][j])
      BY <2>1, <3>1 DEF CInv, LinkInv
    <3> QED
      BY <3>2 DEF SameWires, IsIdle
  <2> QED
    BY <2>1 DEF LinkInv
<1> QED
  BY <1>2, <1>3, <1>4, <1>5 DEF CInv

\* The times at which something happens next.
LEMMA PendingNats ==
  ASSUME Types
  PROVE  Pending \subseteq Nat /\ Pending # {}
<1>1. \A n \in Node : due[n] \in Nat /\ wire[n] \in Seq(Transit)
  BY DEF Types
<1>2. ASSUME NEW n \in Node, NEW k \in DOMAIN wire[n]
      PROVE  wire[n][k].at \in Nat
  <2>1. wire[n] \in Seq(Transit) /\ DOMAIN wire[n] = 1 .. Len(wire[n])
    BY <1>1, LenProperties
  <2>2. wire[n][k] \in Transit
    BY <1>2, <2>1, ElementOfSeq
  <2> QED
    BY <2>2 DEF Transit
<1>3. PICK n \in Node : TRUE
  BY NodeAssumption
<1>4. due[n] \in Pending
  BY <1>3 DEF Pending
<1>5. ASSUME NEW x \in Pending
      PROVE  x \in Nat
  <2>1. CASE x \in {due[m] : m \in Node}
    BY <1>1, <2>1
  <2>2. CASE x \in UNION {{wire[m][k].at : k \in DOMAIN wire[m]} : m \in Node}
    <3>1. PICK m \in Node : x \in {wire[m][k].at : k \in DOMAIN wire[m]}
      BY <2>2, Zenon
    <3> QED
      BY <1>2, <3>1
  <2> QED
    BY <2>1, <2>2 DEF Pending
<1> QED
  BY <1>4, <1>5

LEMMA PassFacts ==
  ASSUME Types, Pass
  PROVE  Types' /\ st' = st /\ SameWires
<1> DEFINE t == CHOOSE x \in Pending : \A y \in Pending : x <= y
           later(w) == [k \in DOMAIN w |-> [w[k] EXCEPT !.at = @ - t]]
<1>1. \A n \in Node : due[n] \in Nat /\ wire[n] \in Seq(Transit)
  BY DEF Types
<1>2. Pending \subseteq Nat /\ Pending # {}
  BY PendingNats
<1>3. t \in Pending /\ \A y \in Pending : t <= y
  BY <1>2, Minimum
<1>4. /\ due' = [n \in Node |-> due[n] - t]
      /\ wire' = [n \in Node |-> later(wire[n])]
      /\ UNCHANGED <<st, lat, stray, fatal>>
  BY DEF Pass
<1> HIDE DEF t
<1>5. t \in Nat
  BY <1>2, <1>3
<1>6. due' \in [Node -> Nat]
  <2>1. ASSUME NEW n \in Node
        PROVE  due[n] - t \in Nat
    <3>1. due[n] \in Pending
      BY DEF Pending
    <3> QED
      BY <1>1, <1>3, <1>5, <3>1
  <2> QED
    BY <1>4, <2>1
<1>7. ASSUME NEW n \in Node
      PROVE  /\ later(wire[n]) \in Seq(Transit) /\ Len(later(wire[n])) = Len(wire[n])
             /\ \A k \in 1 .. Len(wire[n]) : later(wire[n])[k].os = wire[n][k].os
  <2> DEFINE w == wire[n]
             v == later(w)
  <2>1. w \in Seq(Transit) /\ Len(w) \in Nat /\ DOMAIN w = 1 .. Len(w)
    BY <1>1, LenProperties
  <2>2. ASSUME NEW k \in 1 .. Len(w)
        PROVE  v[k] \in Transit /\ v[k].os = w[k].os
    <3>1. w[k] \in Transit
      BY <2>1, <2>2, ElementOfSeq
    <3>2. w[k].at \in Pending
      BY <2>1, <2>2 DEF Pending
    <3>3. w[k].at \in Nat /\ w[k].at - t \in Nat
      BY <1>3, <1>5, <3>1, <3>2 DEF Transit
    <3>4. v[k] = [w[k] EXCEPT !.at = @ - t]
      BY <2>1, <2>2
    <3> QED
      BY <3>1, <3>3, <3>4 DEF Transit
  <2>3. v \in [1 .. Len(w) -> Transit]
    <3>1. DOMAIN v = 1 .. Len(w) /\ v = [k \in 1 .. Len(w) |-> v[k]]
      BY <2>1
    <3> HIDE DEF v
    <3> QED
      BY <2>2, <3>1
  <2> HIDE DEF v
  <2>4. v \in Seq(Transit) /\ Len(v) = Len(w)
    BY <2>1, <2>3, IsASeq, LenProperties
  <2> QED
    BY <2>2, <2>4 DEF v
<1> HIDE DEF later
<1>8. wire' \in [Node -> Seq(Transit)] /\ \A n \in Node : wire'[n] = later(wire[n])
  BY <1>4, <1>7
<1>9. SameWires
  BY <1>7, <1>8 DEF SameWires
<1> QED
  BY <1>4, <1>6, <1>8, <1>9 DEF Types
-----------------------------------------------------------------------------
(* The invariant, from the start on.                                       *)

LEMMA InitTypes ==
  ASSUME Init
  PROVE  /\ Types
         /\ \A n \in Node : /\ st[n].pc = "Setup" /\ st[n].done = {} /\ ~Heard(st[n])
                            /\ st[n].cnt["IDL"] = 0 /\ st[n].last.link = PAD
                            /\ wire[n] = <<>>
<1> DEFINE zero == [e \in Events |-> 0]
           first(p, n) == [pc |-> "Setup", todo |-> p[n], cfg |-> DefaultConfig, i |-> 0,
                           seen |-> FALSE, done |-> {}, up |-> TRUE, tx_n_fts |-> 0,
                           cnt |-> zero, last |-> Blank("TS1")]
<1>1. PICK p \in Programs : st = [n \in Node |-> first(p, n)]
  BY DEF Init
<1>2. zero \in [Events -> 0 .. CountCap] /\ \A e \in Events : zero[e] = 0
  BY DEF CountCap
<1>3. DefaultConfig \in ConfigRecord
  <2>1. QuietTo \in Int /\ PollTx \in Int
    BY TimeAssumption
  <2> QED
    BY <2>1 DEF DefaultConfig, ConfigRecord
<1>4. Blank("TS1") \in Sequences /\ Blank("TS1").link = PAD
  BY DEF Blank, Ts, Sequences, Events
<1> HIDE DEF zero
<1>5. ASSUME NEW n \in Node
      PROVE  /\ first(p, n) \in StateRecord /\ st[n] = first(p, n)
             /\ first(p, n).pc = "Setup" /\ first(p, n).done = {} /\ ~Heard(first(p, n))
             /\ first(p, n).cnt["IDL"] = 0 /\ first(p, n).last.link = PAD
  <2>1. p[n] \in Seq(STRING \X Int)
    BY ProgramsAssumption
  <2>2. first(p, n) \in StateRecord
    BY <1>2, <1>3, <1>4, <2>1 DEF StateRecord, States
  <2>3. /\ first(p, n).cnt = zero /\ first(p, n).last = Blank("TS1")
        /\ first(p, n).pc = "Setup" /\ first(p, n).done = {}
    OBVIOUS
  <2> HIDE DEF first
  <2>4. ~Heard(first(p, n)) /\ first(p, n).cnt["IDL"] = 0
    BY <1>2, <2>3 DEF Heard, Events
  <2> QED
    BY <1>1, <1>4, <2>2, <2>3, <2>4
<1> HIDE DEF first
<1>6. st \in [Node -> StateRecord]
  BY <1>1, <1>5
<1>7. due \in [Node -> Nat] /\ lat \in [Node -> Nat]
  BY TimeAssumption DEF Init
<1>8. wire \in [Node -> Seq(Transit)] /\ \A n \in Node : wire[n] = <<>>
  BY EmptySeq DEF Init
<1>9. stray \in {0, CtlLoopback} /\ fatal \in BOOLEAN
  BY DEF Init
<1> QED
  BY <1>5, <1>6, <1>7, <1>8, <1>9 DEF Types

LEMMA InitKeeps ==
  ASSUME Init
  PROVE  Types /\ CInv
<1>1. /\ Types
      /\ \A n \in Node : /\ st[n].pc = "Setup" /\ st[n].done = {} /\ ~Heard(st[n])
                         /\ st[n].cnt["IDL"] = 0 /\ st[n].last.link = PAD
                         /\ wire[n] = <<>>
  BY InitTypes
<1>2. 1 .. Len(<<>>) = {}
  OBVIOUS
<1>3. Idles(<<>>) = 0
  <2>1. {k \in 1 .. Len(<<>>) : IsIdle(<<>>[k])} = {}
    BY <1>2
  <2> QED
    BY <2>1, FS_EmptySet DEF Idles
<1>4. ASSUME NEW n \in Node
      PROVE  EiosSeen(st[n]) = 0 /\ EiosSent(st[n]) = 0
  <2>1. Weight(Tests(st[n])) = 0
    BY <1>1 DEF Weight, Tests
  <2>2. st[n].pc \notin TestTs /\ st[n].pc \notin TestTs \cup Ending /\ st[n].pc \notin Listening
    BY <1>1 DEF TestTs, Ending, Listening
  <2>3. EiosSent(st[n]) = 0 - 0 /\ EiosSeen(st[n]) = (0 - 0) + 0
    BY <2>1, <2>2, Zenon DEF EiosSeen, EiosSent
  <2> QED
    BY <2>3
<1>5. EiosInv
  BY <1>1, <1>3, <1>4, Peers DEF EiosInv
<1>6. UpInv /\ LinkInv /\ ConfigInv /\ FtsInv
  BY <1>1, <1>2 DEF UpInv, LinkInv, ConfigInv, FtsInv, TestTs, Config
<1>7. SentInv
  BY <1>1, <1>2, Peers DEF SentInv
<1> QED
  BY <1>1, <1>5, <1>6, <1>7 DEF CInv

LEMMA NextKeeps ==
  ASSUME Types, CInv, [Next]_vars
  PROVE  Types' /\ CInv'
<1>1. ASSUME NEW n \in Node, Arrive(n)
      PROVE  Types' /\ CInv'
  BY <1>1, ArriveKeeps
<1>2. ASSUME NEW n \in Node, Configure(n)
      PROVE  Types' /\ CInv'
  BY <1>2, ConfigureKeeps
<1>3. ASSUME NEW n \in Node, Step(n), ~Configure(n)
      PROVE  Types' /\ CInv'
  <2>1. Sound(st[n])
    BY SoundStates DEF CInv
  <2>2. PICK t \in StateRecord : Go(n, t) /\ Moves(st[n], t)
    BY <1>3, <2>1, StepMoves
  <2> QED
    BY <2>2, MoveKeeps
<1>4. CASE Pass
  <2>1. Types' /\ st' = st /\ SameWires
    BY <1>4, PassFacts
  <2> QED
    BY <2>1, IdleKeeps
<1>5. CASE UNCHANGED vars
  BY <1>5
     DEF vars, Types, CInv, EiosInv, UpInv, SentInv, LinkInv, ConfigInv, FtsInv, SameTests
<1> QED
  BY <1>1, <1>2, <1>3, <1>4, <1>5 DEF Next

(* What the two ends have sent, received and seen of each other stays in   *)
(* the relations above in every behaviour.                                 *)
THEOREM Inductive == Spec => [](Types /\ CInv)
<1>1. Init => Types /\ CInv
  BY InitKeeps
<1>2. Types /\ CInv /\ [Next]_vars => (Types /\ CInv)'
  BY NextKeeps
<1> QED
  BY <1>1, <1>2, PTL DEF Spec

(* The places of both programs, their counters, what they have received    *)
(* and what is on the wire stay of their kinds, for every pair of programs *)
(* and all lengths and delays.                                             *)
THEOREM TypeCorrect == Spec => []TypeOK
<1>1. ASSUME Types, NEW n \in Node
      PROVE  /\ st[n].pc \in States
             /\ st[n].i \in Nat
             /\ st[n].cnt \in [Events -> 0 .. CountCap]
             /\ st[n].last \in Sequences
             /\ st[n].done \subseteq {DISABLE, COMPLIANCE, LOOPBACK}
             /\ st[n].tx_n_fts \in 0 .. 255
             /\ {st[n].seen, st[n].up} \subseteq BOOLEAN
             /\ st[n].cfg.linknum \in 0 .. 255
             /\ st[n].cfg.n_fts \in 0 .. 255
             /\ st[n].cfg.ts_ctl \in 0 .. 31
             /\ due[n] \in Nat
             /\ wire[n] \in Seq([os : Sequences, at : Nat])
  <2>1. st[n] \in StateRecord /\ due[n] \in Nat /\ wire[n] \in Seq([os : Sequences, at : Nat])
    BY <1>1 DEF Types, Transit
  <2>2. st[n].cfg \in ConfigRecord
    BY <2>1 DEF StateRecord
  <2>3. /\ st[n].cfg.linknum \in 0 .. 255 /\ st[n].cfg.n_fts \in 0 .. 255
        /\ st[n].cfg.ts_ctl \in 0 .. 31
    BY <2>2 DEF ConfigRecord
  <2>4. /\ st[n].pc \in States /\ st[n].i \in Nat /\ st[n].cnt \in [Events -> 0 .. CountCap]
        /\ st[n].last \in Sequences /\ st[n].tx_n_fts \in 0 .. 255
        /\ st[n].done \subseteq {DISABLE, COMPLIANCE, LOOPBACK}
    BY <2>1 DEF StateRecord
  <2>5. {st[n].seen, st[n].up} \subseteq BOOLEAN
    BY <2>1 DEF StateRecord
  <2> QED
    BY <2>1, <2>3, <2>4, <2>5, Zenon
<1>2. ASSUME Types
      PROVE  TypeOK
  BY <1>1, <1>2, Zenon DEF TypeOK, Types
<1>3. Types /\ CInv => TypeOK
  BY <1>2
<1> QED
  BY <1>3, Inductive, PTL

(* A node past Linkwidth.Start whose peer has taken the same tests shares  *)
(* its link number with it, and the peer is in Configuration too: counters *)
(* and numbers left over from before a test can not take a node there,     *)
(* because a test ends with the peer's electrical idle sequence, and that  *)
(* comes behind everything the peer sent before.                           *)
THEOREM LinkAgrees == Spec => []LinkAgreed
<1>1. ASSUME CInv
      PROVE  LinkAgreed
  <2>1. ASSUME NEW n \in Node, st[n].pc \in {"Wait", "Accept", "Complete", "Idle", "L0"},
               st[n].done \ {COMPLIANCE} = st[Peer(n)].done \ {COMPLIANCE}
        PROVE  /\ st[Peer(n)].pc \in {"Start", "Wait", "Accept", "Complete", "Idle", "L0"}
               /\ st[n].cfg.linknum = st[Peer(n)].cfg.linknum
               /\ st[n].up /\ st[Peer(n)].up
    <3>1. st[n].pc \in Config /\ SameTests(n) /\ st[n].pc # "Start"
      BY <2>1 DEF Config, SameTests, Tests
    <3>2. st[Peer(n)].pc \in Config /\ st[n].cfg.linknum = st[Peer(n)].cfg.linknum
      BY <1>1, <3>1 DEF CInv, ConfigInv
    <3>3. st[n].up /\ st[Peer(n)].up
      BY <1>1, <3>1, <3>2, Peers DEF CInv, UpInv
    <3> QED
      BY <3>2, <3>3 DEF Config
  <2> QED
    BY <2>1 DEF LinkAgreed
<1>2. Types /\ CInv => LinkAgreed
  BY <1>1
<1> QED
  BY <1>2, Inductive, PTL

(* The number of fast training sequences a node goes on with is the one    *)
(* its peer is configured with: no training sequence is sent before the    *)
(* peer has made all its configuration calls.                              *)
THEOREM FtsLearnt == Spec => []FtsLearned
<1>1. Types /\ CInv => FtsLearned
  BY DEF CInv, FtsInv, FtsLearned
<1> QED
  BY <1>1, Inductive, PTL
-----------------------------------------------------------------------------
(* Two ends that have taken no test go through the states together, over a *)
(* wire shorter than a training sequence.  What follows is about what is   *)
(* on a wire w with delay l, its sender s, and the receiver r at its end.  *)

Plain == {"Setup", "Quiet", "PollActive", "PollConfig"} \cup Config
PlainInv == \A n \in Node : st[n].done = {} => st[n].pc \in Plain /\ st[n].up

Steps(s) == Rank[s.pc]
Talks(s) == s.pc \notin {"Setup", "Quiet"}

\* An ordered set shows how far its sender has got ...
Shows(os, s) ==
  /\ os.id \in {"TS1", "TS2", "D0"}
  /\ os.id = "TS2" => Steps(s) >= 1
  /\ IsTs(os) => Talks(s)
  /\ IsTs(os) /\ os.link # PAD => Steps(s) >= 2
  /\ IsTs(os) /\ os.lane = 0 => Steps(s) >= 3
  /\ os.id = "TS2" /\ os.link # PAD => Steps(s) >= 5

\* ... and so do those that come later.
Leads(os, later, s) ==
  IsTs(os) =>
    /\ later.id = "D0" => Steps(s) >= 6
    /\ IsTs(later) /\ os.link # PAD => later.link # PAD
    /\ IsTs(later) /\ os.lane = 0 => later.lane = 0

WireInv(w, s) ==
  /\ \A k \in 1 .. Len(w) : Shows(w[k].os, s)
  /\ \A j, k \in 1 .. Len(w) : j < k => Leads(w[j].os, w[k].os, s)

\* What the receiver has seen comes before what is on the wire, and it is
\* in no state that it has not seen the sender get to.
KnowsInv(w, s, r) ==
  /\ r.last.link # PAD =>
       Steps(s) >= 2 /\ \A k \in 1 .. Len(w) : IsTs(w[k].os) => w[k].os.link # PAD
  /\ r.last.lane = 0 =>
       Steps(s) >= 3 /\ \A k \in 1 .. Len(w) : IsTs(w[k].os) => w[k].os.lane = 0
  /\ Steps(r) >= 1 \/ Heard(r) =>
       Talks(s) /\ \A k \in 1 .. Len(w) : w[k].os.id = "D0" => Steps(s) >= 6
  /\ r.cnt["TS2"] > 0 => Steps(s) >= 1
  /\ Steps(r) >= 3 => r.last.link # PAD
  /\ Steps(r) >= 4 => r.last.lane = 0
  /\ r.pc = "Complete" /\ r.cnt["TS2"] > 0 => Steps(s) >= 5
  /\ r.pc = "Idle" /\ r.cnt["D0"] > 0 => Steps(s) >= 6

Together(s, r) == Steps(s) <= Steps(r) + 1

\* Things arrive no closer together than they are sent, training sequences
\* one in each turn of the receiver's loop; ds and dr is what is left of the
\* transmissions of the two.
Span(os) == IF IsTs(os) THEN TsTime ELSE 1

PacedInv(w, s, ds, l, r, dr) ==
  /\ s.pc \in Training => ds <= TsTime
  /\ \A k \in 1 .. Len(w) :
       /\ w[k].at <= ds + l
       /\ w[k].at = 0 /\ r.pc \in Training => dr < TsTime
  /\ \A j, k \in 1 .. Len(w) : j < k => w[j].at + Span(w[k].os) <= w[k].at

\* The lane number is in each training sequence once it is in one.
Numbered(e) == e.os.id = "TS1" /\ e.os.lane = 0

SteadyInv(w, s, ds, l) ==
  s.pc \in {"Wait", "Accept"} =>
    /\ w # <<>> /\ Numbered(w[Len(w)]) /\ w[Len(w)].at = ds + l
    /\ \A k \in 1 .. Len(w) - 1 :
         Numbered(w[k]) => Numbered(w[k + 1]) /\ w[k + 1].at = w[k].at + TsTime

\* What r can have counted when it looks next, after dr ...
Nears(w, dr) == \E k \in 1 .. Len(w) : w[k].os.id = "TS1" /\ w[k].at <= dr
Counted1(w, r, dr) == r.cnt["TS1"] + (IF Nears(w, dr) THEN 1 ELSE 0)

\* ... and the earliest time at which it can leave Lanenum.Accept.
Turns(k) == k * TsTime
Leaves(w, r, dr) == dr + Turns((IF r.pc = "Wait" THEN 4 ELSE 2) - Counted1(w, r, dr))

\* How many sequences s still has to receive to leave Lanenum.Wait.
Needs(s) ==
  IF s.last.lane # 0 \/ s.cnt["TS1"] = 0 THEN 2 ELSE IF s.cnt["TS1"] = 1 THEN 1 ELSE 0

\* s has received what it needs before the time 'bound', or what it needs is
\* on v, the wire from r to s.
InTime(s, ds, v, bound) ==
  \/ Needs(s) = 0 /\ ds < bound
  \/ /\ Needs(s) > 0
     /\ \E k \in 1 .. Len(v) : Numbered(v[k]) /\ v[k].at + Turns(Needs(s)) < bound

\* The sender is out of Lanenum.Wait before the receiver leaves
\* Lanenum.Accept.
FollowInv(w, s, ds, v, r, dr) ==
  /\ r.pc = "Wait" /\ s.pc = "Start" => Counted1(w, r, dr) <= 1
  /\ r.pc \in {"Wait", "Accept"} /\ s.pc = "Wait" => InTime(s, ds, v, Leaves(w, r, dr))

EndInv(w, s, ds, l, v, r, dr) ==
  /\ WireInv(w, s) /\ KnowsInv(w, s, r) /\ Together(s, r) /\ PacedInv(w, s, ds, l, r, dr)
  /\ SteadyInv(w, s, ds, l) /\ FollowInv(w, s, ds, v, r, dr)

Untested == \A n \in Node : st[n].done = {}

StepInv ==
  /\ PlainInv /\ lat \in [Node -> Lats]
  /\ Untested => \A n \in Node :
       LET p == Peer(n)
       IN  EndInv(wire[n], st[n], due[n], lat[n], wire[p], st[p], due[p])
-----------------------------------------------------------------------------
(* A transmission of a program that takes no test.                         *)

Lacks(s) == s.last.link # s.cfg.linknum \/ s.last.lane # 0

Stays(s, t) ==
  /\ t.pc = s.pc
  /\ s.pc = "Wait" => IF Lacks(s) THEN t.cnt["TS1"] = 0
                      ELSE s.cnt["TS1"] < 2 /\ t.cnt["TS1"] = s.cnt["TS1"]

GoesOn(s, t) ==
  \/ s.pc \in {"Setup", "Quiet"} /\ t.pc \in {"Quiet", "PollActive"}
  \/ s.pc = "PollActive" /\ t.pc = "PollConfig" /\ Heard(s)
  \/ s.pc = "PollConfig" /\ t.pc = "Start" /\ s.cnt["TS2"] > 0
  \/ s.pc = "Start" /\ t.pc = "Wait" /\ s.last.link # PAD /\ t.cnt["TS1"] = 0
  \/ s.pc = "Wait" /\ t.pc = "Accept" /\ s.last.lane = 0 /\ s.cnt["TS1"] >= 2 /\ t.cnt["TS1"] = 0
  \/ s.pc = "Accept" /\ t.pc = "Complete" /\ s.cnt["TS1"] >= 2 /\ t.cnt["TS2"] = 0
  \/ s.pc = "Complete" /\ t.pc = "Idle" /\ s.cnt["TS2"] > 0 /\ t.cnt["D0"] = 0
  \/ s.pc = "Idle" /\ t.pc = "L0" /\ s.cnt["D0"] > 0

LEMMA GoIs ==
  ASSUME Types, NEW n \in Node, NEW t, Go(n, t)
  PROVE  st'[n] = t
BY DEF Go, Types

LEMMA Untried ==
  ASSUME Types, NEW n \in Node, Sound(st[n]), st[n].done = {}, st'[n].done = {},
         InitLink(n) \/ DetectQuiet(n) \/ PollingActive(n)
  PROVE  /\ Stays(st[n], st'[n]) \/ GoesOn(st[n], st'[n])
         /\ st'[n].pc = "Quiet" => st'[n].up = st[n].up
<1> DEFINE s == st[n]
<1>1. s \in StateRecord
  BY DEF Types
<1>2. CASE InitLink(n)
  <2> DEFINE u == At(s, "Quiet")
  <2>1. s.pc = "Setup" /\ Go(n, u)
    BY <1>2 DEF InitLink, Ready, Detect
  <2>2. u.pc = "Quiet" /\ u.up = s.up
    BY <1>1, Names, AtNear DEF Near
  <2>3. st'[n] = u
    BY <2>1, GoIs
  <2> QED
    BY <2>1, <2>2, <2>3 DEF GoesOn
<1>3. CASE DetectQuiet(n)
  <2> DEFINE u == [s EXCEPT !.i = @ + 1]
             r == Reset(s, {"TS1", "TS2"})
             test == [At(r, "Compliance") EXCEPT !.done = @ \cup {COMPLIANCE}]
  <2>1. s.pc = "Quiet" /\ (Go(n, u) \/ \E p \in Polling(s) : Go(n, p))
    BY <1>3 DEF DetectQuiet, Ready
  <2>2. u.pc = s.pc /\ u.up = s.up
    <3>1. s.i + 1 \in Nat
      BY <1>1 DEF StateRecord
    <3> QED
      BY <1>1, <3>1, LoopNear DEF Near
  <2>3. r \in StateRecord
    BY <1>1, Names, ResetNear DEF Near
  <2>4. ASSUME NEW p \in Polling(s), st'[n] = p
        PROVE  p.pc = "PollActive"
    <3>1. p = test \/ p = [test EXCEPT !.up = FALSE] \/ p = PollActive(r)
      BY DEF Polling
    <3> HIDE DEF r
    <3>2. At(r, "Compliance") \in StateRecord /\ At(r, "PollActive") \in StateRecord
          /\ At(r, "PollActive").pc = "PollActive"
      BY <2>3, Names, AtNear DEF Near
    <3>3. test \in StateRecord /\ test.done # {}
      BY <3>2, TestNoted
    <3> HIDE DEF test
    <3>4. [test EXCEPT !.up = FALSE].done # {}
      BY <3>3, LaneSet
    <3>5. PollActive(r).pc = "PollActive"
      BY <3>2, LaneSet DEF PollActive
    <3> QED
      BY <2>4, <3>1, <3>3, <3>4, <3>5
  <2> QED
    BY <2>1, <2>2, <2>4, GoIs DEF GoesOn, Stays
<1>4. CASE PollingActive(n)
  <2> DEFINE j == Counted(s, s.cnt["TS1"] > 0 \/ s.cnt["TS2"] > 0)
             t == Reset(At(s, "PollConfig"), {"TS2"})
             u == [s EXCEPT !.i = j]
  <2>1. /\ s.pc = "PollActive"
        /\ \/ (s.cnt["TS1"] >= 8 \/ s.cnt["TS2"] >= 8) /\ Go(n, t)
           \/ Go(n, u)
    BY <1>4 DEF PollingActive, Ready
  <2>2. j \in Nat
    BY <1>1, CountedNat
  <2> HIDE DEF j
  <2>3. t.pc = "PollConfig" /\ u.pc = "PollActive"
    BY <1>1, <2>1, <2>2, Names, Entered, LoopNear
  <2>4. s.cnt["TS1"] \in Nat /\ s.cnt["TS2"] \in Nat
    BY <1>1 DEF StateRecord, Events, CountCap
  <2> HIDE DEF t, u
  <2>5. CASE (s.cnt["TS1"] >= 8 \/ s.cnt["TS2"] >= 8) /\ Go(n, t)
    <3>1. st'[n] = t
      BY <2>5, GoIs
    <3>2. Heard(s)
      BY <2>4, <2>5 DEF Heard
    <3> QED
      BY <2>1, <2>3, <3>1, <3>2 DEF GoesOn
  <2>6. CASE Go(n, u)
    BY <2>1, <2>3, <2>6, GoIs DEF Stays
  <2> QED
    BY <2>1, <2>5, <2>6
<1> QED
  BY <1>2, <1>3, <1>4

LEMMA UntriedConfig ==
  ASSUME Types, NEW n \in Node, Sound(st[n]), st[n].done = {}, st'[n].done = {},
         PollingConfig(n) \/ LinkwidthStart(n)
  PROVE  Stays(st[n], st'[n]) \/ GoesOn(st[n], st'[n])
<1> DEFINE s == st[n]
<1>1. s \in StateRecord
  BY DEF Types
<1>2. CASE PollingConfig(n)
  <2> DEFINE j == Counted(s, s.cnt["TS2"] > 0)
             t == IF HeardPad(s) THEN s ELSE Reset(s, {"TS2"})
             u == [t EXCEPT !.i = j]
  <2>1. /\ s.pc = "PollConfig"
        /\ \/ t.cnt["TS2"] >= 8 /\ \E c \in Configuration(t) : Go(n, c)
           \/ Go(n, u)
    BY <1>2 DEF PollingConfig, Ready
  <2>2. j \in Nat
    BY <1>1, CountedNat
  <2> HIDE DEF j
  <2>3. Near(s, t) /\ t.pc = s.pc /\ t \in StateRecord
    <3>1. Near(s, Reset(s, {"TS2"})) /\ Reset(s, {"TS2"}).pc = s.pc
      BY <1>1, Names, ResetNear
    <3> QED
      BY <1>1, <3>1, NearSelf DEF Near
  <2> HIDE DEF t
  <2>4. u.pc = s.pc
    BY <2>2, <2>3, LoopNear
  <2>5. CASE Go(n, u)
    BY <2>1, <2>4, <2>5, GoIs DEF Stays
  <2>6. CASE t.cnt["TS2"] >= 8 /\ \E c \in Configuration(t) : Go(n, c)
    <3>1. PICK c \in Configuration(t) : Go(n, c)
      BY <2>6
    <3>2. st'[n] = c
      BY <3>1, GoIs
    <3>3. c = Start(t) \/ c = Disabled(t) \/ c = Loopback(t)
      <4>1. PICK d \in Takes(t, DISABLE) :
              c \in IF d THEN {Disabled(t)}
                    ELSE {IF l THEN Loopback(t) ELSE Start(t) : l \in Takes(t, LOOPBACK)}
        BY <3>1, Zenon DEF Configuration
      <4> QED
        BY <4>1
    <3>4. Disabled(t).done # {} /\ Loopback(t).done # {}
      <4>1. /\ Reset(At(t, "DisableTs"), {"IDL"}) \in StateRecord
            /\ Reset(At(t, "LoopEntry"), {"TS1"}) \in StateRecord
        BY <2>3, Names, Entered DEF Near, TestTs
      <4> QED
        BY <4>1, TestNoted DEF Disabled, Loopback
    <3>5. Start(t).pc = "Start"
      BY <2>3, Names, Entered DEF Start, Config
    <3>6. s.cnt["TS2"] > 0
      <4>1. t.cnt["TS2"] \in {0, s.cnt["TS2"]} /\ s.cnt["TS2"] \in Nat
        BY <1>1, <2>3 DEF Near, Events, StateRecord, CountCap
      <4> QED
        BY <2>6, <4>1
    <3> QED
      BY <2>1, <3>2, <3>3, <3>4, <3>5, <3>6 DEF GoesOn
  <2> QED
    BY <2>1, <2>5, <2>6
<1>3. CASE LinkwidthStart(n)
  <2> DEFINE t == IF s.last.link = PAD THEN Reset(s, {"TS1"}) ELSE s
             r == Reset(At(t, "Wait"), {"TS1"})
  <2>1. s.pc = "Start" /\ (Go(n, t) \/ (s.last.link = s.cfg.linknum /\ Go(n, r)))
    BY <1>3 DEF LinkwidthStart, Ready
  <2>2. t.pc = s.pc /\ t \in StateRecord
    <3>1. Near(s, Reset(s, {"TS1"})) /\ Reset(s, {"TS1"}).pc = s.pc
      BY <1>1, Names, ResetNear
    <3> QED
      BY <1>1, <3>1 DEF Near
  <2> HIDE DEF t
  <2>3. r.pc = "Wait" /\ r.cnt["TS1"] = 0
    BY <2>2, Names, Entered DEF Config, Events
  <2> HIDE DEF r
  <2>4. s.cfg.linknum # PAD
    <3>1. s.cfg \in ConfigRecord
      BY <1>1 DEF StateRecord
    <3>2. s.cfg.linknum \in 0 .. 255
      BY <3>1 DEF ConfigRecord
    <3> HIDE DEF s
    <3> QED
      BY <3>2 DEF PAD
  <2> QED
    BY <2>1, <2>2, <2>3, <2>4, GoIs DEF GoesOn, Stays
<1> QED
  BY <1>2, <1>3

LEMMA UntriedLanes ==
  ASSUME Types, NEW n \in Node, Sound(st[n]), st[n].done = {}, st'[n].done = {},
         LanenumWait(n) \/ LanenumAccept(n)
  PROVE  Stays(st[n], st'[n]) \/ GoesOn(st[n], st'[n])
<1> DEFINE s == st[n]
           z == Reset(s, {"TS1"})
<1>1. s \in StateRecord /\ s.cnt["TS1"] \in Nat
  BY DEF Types, StateRecord, Events, CountCap
<1>2. z.pc = s.pc /\ z \in StateRecord /\ z.cnt["TS1"] = 0
  BY <1>1, Names, ResetNear DEF Near, Events
<1>3. CASE LanenumWait(n)
  <2> DEFINE t == IF Lacks(s) THEN z ELSE s
             r == Reset(At(t, "Accept"), {"TS1"})
  <2>1. s.pc = "Wait" /\ (IF t.cnt["TS1"] >= 2 THEN Go(n, r) ELSE Go(n, t))
    BY <1>3 DEF LanenumWait, Ready, Lacks
  <2> HIDE DEF z
  <2>2. /\ t.pc = s.pc /\ t \in StateRecord
        /\ IF Lacks(s) THEN t.cnt["TS1"] = 0 ELSE t.cnt["TS1"] = s.cnt["TS1"]
    BY <1>1, <1>2
  <2> HIDE DEF t
  <2>3. r.pc = "Accept" /\ r.cnt["TS1"] = 0
    BY <2>2, Names, Entered DEF Config, Events
  <2> HIDE DEF r
  <2>4. CASE t.cnt["TS1"] >= 2
    <3>1. st'[n] = r
      BY <2>1, <2>4, GoIs
    <3>2. ~Lacks(s) /\ s.cnt["TS1"] >= 2
      BY <2>2, <2>4
    <3> QED
      BY <2>1, <2>3, <3>1, <3>2 DEF GoesOn, Lacks
  <2>5. CASE ~(t.cnt["TS1"] >= 2)
    <3>1. st'[n] = t
      BY <2>1, <2>5, GoIs
    <3> QED
      BY <1>1, <2>2, <2>5, <3>1 DEF Stays
  <2> QED
    BY <2>4, <2>5
<1>4. CASE LanenumAccept(n)
  <2> DEFINE t == IF BothWrong(s) THEN z ELSE s
  <2>1. s.pc = "Accept" /\ (IF t.cnt["TS1"] >= 2 THEN \E c \in Complete(t) : Go(n, c) ELSE Go(n, t))
    BY <1>4 DEF LanenumAccept, Ready
  <2> HIDE DEF z
  <2>2. t.pc = s.pc /\ t \in StateRecord /\ t.cnt["TS1"] \in {0, s.cnt["TS1"]}
    BY <1>1, <1>2
  <2> HIDE DEF t
  <2>3. CASE t.cnt["TS1"] >= 2
    <3>1. PICK c \in Complete(t) : st'[n] = c
      BY <2>1, <2>3, GoIs
    <3>2. c.pc = "Complete" /\ c.cnt["TS2"] = 0
      <4> DEFINE r == Reset(At(t, "Complete"), {"TS2"})
      <4>1. PICK b \in BOOLEAN : c = [r EXCEPT !.seen = b]
        BY DEF Complete
      <4>2. r \in StateRecord /\ r.pc = "Complete" /\ r.cnt["TS2"] = 0
        BY <2>2, Names, Entered DEF Near, Config, Events
      <4> HIDE DEF r
      <4> QED
        BY <4>1, <4>2, SeenNear
    <3> QED
      BY <1>1, <2>1, <2>2, <2>3, <3>1, <3>2 DEF GoesOn
  <2>4. CASE ~(t.cnt["TS1"] >= 2)
    BY <2>1, <2>2, <2>4, GoIs DEF Stays
  <2> QED
    BY <2>3, <2>4
<1> QED
  BY <1>3, <1>4

LEMMA UntriedEnd ==
  ASSUME Types, NEW n \in Node, Sound(st[n]), st[n].done = {}, st'[n].done = {},
         ConfigComplete(n) \/ ConfigIdle(n) \/ LinkUp(n)
  PROVE  Stays(st[n], st'[n]) \/ GoesOn(st[n], st'[n])
<1> DEFINE s == st[n]
<1>1. /\ s \in StateRecord /\ s.cnt["TS2"] \in Nat /\ s.cnt["D0"] \in Nat
      /\ s.last.n_fts \in 0 .. 255 /\ s.i \in Nat
  <2>1. s \in StateRecord
    BY DEF Types
  <2> HIDE DEF s
  <2>2. s.cnt \in [Events -> 0 .. CountCap] /\ s.last \in Sequences /\ s.i \in Nat
    BY <2>1 DEF StateRecord
  <2>3. s.cnt["TS2"] \in Nat /\ s.cnt["D0"] \in Nat
    BY <2>2 DEF Events, CountCap
  <2>4. s.last.n_fts \in 0 .. 255
    BY <2>2 DEF Sequences
  <2> QED
    BY <2>1, <2>2, <2>3, <2>4
<1>2. CASE ConfigComplete(n)
  <2> DEFINE j == IF s.seen THEN Least(s.i + 1, LoopCap(s)) ELSE s.i
             got == IF BothWrong(s) THEN 0 ELSE s.cnt["TS2"]
             b == got > 0
             r == Reset(At(s, "Idle"), {"D0"})
             t == [r EXCEPT !.tx_n_fts = s.last.n_fts]
             v == [s EXCEPT !.i = j]
             u == [v EXCEPT !.seen = b]
  <2>1. s.pc = "Complete" /\ ((got >= 8 /\ Go(n, t)) \/ Go(n, u))
    BY <1>2 DEF ConfigComplete, Ready
  <2>2. j \in Nat /\ b \in BOOLEAN
    BY <1>1, CountedNat
  <2>3. got >= 8 => s.cnt["TS2"] > 0
    BY <1>1
  <2> HIDE DEF j, b, got
  <2>4. r \in StateRecord /\ r.pc = "Idle" /\ r.cnt["D0"] = 0
    BY <1>1, Names, Entered DEF Config, Near, Events
  <2> HIDE DEF r
  <2>5. t.pc = r.pc /\ t.cnt = r.cnt
    BY <2>4, Zenon DEF StateRecord
  <2>6. v \in StateRecord /\ v.pc = s.pc
    BY <1>1, <2>2, LoopNear DEF Near
  <2> HIDE DEF v
  <2>7. u.pc = s.pc
    BY <2>2, <2>6, SeenNear
  <2> HIDE DEF t, u
  <2> QED
    BY <2>1, <2>3, <2>4, <2>5, <2>7, GoIs DEF Stays, GoesOn
<1>3. CASE ConfigIdle(n)
  <2> DEFINE j == IF s.cnt["D0"] > 0 THEN Least(s.i + 1, LoopCap(s)) ELSE s.i
             t == At(s, "L0")
             u == [s EXCEPT !.i = j]
  <2>1. s.pc = "Idle"
    BY <1>3 DEF ConfigIdle, Ready
  <2>2. IF j >= 16 /\ s.cnt["D0"] >= 8 THEN Go(n, t) ELSE Go(n, u)
    BY <1>3, Zenon DEF ConfigIdle
  <2>3. j \in Nat
    BY <1>1, CountedNat
  <2> HIDE DEF j
  <2>4. t.pc = "L0" /\ u.pc = s.pc
    BY <1>1, <2>3, Names, AtNear, LoopNear DEF Config
  <2> HIDE DEF t, u
  <2>5. CASE s.cnt["D0"] >= 8 /\ Go(n, t)
    BY <1>1, <2>1, <2>4, <2>5, GoIs DEF GoesOn
  <2>6. CASE Go(n, u)
    BY <2>1, <2>4, <2>6, GoIs DEF Stays
  <2> QED
    BY <2>2, <2>5, <2>6
<1>4. CASE LinkUp(n)
  BY <1>4, GoIs DEF LinkUp, Ready, Stays
<1> QED
  BY <1>2, <1>3, <1>4

\* Wherever it goes, what it has received is the same, and a counter is
\* left alone or reset.
Advances(s, t) ==
  /\ t.last = s.last /\ \A e \in Events : t.cnt[e] \in {0, s.cnt[e]}
  /\ t.pc \in UpStates => t.up
  /\ Stays(s, t) \/ GoesOn(s, t)

LEMMA StepAdvances ==
  ASSUME Types, CInv, NEW n \in Node, Step(n), ~Configure(n),
         st[n].done = {} => st[n].pc \in Plain /\ st[n].up
  PROVE  \E t \in StateRecord :
           /\ Go(n, t) /\ Moves(st[n], t) /\ st[n].done \subseteq t.done
           /\ t.done = {} => Advances(st[n], t) /\ t.pc \in Plain /\ t.up
<1>1. Sound(st[n])
  BY SoundStates DEF CInv
<1>2. PICK t \in StateRecord : Go(n, t) /\ Moves(st[n], t)
  BY <1>1, StepMoves
<1>3. /\ st[n].done \subseteq t.done /\ t.last = st[n].last
      /\ \A e \in Events : t.cnt[e] \in {0, st[n].cnt[e]}
      /\ t.pc \in UpStates => t.up
  BY <1>2 DEF Moves, Keeps
<1>4. st'[n] = t
  BY <1>2, GoIs
<1>5. ASSUME t.done = {}
      PROVE  (Stays(st[n], t) \/ GoesOn(st[n], t)) /\ t.pc \in Plain /\ t.up
  <2>1. st[n].done = {} /\ st[n].pc \in Plain /\ st[n].up
    BY <1>3, <1>5
  <2>2. /\ ~BackToDetect(n) /\ ~LeaveCompliance(n) /\ ~DisableTs(n) /\ ~DisableEios(n)
        /\ ~DisableWait(n) /\ ~LoopbackEntry(n) /\ ~LoopbackActive(n) /\ ~LoopbackEios(n)
        /\ ~LoopbackWait(n)
    BY <2>1 DEF Plain, Config, BackToDetect, LeaveCompliance, DisableTs, DisableEios,
         DisableWait, LoopbackEntry, LoopbackActive, LoopbackEios, LoopbackWait, Repeat, Ready
  <2>3. Stays(st[n], t) \/ GoesOn(st[n], t)
    BY <1>1, <1>4, <1>5, <2>1, <2>2, Untried, UntriedConfig, UntriedLanes, UntriedEnd DEF Step
  <2>4. t.pc \in Plain
    BY <2>1, <2>3 DEF Stays, GoesOn, Plain, Config
  <2>5. t.up
    <3>1. CASE t.pc \in UpStates
      BY <1>3, <3>1
    <3>2. CASE t.pc \notin UpStates
      <4>1. t.pc \in {"Setup", "Quiet"} /\ st[n].pc \in {"Setup", "Quiet"}
        BY <2>3, <2>4, <3>2 DEF Plain, UpStates, Stays, GoesOn
      <4>2. InitLink(n) \/ DetectQuiet(n)
        BY <2>2, <4>1 DEF Step, LeaveCompliance, PollingActive, PollingConfig, LinkwidthStart,
             LanenumWait, LanenumAccept, ConfigComplete, ConfigIdle, LinkUp, Ready
      <4>3. t.pc # "Setup"
        <5>1. ASSUME InitLink(n), st[n].pc = "Setup"
              PROVE  t.pc = "Quiet"
          BY <1>4, <5>1, Names, AtNear, GoIs DEF InitLink, Detect, Types
        <5> QED
          BY <2>3, <4>1, <4>2, <5>1 DEF InitLink, DetectQuiet, Ready, Stays, GoesOn
      <4> QED
        BY <1>1, <1>4, <1>5, <2>1, <4>1, <4>2, <4>3, Untried
    <3> QED
      BY <3>1, <3>2
  <2> QED
    BY <2>3, <2>4, <2>5
<1> QED
  BY <1>2, <1>3, <1>5 DEF Advances
-----------------------------------------------------------------------------
(* How far a step takes a node, and what it sends then.                    *)

LEMMA Ranks ==
  /\ Rank["Setup"] = 0 /\ Rank["Quiet"] = 0 /\ Rank["PollActive"] = 0
  /\ Rank["PollConfig"] = 1 /\ Rank["Start"] = 2 /\ Rank["Wait"] = 3 /\ Rank["Accept"] = 4
  /\ Rank["Complete"] = 5 /\ Rank["Idle"] = 6 /\ Rank["L0"] = 7
<1>1. {"Setup", "Quiet", "PollActive", "PollConfig", "Start", "Wait", "Accept", "Complete",
       "Idle", "L0"} \subseteq States
  BY DEF States, Training
<1> QED
  BY <1>1, Zenon DEF Rank

LEMMA StepsOf ==
  ASSUME NEW s, s.pc \in Plain
  PROVE  /\ Steps(s) \in 0 .. 7
         /\ Steps(s) = 0 <=> s.pc \in {"Setup", "Quiet", "PollActive"}
         /\ Steps(s) = 1 <=> s.pc = "PollConfig"
         /\ Steps(s) = 2 <=> s.pc = "Start"
         /\ Steps(s) = 3 <=> s.pc = "Wait"
         /\ Steps(s) = 4 <=> s.pc = "Accept"
         /\ Steps(s) = 5 <=> s.pc = "Complete"
         /\ Steps(s) = 6 <=> s.pc = "Idle"
         /\ Steps(s) = 7 <=> s.pc = "L0"
         /\ Steps(s) > 0 => Talks(s)
<1>1. s.pc \in {"Setup", "Quiet", "PollActive", "PollConfig", "Start", "Wait", "Accept",
                "Complete", "Idle", "L0"}
  BY DEF Plain, Config
<1> QED
  BY <1>1, Ranks DEF Steps, Talks

LEMMA Onward ==
  ASSUME NEW s, NEW t, s.pc \in Plain, t.pc \in Plain, Advances(s, t)
  PROVE  /\ Steps(s) <= Steps(t) /\ Steps(t) <= Steps(s) + 1
         /\ Talks(s) => Talks(t)
         /\ Steps(s) \in 0 .. 7 /\ Steps(t) \in 0 .. 7
<1>1. Stays(s, t) \/ GoesOn(s, t)
  BY DEF Advances
<1>2. Talks(s) => Talks(t)
  BY <1>1 DEF Stays, GoesOn, Talks
<1>3. Steps(s) <= Steps(t) /\ Steps(t) <= Steps(s) + 1
  <2>1. CASE Stays(s, t)
    <3>1. Steps(s) = Steps(t)
      BY <2>1 DEF Stays, Steps
    <3> QED
      BY <3>1, StepsOf
  <2>2. CASE GoesOn(s, t)
    BY <2>2, Ranks DEF GoesOn, Steps
  <2> QED
    BY <1>1, <2>1, <2>2
<1> QED
  BY <1>2, <1>3, StepsOf

\* What a node sends in a state it has got to.
SendsAt(os, t) ==
  /\ Shows(os, t)
  /\ IsTs(os) /\ Steps(t) >= 2 => os.link # PAD
  /\ IsTs(os) /\ Steps(t) >= 3 => os.lane = 0
  /\ os.id = "D0" /\ Talks(t) => Steps(t) >= 6
  /\ t.pc \in {"Wait", "Accept"} => os.id = "TS1"
  /\ IsTs(os) => t.pc \in Training

LEMMA SendsPlain ==
  ASSUME NEW t \in StateRecord, t.pc \in Plain
  PROVE  SendsAt(Sent(t), t) /\ Length(t) = IF t.pc \in Training THEN TsTime ELSE 1
<1>1. t.cfg.linknum # PAD
  <2>1. t.cfg \in ConfigRecord
    BY DEF StateRecord
  <2>2. t.cfg.linknum \in 0 .. 255
    BY <2>1 DEF ConfigRecord
  <2> QED
    BY <2>2 DEF PAD
<1>2. PAD # 0
  BY DEF PAD
<1>3. CASE t.pc \in {"PollActive", "PollConfig", "Start", "Wait", "Accept", "Complete"}
  <2> DEFINE id == IF t.pc \in {"PollConfig", "Complete"} THEN "TS2" ELSE "TS1"
             o == Sent(t)
  <2>1. o = Ts(id, LaneSent(t), LinkSent(t), t.cfg.n_fts, CtlSent(t))
    BY <1>3 DEF Sent, Training, TestTs
  <2>2. o.id = id /\ o.lane = LaneSent(t) /\ o.link = LinkSent(t)
    BY <2>1 DEF Ts
  <2> HIDE DEF o
  <2>3. /\ o.lane = IF t.pc \in {"Wait", "Accept", "Complete"} THEN 0 ELSE PAD
        /\ o.link = IF t.pc \in {"PollActive", "PollConfig"} THEN PAD ELSE t.cfg.linknum
    BY <1>3, <2>2 DEF LaneSent, LinkSent, TestTs
  <2>4. IsTs(o) /\ o.id # "D0" /\ t.pc \in Training
    BY <1>3, <2>2 DEF IsTs, Training
  <2>5. Shows(o, t)
    BY <1>1, <1>2, <1>3, <2>2, <2>3, Ranks DEF Shows, Steps, Talks
  <2>6. SendsAt(o, t)
    BY <1>1, <1>2, <1>3, <2>2, <2>3, <2>4, <2>5, Ranks DEF SendsAt, Steps
  <2>7. Length(t) = TsTime
    BY <1>3 DEF Length, Training, TestTs
  <2> QED
    BY <2>4, <2>6, <2>7 DEF o
<1>4. CASE t.pc \in {"Setup", "Quiet", "Idle", "L0"}
  <2> DEFINE o == Sent(t)
  <2>1. t.pc \notin Training /\ t.pc \notin Training \cup TestTs
    BY <1>4 DEF Training, TestTs
  <2>2. o = Blank("D0") /\ Length(t) = 1
    BY <1>4, <2>1 DEF Sent, Length, Training, TestTs
  <2>3. o.id = "D0"
    BY <2>2 DEF Blank, Ts
  <2> HIDE DEF o
  <2>4. Shows(o, t) /\ SendsAt(o, t)
    BY <1>4, <2>3, Ranks DEF Shows, SendsAt, IsTs, Steps, Talks
  <2> QED
    BY <2>1, <2>2, <2>4 DEF o
<1> QED
  BY <1>3, <1>4 DEF Plain, Config

\* What takes a receiver on, and what it then has not counted yet.
LEMMA Reasons ==
  ASSUME NEW r \in StateRecord, NEW t, r.pc \in Plain, t.pc \in Plain, Advances(r, t)
  PROVE  /\ t.last = r.last
         /\ Heard(t) => Heard(r)
         /\ t.cnt["TS2"] > 0 => r.cnt["TS2"] > 0
         /\ Steps(t) >= 1 => Steps(r) >= 1 \/ Heard(r)
         /\ Steps(t) >= 2 => Steps(r) >= 2 \/ r.cnt["TS2"] > 0
         /\ Steps(t) >= 3 => Steps(r) >= 3 \/ r.last.link # PAD
         /\ Steps(t) >= 4 => Steps(r) >= 4 \/ r.last.lane = 0
         /\ Steps(t) >= 5 => Steps(r) >= 5 \/ (r.pc = "Accept" /\ r.cnt["TS1"] >= 2)
         /\ Steps(t) >= 6 => Steps(r) >= 6 \/ (r.pc = "Complete" /\ r.cnt["TS2"] > 0)
         /\ Steps(t) >= 7 => Steps(r) >= 7 \/ (r.pc = "Idle" /\ r.cnt["D0"] > 0)
         /\ t.pc = "Complete" /\ t.cnt["TS2"] > 0 => r.pc = "Complete" /\ r.cnt["TS2"] > 0
         /\ t.pc = "Idle" /\ t.cnt["D0"] > 0 => r.pc = "Idle" /\ r.cnt["D0"] > 0
<1>1. r.cnt["TS1"] \in Nat /\ r.cnt["TS2"] \in Nat /\ r.cnt["D0"] \in Nat
  BY DEF StateRecord, Events, CountCap
<1>2. /\ t.last = r.last /\ t.cnt["TS1"] \in {0, r.cnt["TS1"]}
      /\ t.cnt["TS2"] \in {0, r.cnt["TS2"]} /\ t.cnt["D0"] \in {0, r.cnt["D0"]}
      /\ Stays(r, t) \/ GoesOn(r, t)
  BY DEF Advances, Events
<1>3. (Heard(t) => Heard(r)) /\ (t.cnt["TS2"] > 0 => r.cnt["TS2"] > 0)
  BY <1>1, <1>2 DEF Heard
<1>4. CASE Stays(r, t)
  <2>1. t.pc = r.pc /\ Steps(t) = Steps(r)
    BY <1>4 DEF Stays, Steps
  <2> QED
    BY <1>1, <1>2, <1>3, <2>1
<1>5. CASE GoesOn(r, t)
  <2>1. /\ t.pc = "Complete" => t.cnt["TS2"] = 0
        /\ t.pc = "Idle" => t.cnt["D0"] = 0
    BY <1>5 DEF GoesOn
  <2>2. /\ Steps(t) >= 1 => Steps(r) >= 1 \/ Heard(r)
        /\ Steps(t) >= 2 => Steps(r) >= 2 \/ r.cnt["TS2"] > 0
        /\ Steps(t) >= 3 => Steps(r) >= 3 \/ r.last.link # PAD
        /\ Steps(t) >= 4 => Steps(r) >= 4 \/ r.last.lane = 0
        /\ Steps(t) >= 5 => Steps(r) >= 5 \/ (r.pc = "Accept" /\ r.cnt["TS1"] >= 2)
        /\ Steps(t) >= 6 => Steps(r) >= 6 \/ (r.pc = "Complete" /\ r.cnt["TS2"] > 0)
        /\ Steps(t) >= 7 => Steps(r) >= 7 \/ (r.pc = "Idle" /\ r.cnt["D0"] > 0)
    BY <1>5, Ranks DEF GoesOn, Steps
  <2> QED
    BY <1>2, <1>3, <2>1, <2>2
<1> QED
  BY <1>2, <1>4, <1>5
-----------------------------------------------------------------------------
(* The order of what is on a wire and what its receiver knows.             *)

\* The three changes of a wire: nothing of it moves but the times, ...
SameOrder(w, v) == Len(v) = Len(w) /\ \A k \in 1 .. Len(w) : v[k].os = w[k].os

\* ... its sender puts something behind it, ...
LEMMA SendWire ==
  ASSUME NEW w \in Seq(Transit), NEW e \in Transit, NEW s, NEW t,
         s.pc \in Plain, t.pc \in Plain, Advances(s, t), SendsAt(e.os, t), WireInv(w, s)
  PROVE  WireInv(Append(w, e), t)
<1> DEFINE v == Append(w, e)
           m == Len(w) + 1
<1>1. /\ Len(w) \in Nat /\ Len(v) = m /\ v[m] = e
      /\ \A k \in 1 .. Len(w) : v[k] = w[k]
  BY Sends
<1> HIDE DEF v
<1>2. /\ Steps(s) <= Steps(t) /\ (Talks(s) => Talks(t))
      /\ Steps(s) \in 0 .. 7 /\ Steps(t) \in 0 .. 7
  BY Onward
<1>3. ASSUME NEW k \in 1 .. m
      PROVE  Shows(v[k].os, t)
  <2>1. CASE k = m
    BY <1>1, <2>1 DEF SendsAt
  <2>2. CASE k # m
    <3>1. k \in 1 .. Len(w) /\ v[k] = w[k]
      BY <1>1, <2>2
    <3>2. Shows(w[k].os, s)
      BY <3>1 DEF WireInv
    <3> QED
      BY <1>2, <3>1, <3>2 DEF Shows
  <2> QED
    BY <2>1, <2>2
<1>4. ASSUME NEW j \in 1 .. m, NEW k \in 1 .. m, j < k
      PROVE  Leads(v[j].os, v[k].os, t)
  <2>1. j \in 1 .. Len(w) /\ v[j] = w[j]
    BY <1>1, <1>4
  <2>2. Shows(w[j].os, s)
    BY <2>1 DEF WireInv
  <2>3. CASE k = m
    BY <1>1, <1>2, <2>1, <2>2, <2>3 DEF Leads, SendsAt, Shows
  <2>4. CASE k # m
    <3>1. k \in 1 .. Len(w) /\ v[k] = w[k]
      BY <1>1, <2>4
    <3>2. Leads(w[j].os, w[k].os, s)
      BY <1>4, <2>1, <3>1 DEF WireInv
    <3> QED
      BY <1>2, <2>1, <3>1, <3>2 DEF Leads
  <2> QED
    BY <2>3, <2>4
<1> QED
  BY <1>1, <1>3, <1>4 DEF WireInv, v

LEMMA SendKnows ==
  ASSUME NEW w \in Seq(Transit), NEW e \in Transit, NEW s, NEW t, NEW r,
         s.pc \in Plain, t.pc \in Plain, Advances(s, t), SendsAt(e.os, t), KnowsInv(w, s, r)
  PROVE  KnowsInv(Append(w, e), t, r)
<1> DEFINE v == Append(w, e)
           m == Len(w) + 1
<1>1. /\ Len(w) \in Nat /\ Len(v) = m /\ v[m] = e
      /\ \A k \in 1 .. Len(w) : v[k] = w[k]
  BY Sends
<1> HIDE DEF v
<1>2. /\ Steps(s) <= Steps(t) /\ (Talks(s) => Talks(t))
      /\ Steps(s) \in 0 .. 7 /\ Steps(t) \in 0 .. 7
  BY Onward
<1>3. \A k \in 1 .. m : k = m \/ k \in 1 .. Len(w)
  BY <1>1
<1>4. r.last.link # PAD =>
        Steps(t) >= 2 /\ \A k \in 1 .. m : IsTs(v[k].os) => v[k].os.link # PAD
  BY <1>1, <1>2, <1>3 DEF KnowsInv, SendsAt
<1>5. r.last.lane = 0 =>
        Steps(t) >= 3 /\ \A k \in 1 .. m : IsTs(v[k].os) => v[k].os.lane = 0
  BY <1>1, <1>2, <1>3 DEF KnowsInv, SendsAt
<1>6. Steps(r) >= 1 \/ Heard(r) =>
        Talks(t) /\ \A k \in 1 .. m : v[k].os.id = "D0" => Steps(t) >= 6
  BY <1>1, <1>2, <1>3 DEF KnowsInv, SendsAt
<1>7. /\ r.cnt["TS2"] > 0 => Steps(t) >= 1
      /\ r.pc = "Complete" /\ r.cnt["TS2"] > 0 => Steps(t) >= 5
      /\ r.pc = "Idle" /\ r.cnt["D0"] > 0 => Steps(t) >= 6
  BY <1>2 DEF KnowsInv
<1>8. (Steps(r) >= 3 => r.last.link # PAD) /\ (Steps(r) >= 4 => r.last.lane = 0)
  BY DEF KnowsInv
<1> QED
  BY <1>1, <1>4, <1>5, <1>6, <1>7, <1>8 DEF KnowsInv, v

\* ... and its receiver takes the first off it.
LEMMA HearWire ==
  ASSUME NEW w \in Seq(Transit), w # <<>>, NEW s, WireInv(w, s)
  PROVE  WireInv(Tail(w), s)
<1> DEFINE v == Tail(w)
<1>1. /\ Len(w) \in Nat \ {0} /\ Len(v) = Len(w) - 1
      /\ \A k \in 1 .. Len(w) - 1 : v[k] = w[k + 1]
  BY Receives
<1> HIDE DEF v
<1>2. \A k \in 1 .. Len(v) : k + 1 \in 1 .. Len(w) /\ v[k] = w[k + 1]
  BY <1>1
<1>3. \A k \in 1 .. Len(v) : Shows(v[k].os, s)
  BY <1>2, Zenon DEF WireInv
<1>4. ASSUME NEW j \in 1 .. Len(v), NEW k \in 1 .. Len(v), j < k
      PROVE  Leads(v[j].os, v[k].os, s)
  <2>1. j + 1 \in 1 .. Len(w) /\ k + 1 \in 1 .. Len(w) /\ j + 1 < k + 1
        /\ v[j] = w[j + 1] /\ v[k] = w[k + 1]
    BY <1>1, <1>2, <1>4
  <2>2. Leads(w[j + 1].os, w[k + 1].os, s)
    BY <2>1, Zenon DEF WireInv
  <2> QED
    BY <2>1, <2>2
<1> QED
  BY <1>3, <1>4 DEF WireInv, v

LEMMA HearKnows ==
  ASSUME NEW w \in Seq(Transit), w # <<>>, NEW s, s.pc \in Plain, NEW r \in StateRecord,
         r.pc \in Plain, WireInv(w, s), KnowsInv(w, s, r)
  PROVE  KnowsInv(Tail(w), s, Count(r, Head(w).os))
<1> DEFINE v == Tail(w)
           os == Head(w).os
           c == Count(r, os)
<1>1. /\ Len(w) \in Nat \ {0} /\ Len(v) = Len(w) - 1 /\ Head(w) = w[1] /\ Head(w) \in Transit
      /\ \A k \in 1 .. Len(w) - 1 : v[k] = w[k + 1]
  BY Receives
<1>2. os \in Sequences
  BY <1>1 DEF Transit
<1>3. /\ c.pc = r.pc /\ c.last = (IF IsTs(os) THEN os ELSE r.last)
      /\ \A e \in Events \ {os.id} : c.cnt[e] = r.cnt[e]
  BY <1>2, Counts
<1>4. Shows(os, s)
  <2>1. 1 \in 1 .. Len(w) /\ w[1].os = os
    BY <1>1
  <2> QED
    BY <2>1 DEF WireInv
<1>5. ASSUME NEW k \in 1 .. Len(v)
      PROVE  k + 1 \in 1 .. Len(w) /\ v[k] = w[k + 1] /\ Leads(os, v[k].os, s)
  <2>1. 1 \in 1 .. Len(w) /\ k + 1 \in 1 .. Len(w) /\ 1 < k + 1 /\ v[k] = w[k + 1] /\ w[1].os = os
    BY <1>1
  <2>2. Leads(w[1].os, w[k + 1].os, s)
    BY <2>1 DEF WireInv
  <2> QED
    BY <2>1, <2>2
<1>6. Steps(c) = Steps(r) /\ Steps(s) \in 0 .. 7 /\ Steps(r) \in 0 .. 7
  BY <1>3, StepsOf DEF Steps
<1> HIDE DEF v, os, c
<1>7. c.last.link # PAD =>
        Steps(s) >= 2 /\ \A k \in 1 .. Len(v) : IsTs(v[k].os) => v[k].os.link # PAD
  <2>1. CASE IsTs(os)
    BY <1>3, <1>4, <1>5, <2>1 DEF Shows, Leads
  <2>2. CASE ~IsTs(os)
    BY <1>3, <1>5, <2>2 DEF KnowsInv
  <2> QED
    BY <2>1, <2>2
<1>8. c.last.lane = 0 =>
        Steps(s) >= 3 /\ \A k \in 1 .. Len(v) : IsTs(v[k].os) => v[k].os.lane = 0
  <2>1. CASE IsTs(os)
    BY <1>3, <1>4, <1>5, <2>1 DEF Shows, Leads
  <2>2. CASE ~IsTs(os)
    BY <1>3, <1>5, <2>2 DEF KnowsInv
  <2> QED
    BY <2>1, <2>2
<1>9. Steps(c) >= 1 \/ Heard(c) =>
        Talks(s) /\ \A k \in 1 .. Len(v) : v[k].os.id = "D0" => Steps(s) >= 6
  <2>1. CASE IsTs(os)
    BY <1>4, <1>5, <2>1 DEF Shows, Leads
  <2>2. CASE ~IsTs(os)
    <3>1. c.cnt["TS1"] = r.cnt["TS1"] /\ c.cnt["TS2"] = r.cnt["TS2"]
      BY <1>3, <2>2 DEF IsTs, Events
    <3> QED
      BY <1>5, <1>6, <3>1 DEF KnowsInv, Heard
  <2> QED
    BY <2>1, <2>2
<1>10. c.cnt["TS2"] > 0 => Steps(s) >= 1
  <2>1. CASE os.id = "TS2"
    BY <1>4, <2>1 DEF Shows
  <2>2. CASE os.id # "TS2"
    BY <1>3, <2>2 DEF KnowsInv, Events
  <2> QED
    BY <2>1, <2>2
<1>11. 1 \in 1 .. Len(w) /\ w[1].os = os
  BY <1>1 DEF os
<1>12. Steps(c) >= 3 => c.last.link # PAD
  BY <1>3, <1>6, <1>11 DEF KnowsInv
<1>13. Steps(c) >= 4 => c.last.lane = 0
  BY <1>3, <1>6, <1>11 DEF KnowsInv
<1>14. ASSUME c.pc = "Complete", c.cnt["TS2"] > 0
       PROVE  Steps(s) >= 5
  <2>1. CASE os.id = "TS2"
    <3>1. Steps(r) >= 3 /\ IsTs(os)
      BY <1>3, <1>14, <2>1, Ranks DEF Steps, IsTs
    <3>2. os.link # PAD
      BY <1>11, <3>1 DEF KnowsInv
    <3> QED
      BY <1>4, <2>1, <3>2 DEF Shows
  <2>2. CASE os.id # "TS2"
    BY <1>3, <1>14, <2>2 DEF KnowsInv, Events
  <2> QED
    BY <2>1, <2>2
<1>15. ASSUME c.pc = "Idle", c.cnt["D0"] > 0
       PROVE  Steps(s) >= 6
  <2>1. CASE os.id = "D0"
    <3>1. Steps(r) >= 1
      BY <1>3, <1>15, Ranks DEF Steps
    <3> QED
      BY <1>11, <2>1, <3>1 DEF KnowsInv
  <2>2. CASE os.id # "D0"
    BY <1>3, <1>15, <2>2 DEF KnowsInv, Events
  <2> QED
    BY <2>1, <2>2
<1> QED
  BY <1>7, <1>8, <1>9, <1>10, <1>12, <1>13, <1>14, <1>15 DEF KnowsInv, v, c, os

\* The receiver goes on.
LEMMA LookKnows ==
  ASSUME NEW w, NEW s, NEW r \in StateRecord, NEW t, r.pc \in Plain, t.pc \in Plain,
         Advances(r, t), KnowsInv(w, s, r)
  PROVE  KnowsInv(w, s, t)
<1>1. Steps(r) \in 0 .. 7 /\ Steps(t) \in 0 .. 7
  BY StepsOf
<1>2. /\ t.last = r.last
      /\ Heard(t) => Heard(r)
      /\ t.cnt["TS2"] > 0 => r.cnt["TS2"] > 0
      /\ Steps(t) >= 1 => Steps(r) >= 1 \/ Heard(r)
      /\ Steps(t) >= 3 => Steps(r) >= 3 \/ r.last.link # PAD
      /\ Steps(t) >= 4 => Steps(r) >= 4 \/ r.last.lane = 0
      /\ t.pc = "Complete" /\ t.cnt["TS2"] > 0 => r.pc = "Complete" /\ r.cnt["TS2"] > 0
      /\ t.pc = "Idle" /\ t.cnt["D0"] > 0 => r.pc = "Idle" /\ r.cnt["D0"] > 0
  BY Reasons
<1> QED
  BY <1>2, Zenon DEF KnowsInv

\* Whatever step the receiver takes to, the sender is there or one behind,
\* but for the one out of Lanenum.Accept.
LEMMA LookTogether ==
  ASSUME NEW w, NEW s, NEW r \in StateRecord, NEW t, s.pc \in Plain, r.pc \in Plain, t.pc \in Plain,
         Advances(r, t), KnowsInv(w, s, r), Together(r, s),
         ~(r.pc = "Accept" /\ r.cnt["TS1"] >= 2 /\ s.pc = "Wait")
  PROVE  Together(t, s)
<1>1. Steps(s) \in 0 .. 7 /\ Steps(r) \in 0 .. 7 /\ Steps(t) \in 0 .. 7 /\ Steps(t) <= Steps(r) + 1
  BY Onward, StepsOf
<1>2. /\ Steps(t) >= 2 => Steps(r) >= 2 \/ r.cnt["TS2"] > 0
      /\ Steps(t) >= 3 => Steps(r) >= 3 \/ r.last.link # PAD
      /\ Steps(t) >= 4 => Steps(r) >= 4 \/ r.last.lane = 0
      /\ Steps(t) >= 5 => Steps(r) >= 5 \/ (r.pc = "Accept" /\ r.cnt["TS1"] >= 2)
      /\ Steps(t) >= 6 => Steps(r) >= 6 \/ (r.pc = "Complete" /\ r.cnt["TS2"] > 0)
      /\ Steps(t) >= 7 => Steps(r) >= 7 \/ (r.pc = "Idle" /\ r.cnt["D0"] > 0)
  BY Reasons
<1>3. /\ r.cnt["TS2"] > 0 => Steps(s) >= 1
      /\ r.last.link # PAD => Steps(s) >= 2
      /\ r.last.lane = 0 => Steps(s) >= 3
      /\ r.pc = "Complete" /\ r.cnt["TS2"] > 0 => Steps(s) >= 5
      /\ r.pc = "Idle" /\ r.cnt["D0"] > 0 => Steps(s) >= 6
  BY DEF KnowsInv
<1>4. r.pc = "Accept" /\ r.cnt["TS1"] >= 2 => Steps(s) >= 4
  <2>1. r.pc = "Accept" => Steps(r) = 4
    BY Ranks DEF Steps
  <2>2. Steps(r) = 4 => Steps(s) >= 3
    BY <1>1, <1>3 DEF KnowsInv
  <2> QED
    BY <1>1, <2>1, <2>2, StepsOf
<1> QED
  BY <1>1, <1>2, <1>3, <1>4 DEF Together
-----------------------------------------------------------------------------
(* The times of what is on a wire.                                         *)

LEMMA Times ==
  ASSUME NEW w \in Seq(Transit)
  PROVE  Len(w) \in Nat /\ \A k \in 1 .. Len(w) : w[k].at \in Nat
<1>1. Len(w) \in Nat /\ \A k \in 1 .. Len(w) : w[k] \in Transit
  BY LenProperties, ElementOfSeq
<1> QED
  BY <1>1 DEF Transit

LEMMA SendPaced ==
  ASSUME NEW w \in Seq(Transit), NEW e \in Transit, NEW l \in Nat \ {0}, NEW s, NEW t,
         NEW r, NEW dr, NEW d \in Nat, d = (IF t.pc \in Training THEN TsTime ELSE 1),
         e.at = d + l, SendsAt(e.os, t), PacedInv(w, s, 0, l, r, dr)
  PROVE  PacedInv(Append(w, e), t, d, l, r, dr)
<1> DEFINE v == Append(w, e)
           m == Len(w) + 1
<1>1. /\ Len(w) \in Nat /\ Len(v) = m /\ v[m] = e
      /\ \A k \in 1 .. Len(w) : v[k] = w[k] /\ w[k].at \in Nat
  <2>1. \A k \in 1 .. Len(w) : w[k].at \in Nat
    BY Times
  <2> QED
    BY <2>1, Sends
<1> HIDE DEF v
<1>2. TsTime \in Nat \ {0}
  BY TimeAssumption
<1>3. \A k \in 1 .. m : k = m \/ k \in 1 .. Len(w)
  BY <1>1
<1>4. ASSUME NEW k \in 1 .. m
      PROVE  v[k].at <= d + l /\ (v[k].at = 0 /\ r.pc \in Training => dr < TsTime)
  <2>1. CASE k = m
    BY <1>1, <2>1
  <2>2. CASE k \in 1 .. Len(w)
    <3>1. v[k] = w[k] /\ w[k].at \in Nat /\ w[k].at <= 0 + l
      BY <1>1, <2>2 DEF PacedInv
    <3>2. w[k].at = 0 /\ r.pc \in Training => dr < TsTime
      BY <2>2 DEF PacedInv
    <3> QED
      BY <3>1, <3>2
  <2> QED
    BY <1>3, <2>1, <2>2
<1>5. ASSUME NEW j \in 1 .. m, NEW k \in 1 .. m, j < k
      PROVE  v[j].at + Span(v[k].os) <= v[k].at
  <2>1. j \in 1 .. Len(w) /\ v[j] = w[j] /\ w[j].at \in Nat /\ w[j].at <= 0 + l
    BY <1>1, <1>5 DEF PacedInv
  <2>2. CASE k = m
    <3>1. Span(e.os) <= d /\ Span(e.os) \in Nat
      BY <1>2 DEF SendsAt, Span
    <3> QED
      BY <1>1, <2>1, <2>2, <3>1
  <2>3. CASE k \in 1 .. Len(w)
    BY <1>1, <1>5, <2>1, <2>3 DEF PacedInv
  <2> QED
    BY <1>3, <2>2, <2>3
<1>6. t.pc \in Training => d <= TsTime
  BY <1>2
<1> QED
  BY <1>1, <1>4, <1>5, <1>6 DEF PacedInv, v

LEMMA LookPaced ==
  ASSUME NEW w \in Seq(Transit), NEW s, NEW ds, NEW l, NEW r, NEW dr, NEW t, NEW d,
         w # <<>> => Head(w).at > 0, PacedInv(w, s, ds, l, r, dr)
  PROVE  PacedInv(w, s, ds, l, t, d) /\ \A k \in 1 .. Len(w) : w[k].at > 0
<1>1. \A k \in 1 .. Len(w) : w[k].at \in Nat
  BY Times
<1>2. ASSUME NEW k \in 1 .. Len(w)
      PROVE  w[k].at > 0
  <2>1. w # <<>> /\ Len(w) \in Nat /\ Head(w) = w[1] /\ 1 \in 1 .. Len(w)
    BY EmptySeq, LenProperties
  <2>2. CASE k = 1
    BY <2>1, <2>2
  <2>3. CASE k # 1
    <3>1. w[1].at + Span(w[k].os) <= w[k].at
      BY <2>1, <2>3 DEF PacedInv
    <3>2. Span(w[k].os) \in Nat \ {0}
      BY TimeAssumption DEF Span
    <3> QED
      BY <1>1, <2>1, <3>1, <3>2
  <2> QED
    BY <2>2, <2>3
<1>3. \A k \in 1 .. Len(w) : w[k].at # 0
  BY <1>1, <1>2
<1> QED
  BY <1>2, <1>3, Zenon DEF PacedInv

LEMMA HearPaced ==
  ASSUME NEW w \in Seq(Transit), w # <<>>, NEW s, NEW ds, NEW l, NEW r, NEW dr, NEW c,
         c.pc = r.pc, PacedInv(w, s, ds, l, r, dr)
  PROVE  PacedInv(Tail(w), s, ds, l, c, dr)
<1> DEFINE v == Tail(w)
<1>1. /\ Len(w) \in Nat \ {0} /\ Len(v) = Len(w) - 1
      /\ \A k \in 1 .. Len(w) - 1 : v[k] = w[k + 1]
  BY Receives
<1> HIDE DEF v
<1>2. \A k \in 1 .. Len(v) : k + 1 \in 1 .. Len(w) /\ v[k] = w[k + 1]
  BY <1>1
<1>3. \A k \in 1 .. Len(v) : /\ v[k].at <= ds + l
                             /\ v[k].at = 0 /\ c.pc \in Training => dr < TsTime
  BY <1>2, Zenon DEF PacedInv
<1>4. ASSUME NEW j \in 1 .. Len(v), NEW k \in 1 .. Len(v), j < k
      PROVE  v[j].at + Span(v[k].os) <= v[k].at
  <2>1. j + 1 < k + 1 /\ j + 1 \in 1 .. Len(w) /\ k + 1 \in 1 .. Len(w)
        /\ v[j] = w[j + 1] /\ v[k] = w[k + 1]
    BY <1>1, <1>2, <1>4
  <2>2. w[j + 1].at + Span(w[k + 1].os) <= w[k + 1].at
    BY <2>1, Zenon DEF PacedInv
  <2> QED
    BY <2>1, <2>2
<1>5. s.pc \in Training => ds <= TsTime
  BY DEF PacedInv
<1> QED
  BY <1>3, <1>4, <1>5 DEF PacedInv, v

LEMMA SendSteady ==
  ASSUME NEW w \in Seq(Transit), NEW e \in Transit, NEW l \in Nat, NEW s, NEW t,
         s.pc \in Plain, t.pc \in Plain, Advances(s, t),
         NEW d \in Nat, d = (IF t.pc \in Training THEN TsTime ELSE 1),
         e.at = d + l, SendsAt(e.os, t), WireInv(w, s), SteadyInv(w, s, 0, l)
  PROVE  SteadyInv(Append(w, e), t, d, l)
<1> SUFFICES ASSUME t.pc \in {"Wait", "Accept"}
             PROVE  SteadyInv(Append(w, e), t, d, l)
  BY DEF SteadyInv
<1> DEFINE v == Append(w, e)
           m == Len(w) + 1
<1>1. /\ v \in Seq(Transit) /\ Len(w) \in Nat /\ Len(v) = m /\ v[m] = e
      /\ \A k \in 1 .. Len(w) : v[k] = w[k]
  BY Sends
<1> HIDE DEF v
<1>2. v # <<>>
  BY <1>1, EmptySeq
<1>3. Numbered(e) /\ d = TsTime
  <2>1. Steps(t) >= 3
    BY Ranks DEF Steps
  <2>2. t.pc \in Training
    BY DEF Training
  <2> QED
    BY <2>1, <2>2 DEF SendsAt, Numbered, IsTs
<1>4. s.pc \in {"Start", "Wait", "Accept"}
  BY DEF Advances, Stays, GoesOn
<1>5. ASSUME NEW k \in 1 .. Len(w), Numbered(w[k])
      PROVE  Numbered(v[k + 1]) /\ v[k + 1].at = v[k].at + TsTime
  <2>1. s.pc \in {"Wait", "Accept"}
    <3>1. Shows(w[k].os, s)
      BY DEF WireInv
    <3>2. Steps(s) >= 3
      BY <1>5, <3>1 DEF Shows, Numbered, IsTs
    <3> QED
      BY <1>4, <3>2, Ranks DEF Steps
  <2>2. /\ w[Len(w)].at = 0 + l
        /\ k \in 1 .. Len(w) - 1 => Numbered(w[k + 1]) /\ w[k + 1].at = w[k].at + TsTime
    BY <1>5, <2>1 DEF SteadyInv
  <2>3. CASE k = Len(w)
    BY <1>1, <1>3, <2>2, <2>3, TimeAssumption
  <2>4. CASE k # Len(w)
    <3>1. k \in 1 .. Len(w) - 1 /\ k + 1 \in 1 .. Len(w)
      BY <1>1, <2>4
    <3> QED
      BY <1>1, <2>2, <3>1
  <2> QED
    BY <2>3, <2>4
<1>6. v # <<>> /\ Numbered(v[m]) /\ v[m].at = d + l
  BY <1>1, <1>2, <1>3
<1>7. \A k \in 1 .. m - 1 : Numbered(v[k]) => Numbered(v[k + 1]) /\ v[k + 1].at = v[k].at + TsTime
  BY <1>1, <1>5
<1> QED
  BY <1>1, <1>6, <1>7 DEF SteadyInv, v

LEMMA HearSteady ==
  ASSUME NEW w \in Seq(Transit), w # <<>>, Head(w).at = 0, NEW s, NEW ds \in Nat,
         NEW l \in Nat \ {0}, SteadyInv(w, s, ds, l)
  PROVE  SteadyInv(Tail(w), s, ds, l)
<1> SUFFICES ASSUME s.pc \in {"Wait", "Accept"}
             PROVE  SteadyInv(Tail(w), s, ds, l)
  BY DEF SteadyInv
<1> DEFINE v == Tail(w)
<1>1. /\ Len(w) \in Nat \ {0} /\ Len(v) = Len(w) - 1 /\ Head(w) = w[1] /\ v \in Seq(Transit)
      /\ \A k \in 1 .. Len(w) - 1 : v[k] = w[k + 1]
  BY Receives
<1> HIDE DEF v
<1>2. /\ Numbered(w[Len(w)]) /\ w[Len(w)].at = ds + l
      /\ \A k \in 1 .. Len(w) - 1 :
           Numbered(w[k]) => Numbered(w[k + 1]) /\ w[k + 1].at = w[k].at + TsTime
  BY DEF SteadyInv
<1>3. Len(w) # 1
  BY <1>1, <1>2
<1>4. Len(v) \in 1 .. Len(w) - 1 /\ Len(v) + 1 = Len(w)
  BY <1>1, <1>3
<1>5. v # <<>> /\ v[Len(v)] = w[Len(w)]
  BY <1>1, <1>4, EmptySeq
<1>6. ASSUME NEW k \in 1 .. Len(v) - 1, Numbered(v[k])
      PROVE  Numbered(v[k + 1]) /\ v[k + 1].at = v[k].at + TsTime
  <2>1. k + 1 \in 1 .. Len(w) - 1 /\ k \in 1 .. Len(w) - 1
    BY <1>1, <1>4
  <2>2. v[k] = w[k + 1] /\ v[k + 1] = w[(k + 1) + 1]
    BY <1>1, <2>1
  <2> QED
    BY <1>2, <1>6, <2>1, <2>2
<1> QED
  BY <1>2, <1>5, <1>6 DEF SteadyInv, v

\* Time passes.
Earlier(w, v, x) == SameOrder(w, v) /\ \A k \in 1 .. Len(w) : v[k].at = w[k].at - x

LEMMA PassEnd ==
  ASSUME NEW w \in Seq(Transit), NEW w2 \in Seq(Transit), NEW x \in Nat \ {0}, Earlier(w, w2, x),
         NEW s, NEW r, NEW ds \in Nat, NEW dr \in Nat, NEW l \in Nat,
         r.pc \in Training => dr <= TsTime,
         WireInv(w, s), KnowsInv(w, s, r), PacedInv(w, s, ds, l, r, dr), SteadyInv(w, s, ds, l)
  PROVE  /\ WireInv(w2, s) /\ KnowsInv(w2, s, r)
         /\ PacedInv(w2, s, ds - x, l, r, dr - x) /\ SteadyInv(w2, s, ds - x, l)
<1>1. /\ Len(w2) = Len(w) /\ Len(w) \in Nat /\ TsTime \in Nat \ {0}
      /\ \A k \in 1 .. Len(w) : /\ w2[k].os = w[k].os /\ w2[k].at = w[k].at - x
                                /\ w[k].at \in Nat
  BY Times, TimeAssumption DEF Earlier, SameOrder
<1>2. WireInv(w2, s) /\ KnowsInv(w2, s, r)
  BY <1>1 DEF WireInv, KnowsInv
<1>3. PacedInv(w2, s, ds - x, l, r, dr - x)
  <2>1. s.pc \in Training => ds - x <= TsTime
    BY <1>1 DEF PacedInv
  <2>2. ASSUME NEW k \in 1 .. Len(w)
        PROVE  w2[k].at <= (ds - x) + l /\ (w2[k].at = 0 /\ r.pc \in Training => dr - x < TsTime)
    <3>1. w[k].at <= ds + l
      BY DEF PacedInv
    <3> QED
      BY <1>1, <3>1
  <2>3. ASSUME NEW j \in 1 .. Len(w), NEW k \in 1 .. Len(w), j < k
        PROVE  w2[j].at + Span(w2[k].os) <= w2[k].at
    <3>1. w[j].at + Span(w[k].os) <= w[k].at
      BY <2>3 DEF PacedInv
    <3>2. Span(w[k].os) \in Nat
      BY <1>1 DEF Span
    <3> QED
      BY <1>1, <3>1, <3>2
  <2> QED
    BY <1>1, <2>1, <2>2, <2>3 DEF PacedInv
<1>4. ASSUME s.pc \in {"Wait", "Accept"}
      PROVE  /\ w2 # <<>> /\ Numbered(w2[Len(w2)]) /\ w2[Len(w2)].at = (ds - x) + l
             /\ \A k \in 1 .. Len(w2) - 1 :
                  Numbered(w2[k]) => Numbered(w2[k + 1]) /\ w2[k + 1].at = w2[k].at + TsTime
  <2>1. /\ w # <<>> /\ Numbered(w[Len(w)]) /\ w[Len(w)].at = ds + l
        /\ \A k \in 1 .. Len(w) - 1 :
             Numbered(w[k]) => Numbered(w[k + 1]) /\ w[k + 1].at = w[k].at + TsTime
    BY <1>4 DEF SteadyInv
  <2>2. Len(w) \in 1 .. Len(w) /\ w2 # <<>>
    BY <1>1, <2>1, EmptySeq
  <2>3. Numbered(w2[Len(w2)]) /\ w2[Len(w2)].at = (ds - x) + l
    BY <1>1, <2>1, <2>2 DEF Numbered
  <2>4. ASSUME NEW k \in 1 .. Len(w2) - 1, Numbered(w2[k])
        PROVE  Numbered(w2[k + 1]) /\ w2[k + 1].at = w2[k].at + TsTime
    <3>1. k \in 1 .. Len(w) - 1 /\ k \in 1 .. Len(w) /\ k + 1 \in 1 .. Len(w)
      BY <1>1
    <3>2. Numbered(w[k])
      BY <1>1, <2>4, <3>1 DEF Numbered
    <3>3. Numbered(w[k + 1]) /\ w[k + 1].at = w[k].at + TsTime
      BY <2>1, <3>1, <3>2
    <3>4. w[k].at \in Nat /\ w2[k].at = w[k].at - x
      BY <1>1, <3>1
    <3>5. w2[k + 1].os = w[k + 1].os /\ w2[k + 1].at = w[k + 1].at - x
      BY <1>1, <3>1
    <3> QED
      BY <1>1, <3>3, <3>4, <3>5 DEF Numbered
  <2> QED
    BY <2>2, <2>3, <2>4
<1>5. SteadyInv(w2, s, ds - x, l)
  BY <1>4, Zenon DEF SteadyInv
<1> QED
  BY <1>2, <1>3, <1>5
-----------------------------------------------------------------------------
(* A node is out of Lanenum.Wait before its peer is out of Lanenum.Accept. *)

LEMMA TurnsMade ==
  /\ TsTime \in Nat \ {0}
  /\ Turns(0) = 0 /\ Turns(1) = TsTime /\ Turns(2) = TsTime + TsTime
  /\ Turns(3) = TsTime + TsTime + TsTime
BY TimeAssumption DEF Turns

LEMMA TurnsInt ==
  ASSUME NEW j \in Int
  PROVE  Turns(j) \in Int /\ Turns(j + 1) = Turns(j) + TsTime
<1>1. TsTime \in Nat \ {0}
  BY TimeAssumption
<1> QED
  BY <1>1 DEF Turns

LEMMA TurnsOrder ==
  ASSUME NEW j \in Int, NEW k \in Int, j <= k
  PROVE  Turns(j) <= Turns(k)
<1>1. TsTime \in Nat \ {0} /\ k - j \in Nat
  BY TimeAssumption
<1>2. (k - j) * TsTime \in Nat
  BY <1>1
<1>3. (k - j) * TsTime = k * TsTime - j * TsTime
  BY <1>1
<1>4. j * TsTime \in Int /\ k * TsTime \in Int
  BY <1>1
<1> QED
  BY <1>2, <1>3, <1>4 DEF Turns

LEMMA NeedsOf ==
  ASSUME NEW s \in StateRecord
  PROVE  /\ Needs(s) \in 0 .. 2 /\ Turns(Needs(s)) \in Nat
         /\ Turns(Needs(s)) <= TsTime + TsTime
<1>1. Needs(s) \in {0, 1, 2}
  BY DEF Needs
<1> QED
  BY <1>1, TurnsMade

LEMMA OneLater ==
  ASSUME NEW j \in Int, NEW k \in Int, j <= k + 1
  PROVE  Turns(j) \in Int /\ Turns(k) \in Int /\ Turns(j) <= TsTime + Turns(k)
<1>1. Turns(j) \in Int /\ Turns(k) \in Int /\ Turns(k + 1) = Turns(k) + TsTime
  BY TurnsInt
<1>2. Turns(j) <= Turns(k + 1)
  BY TurnsOrder
<1> QED
  BY <1>1, <1>2, TurnsMade

LEMMA ThreeOn ==
  ASSUME NEW k \in Int, 3 <= k
  PROVE  Turns(k) \in Int /\ TsTime + TsTime + TsTime <= Turns(k)
<1>1. Turns(k) \in Int /\ Turns(3) <= Turns(k)
  BY TurnsInt, TurnsOrder
<1> QED
  BY <1>1, TurnsMade

\* Places of the first of them in Lanenum.Wait and Lanenum.Accept.
Waits(r) == r.pc \in {"Wait", "Accept"}
Threshold(r) == IF r.pc = "Wait" THEN 4 ELSE 2

LEMMA LeavesInt ==
  ASSUME NEW r \in StateRecord, NEW w, NEW dr \in Nat
  PROVE  /\ r.cnt["TS1"] \in Nat /\ Counted1(w, r, dr) \in Nat
         /\ Leaves(w, r, dr) = dr + Turns(Threshold(r) - Counted1(w, r, dr))
         /\ Leaves(w, r, dr) \in Int
<1>1. r.cnt["TS1"] \in Nat
  BY DEF StateRecord, Events, CountCap
<1>2. Counted1(w, r, dr) \in Nat
  BY <1>1 DEF Counted1
<1>3. Threshold(r) - Counted1(w, r, dr) \in Int
  BY <1>2 DEF Threshold
<1>4. Leaves(w, r, dr) = dr + Turns(Threshold(r) - Counted1(w, r, dr))
  BY DEF Leaves, Threshold
<1>5. Turns(Threshold(r) - Counted1(w, r, dr)) \in Int
  BY <1>3, TurnsInt
<1> QED
  BY <1>1, <1>2, <1>4, <1>5

\* A time bound that moves only outwards is kept.
LEMMA LaterInTime ==
  ASSUME NEW s, NEW ds \in Int, Turns(Needs(s)) \in Nat, NEW v \in Seq(Transit), NEW v2,
         \A k \in 1 .. Len(v) : k \in 1 .. Len(v2) /\ v2[k] = v[k],
         NEW x \in Int, NEW y \in Int, x <= y, InTime(s, ds, v, x)
  PROVE  InTime(s, ds, v2, y)
<1>1. CASE Needs(s) = 0 /\ ds < x
  BY <1>1 DEF InTime
<1>2. CASE Needs(s) > 0 /\ \E k \in 1 .. Len(v) :
             Numbered(v[k]) /\ v[k].at + Turns(Needs(s)) < x
  <2>1. PICK k \in 1 .. Len(v) : Numbered(v[k]) /\ v[k].at + Turns(Needs(s)) < x
    BY <1>2
  <2>2. v[k].at \in Nat
    BY Times
  <2>3. k \in 1 .. Len(v2) /\ v2[k] = v[k]
    OBVIOUS
  <2>4. v2[k].at + Turns(Needs(s)) < y
    BY <2>1, <2>2, <2>3
  <2> QED
    BY <1>2, <2>1, <2>3, <2>4, Zenon DEF InTime
<1> QED
  BY <1>1, <1>2 DEF InTime

\* The receiver looks: nothing is about to arrive, so the bound is no
\* earlier for what it has not counted now.
LEMMA LeaderLooks ==
  ASSUME NEW w \in Seq(Transit), NEW v \in Seq(Transit), NEW e \in Transit,
         NEW s \in StateRecord, NEW r \in StateRecord, NEW t \in StateRecord,
         s.pc \in Plain, r.pc \in Plain, t.pc \in Plain, Advances(r, t),
         NEW ds \in Nat, NEW l \in 1 .. TsTime - 1, NEW d \in Nat,
         d = (IF t.pc \in Training THEN TsTime ELSE 1), e.at = d + l, SendsAt(e.os, t),
         \A k \in 1 .. Len(w) : w[k].at > 0,
         s.pc \in Training => ds <= TsTime,
         KnowsInv(w, s, r), FollowInv(w, s, ds, v, r, 0)
  PROVE  /\ FollowInv(w, s, ds, Append(v, e), t, d)
         /\ ~(r.pc = "Accept" /\ r.cnt["TS1"] >= 2 /\ s.pc = "Wait")
<1> DEFINE u == Append(v, e)
           m == Len(v) + 1
<1>1. /\ u \in Seq(Transit) /\ Len(v) \in Nat /\ Len(u) = m /\ u[m] = e
      /\ \A k \in 1 .. Len(v) : k \in 1 .. Len(u) /\ u[k] = v[k]
      /\ m \in 1 .. Len(u)
  <2>1. /\ u \in Seq(Transit) /\ Len(v) \in Nat /\ Len(u) = m /\ u[m] = e
        /\ \A k \in 1 .. Len(v) : u[k] = v[k]
    BY Sends
  <2> QED
    BY <2>1
<1> HIDE DEF u
<1>2. /\ TsTime \in Nat \ {0} /\ Needs(s) \in 0 .. 2
      /\ Turns(Needs(s)) \in Nat /\ Turns(Needs(s)) <= TsTime + TsTime
  BY TimeAssumption, NeedsOf
<1>3. ~Nears(w, 0)
  BY Times DEF Nears
<1>4. /\ r.cnt["TS1"] \in Nat /\ Counted1(w, r, 0) = r.cnt["TS1"]
      /\ Leaves(w, r, 0) = Turns(Threshold(r) - r.cnt["TS1"]) /\ Leaves(w, r, 0) \in Int
  <2>1. r.cnt["TS1"] \in Nat /\ Counted1(w, r, 0) = r.cnt["TS1"]
    BY <1>3, LeavesInt DEF Counted1
  <2>2. /\ Leaves(w, r, 0) = 0 + Turns(Threshold(r) - Counted1(w, r, 0))
        /\ Leaves(w, r, 0) \in Int
    BY LeavesInt
  <2>3. Threshold(r) - r.cnt["TS1"] \in Int
    BY <2>1 DEF Threshold
  <2>4. Turns(Threshold(r) - r.cnt["TS1"]) \in Int
    BY <2>3, TurnsInt
  <2> QED
    BY <2>1, <2>2, <2>4
<1>5. /\ t.cnt["TS1"] \in {0, r.cnt["TS1"]} /\ t.cnt["TS1"] \in Nat
      /\ Counted1(w, t, d) \in Nat /\ Counted1(w, t, d) <= t.cnt["TS1"] + 1
      /\ Leaves(w, t, d) = d + Turns(Threshold(t) - Counted1(w, t, d)) /\ Leaves(w, t, d) \in Int
  <2>1. t.cnt["TS1"] \in {0, r.cnt["TS1"]}
    BY DEF Advances, Events
  <2>2. Counted1(w, t, d) <= t.cnt["TS1"] + 1
    BY LeavesInt DEF Counted1
  <2> QED
    BY <2>1, <2>2, LeavesInt
<1>6. Stays(r, t) \/ GoesOn(r, t)
  BY DEF Advances
<1>7. ASSUME t.pc = "Wait", s.pc = "Start"
      PROVE  Counted1(w, t, d) <= 1
  <2>1. t.cnt["TS1"] = 0
    <3>1. CASE r.pc = "Start"
      BY <1>6, <1>7, <3>1 DEF Stays, GoesOn
    <3>2. CASE r.pc = "Wait"
      <4>1. r.last.lane # 0
        <5>1. Steps(s) = 2
          BY <1>7, Ranks DEF Steps
        <5> QED
          BY <5>1 DEF KnowsInv
      <4> QED
        BY <1>6, <1>7, <3>2, <4>1 DEF Stays, GoesOn, Lacks
    <3> QED
      BY <1>6, <1>7, <3>1, <3>2 DEF Stays, GoesOn
  <2> QED
    BY <1>5, <2>1
<1>8. ASSUME Waits(t), s.pc = "Wait"
      PROVE  InTime(s, ds, u, Leaves(w, t, d))
  <2>1. d = TsTime
    BY <1>8 DEF Waits, Training
  <2>2. CASE Waits(r)
    <3> DEFINE a == Threshold(r) - r.cnt["TS1"]
               b == Threshold(t) - Counted1(w, t, d)
    <3>1. a <= b + 1
      <4>1. CASE Stays(r, t)
        <5>1. Threshold(t) = Threshold(r) /\ Threshold(r) \in {2, 4}
          BY <4>1 DEF Stays, Threshold
        <5> DEFINE h == Threshold(r)
                   x == r.cnt["TS1"]
                   y == Counted1(w, t, d)
                   z == t.cnt["TS1"]
        <5>2. x \in Nat /\ y \in Nat /\ z \in {0, x} /\ y <= z + 1
          BY <1>4, <1>5
        <5>3. h \in Nat /\ a = h - x /\ b = h - y
          BY <5>1
        <5> HIDE DEF a, b, h, x, y, z
        <5> QED
          BY <5>2, <5>3
      <4>2. CASE GoesOn(r, t)
        <5>1. r.pc = "Wait" /\ t.pc = "Accept" /\ r.cnt["TS1"] >= 2 /\ t.cnt["TS1"] = 0
          BY <1>8, <2>2, <4>2 DEF GoesOn, Waits
        <5>2. Threshold(r) = 4 /\ Threshold(t) = 2
          BY <5>1 DEF Threshold
        <5> QED
          BY <1>4, <1>5, <5>1, <5>2
      <4> QED
        BY <1>6, <4>1, <4>2
    <3>2. a \in Int /\ b \in Int
      <4>1. Threshold(r) \in {2, 4} /\ Threshold(t) \in {2, 4}
        BY DEF Threshold
      <4>2. r.cnt["TS1"] \in Nat /\ Counted1(w, t, d) \in Nat
        BY <1>4, <1>5
      <4> QED
        BY <4>1, <4>2
    <3> HIDE DEF a, b
    <3>3. Turns(a) \in Int /\ Turns(b) \in Int /\ Turns(a) <= TsTime + Turns(b)
      BY <3>1, <3>2, OneLater
    <3>4. Leaves(w, r, 0) = Turns(a) /\ Leaves(w, t, d) = TsTime + Turns(b)
      BY <1>4, <1>5, <2>1 DEF a, b
    <3>5. Leaves(w, r, 0) <= Leaves(w, t, d)
      BY <3>3, <3>4
    <3>6. InTime(s, ds, v, Leaves(w, r, 0))
      BY <1>8, <2>2 DEF FollowInv, Waits
    <3> DEFINE x == Leaves(w, r, 0)
               y == Leaves(w, t, d)
    <3>7. x \in Int /\ y \in Int /\ ds \in Int
      BY <1>4, <1>5
    <3> HIDE DEF x, y
    <3>8. InTime(s, ds, u, y)
      BY <1>1, <1>2, <3>5, <3>6, <3>7, LaterInTime DEF x, y
    <3> QED
      BY <3>8 DEF y
  <2>3. CASE ~Waits(r)
    <3>1. t.pc = "Wait" /\ t.cnt["TS1"] = 0
      BY <1>6, <1>8, <2>3 DEF Waits, Stays, GoesOn
    <3>2. Threshold(t) - Counted1(w, t, d) \in Int /\ 3 <= Threshold(t) - Counted1(w, t, d)
      BY <1>5, <3>1 DEF Threshold
    <3>4. TsTime + TsTime + TsTime + TsTime <= Leaves(w, t, d)
      <4> DEFINE c == Threshold(t) - Counted1(w, t, d)
                 b == Turns(c)
      <4>1. c \in Int /\ 3 <= c
        BY <3>2
      <4> HIDE DEF c
      <4>2. b \in Int /\ TsTime + TsTime + TsTime <= b
        BY <4>1, ThreeOn
      <4>3. Leaves(w, t, d) = TsTime + b
        BY <1>5, <2>1 DEF c
      <4> HIDE DEF b
      <4> QED
        BY <1>2, <4>2, <4>3
    <3>5. CASE Needs(s) = 0
      <4>1. ds <= TsTime
        BY <1>8 DEF Training
      <4> QED
        BY <1>2, <1>5, <3>4, <3>5, <4>1 DEF InTime
    <3>6. CASE Needs(s) # 0
      <4>1. Numbered(u[m]) /\ u[m].at = TsTime + l
        <5>1. Steps(t) >= 3
          BY <3>1, Ranks DEF Steps
        <5> QED
          BY <1>1, <2>1, <3>1, <5>1 DEF SendsAt, Numbered, IsTs
      <4>3. u[m].at + Turns(Needs(s)) < Leaves(w, t, d)
        <5> DEFINE b == Leaves(w, t, d)
                   x == Turns(Needs(s))
        <5>1. b \in Int /\ TsTime + TsTime + TsTime + TsTime <= b /\ x \in Nat
              /\ x <= TsTime + TsTime
          BY <1>2, <1>5, <3>4
        <5> HIDE DEF b, x
        <5>2. (TsTime + l) + x < b
          BY <1>2, <5>1
        <5> QED
          BY <4>1, <5>2 DEF b, x
      <4>4. Needs(s) > 0 /\ m \in 1 .. Len(u)
        BY <1>1, <1>2, <3>6
      <4> HIDE DEF m
      <4> QED
        BY <4>1, <4>3, <4>4, Zenon DEF InTime
    <3> QED
      BY <3>5, <3>6
  <2> QED
    BY <2>2, <2>3
<1>9. ASSUME r.pc = "Accept", r.cnt["TS1"] >= 2, s.pc = "Wait"
      PROVE  FALSE
  <2>1. Threshold(r) - r.cnt["TS1"] \in Int /\ Threshold(r) - r.cnt["TS1"] <= 0
    BY <1>4, <1>9 DEF Threshold
  <2>2. Leaves(w, r, 0) <= 0
    <3>1. Turns(Threshold(r) - r.cnt["TS1"]) <= Turns(0) /\ Turns(0) = 0
      BY <2>1, TurnsOrder, TurnsMade
    <3> QED
      BY <1>4, <3>1
  <2>3. CASE Needs(s) = 0 /\ ds < Leaves(w, r, 0)
    BY <1>4, <2>2, <2>3
  <2>4. CASE Needs(s) > 0 /\ \E k \in 1 .. Len(v) :
               Numbered(v[k]) /\ v[k].at + Turns(Needs(s)) < Leaves(w, r, 0)
    <3>1. PICK k \in 1 .. Len(v) : v[k].at + Turns(Needs(s)) < Leaves(w, r, 0)
      BY <2>4
    <3>2. v[k].at \in Nat
      BY Times
    <3> QED
      BY <1>2, <1>4, <2>2, <3>1, <3>2
  <2> QED
    BY <1>9, <2>3, <2>4 DEF FollowInv, InTime
<1>10. FollowInv(w, s, ds, u, t, d)
  BY <1>7, <1>8, Zenon DEF FollowInv, Waits
<1> QED
  BY <1>9, <1>10 DEF u

LEMMA CountsOne ==
  ASSUME NEW s \in StateRecord, NEW os \in Sequences
  PROVE  /\ Count(s, os).cnt[os.id] \in {s.cnt[os.id] + 1, CountCap}
         /\ s.cnt[os.id] \in 0 .. CountCap
         /\ Count(s, os).cnt[os.id] <= s.cnt[os.id] + 1
<1> DEFINE x == Least(s.cnt[os.id] + 1, CountCap)
           c == Count(s, os)
<1>1. os.id \in Events /\ s.cnt \in [Events -> 0 .. CountCap]
  BY DEF StateRecord, Sequences
<1>2. s.cnt[os.id] \in 0 .. CountCap
  BY <1>1
<1>3. c.cnt = [s.cnt EXCEPT ![os.id] = x]
  BY <1>1, Zenon DEF Count, StateRecord
<1>4. c.cnt[os.id] = x
  BY <1>1, <1>3
<1>5. x \in {s.cnt[os.id] + 1, CountCap} /\ x <= s.cnt[os.id] + 1
  BY <1>2 DEF Least, CountCap
<1> HIDE DEF x, c
<1> QED
  BY <1>2, <1>4, <1>5 DEF c

\* The sender looks: where it stays or what it counts anew, the bound is
\* far enough off.
LEMMA FollowerLooks ==
  ASSUME NEW w \in Seq(Transit), NEW v \in Seq(Transit), NEW e \in Transit,
         NEW s \in StateRecord, NEW r \in StateRecord, NEW t \in StateRecord,
         s.pc \in Plain, r.pc \in Plain, t.pc \in Plain, Advances(s, t),
         NEW dr \in Nat, NEW l \in Nat \ {0}, NEW k \in 1 .. TsTime - 1, NEW d \in Nat,
         d = (IF t.pc \in Training THEN TsTime ELSE 1), e.at = d + l, SendsAt(e.os, t),
         r.pc \in Training => dr <= TsTime,
         s.pc = "Wait" /\ Waits(r) => s.last.link = s.cfg.linknum,
         Together(r, s), SteadyInv(v, r, dr, k), FollowInv(w, s, 0, v, r, dr)
  PROVE  FollowInv(Append(w, e), t, d, v, r, dr)
<1> DEFINE u == Append(w, e)
           m == Len(w) + 1
<1>1. /\ u \in Seq(Transit) /\ Len(w) \in Nat /\ Len(u) = m /\ u[m] = e
      /\ \A j \in 1 .. Len(w) : u[j] = w[j]
  BY Sends
<1> HIDE DEF u
<1>2. TsTime \in Nat \ {0}
  BY TimeAssumption
<1>3. Stays(s, t) \/ GoesOn(s, t)
  BY DEF Advances
<1>4. ASSUME Waits(r)
      PROVE  Nears(u, dr) <=> Nears(w, dr)
  <2>1. ~(e.os.id = "TS1" /\ e.at <= dr)
    <3>1. SUFFICES ASSUME e.os.id = "TS1"
                   PROVE  ~(e.at <= dr)
      OBVIOUS
    <3>2. d = TsTime
      BY <3>1 DEF SendsAt, IsTs
    <3>3. dr <= TsTime
      BY <1>4 DEF Waits, Training
    <3> QED
      BY <1>2, <3>2, <3>3
  <2>2. \A j : j \in 1 .. Len(u) <=> (j \in 1 .. Len(w) \/ j = m)
    BY <1>1
  <2> QED
    BY <1>1, <2>1, <2>2 DEF Nears
<1>5. ASSUME Waits(r)
      PROVE  Counted1(u, r, dr) = Counted1(w, r, dr) /\ Leaves(u, r, dr) = Leaves(w, r, dr)
  BY <1>4, <1>5 DEF Counted1, Leaves
<1>6. ASSUME r.pc = "Wait", t.pc = "Start"
      PROVE  Counted1(u, r, dr) <= 1
  <2>1. CASE s.pc = "Start"
    BY <1>5, <1>6, <2>1 DEF FollowInv, Waits
  <2>2. CASE s.pc # "Start"
    <3>1. s.pc = "PollConfig"
      BY <1>3, <1>6, <2>2 DEF Stays, GoesOn
    <3> QED
      BY <1>6, <3>1, Ranks DEF Together, Steps
  <2> QED
    BY <2>1, <2>2
<1>7. ASSUME Waits(r), t.pc = "Wait"
      PROVE  InTime(t, d, v, Leaves(u, r, dr))
  <2>1. CASE s.pc = "Wait"
    <3>1. Needs(t) = Needs(s) /\ Needs(s) > 0
      <4>1. s.last.link = s.cfg.linknum /\ t.last = s.last /\ s.cnt["TS1"] \in Nat
        BY <1>7, <2>1 DEF Advances, StateRecord, Events, CountCap
      <4>2. CASE s.last.lane # 0
        BY <4>1, <4>2 DEF Needs
      <4>3. CASE s.last.lane = 0
        <5>1. s.cnt["TS1"] < 2 /\ t.cnt["TS1"] = s.cnt["TS1"]
          BY <1>3, <1>7, <2>1, <4>1, <4>3 DEF Stays, GoesOn, Lacks
        <5> QED
          BY <4>1, <5>1 DEF Needs
      <4> QED
        BY <4>2, <4>3
    <3>2. \E j \in 1 .. Len(v) : Numbered(v[j]) /\ v[j].at + Turns(Needs(s)) < Leaves(w, r, dr)
      BY <1>7, <2>1, <3>1 DEF FollowInv, Waits, InTime
    <3> QED
      BY <1>5, <1>7, <3>1, <3>2 DEF InTime
  <2>2. CASE s.pc # "Wait"
    <3>1. s.pc = "Start" /\ t.cnt["TS1"] = 0
      BY <1>3, <1>7, <2>2 DEF Stays, GoesOn
    <3>2. Needs(t) = 2
      BY <3>1 DEF Needs
    <3>3. r.pc = "Wait"
      BY <1>7, <3>1, Ranks DEF Together, Steps, Waits
    <3>4. Counted1(w, r, dr) <= 1
      BY <3>1, <3>3 DEF FollowInv
    <3>5. Leaves(w, r, dr) \in Int /\ dr + (TsTime + TsTime + TsTime) <= Leaves(w, r, dr)
      <4> DEFINE c == Threshold(r) - Counted1(w, r, dr)
                 b == Turns(c)
      <4>1. c \in Int /\ 3 <= c
        BY <3>3, <3>4, LeavesInt DEF Threshold
      <4>2. Leaves(w, r, dr) = dr + b
        BY LeavesInt
      <4> HIDE DEF c
      <4>3. b \in Int /\ TsTime + TsTime + TsTime <= b
        BY <4>1, ThreeOn
      <4> HIDE DEF b
      <4> QED
        BY <1>2, <4>2, <4>3
    <3>6. /\ v # <<>> /\ Numbered(v[Len(v)]) /\ v[Len(v)].at = dr + k
      BY <3>3 DEF SteadyInv
    <3>7. Len(v) \in 1 .. Len(v)
      BY <3>6, EmptySeq, LenProperties
    <3>8. v[Len(v)].at + Turns(Needs(t)) < Leaves(u, r, dr)
      BY <1>2, <1>5, <1>7, <3>2, <3>5, <3>6, TurnsMade
    <3>9. Needs(t) > 0
      BY <3>2
    <3> QED
      BY <3>6, <3>7, <3>8, <3>9, Zenon DEF InTime
  <2> QED
    BY <2>1, <2>2
<1> QED
  BY <1>6, <1>7, Zenon DEF FollowInv, Waits, u

\* What comes in at the receiver was in the bound already.
LEMMA LeaderHears ==
  ASSUME NEW w \in Seq(Transit), w # <<>>, Head(w).at = 0, NEW v \in Seq(Transit),
         NEW s \in StateRecord, NEW r \in StateRecord,
         NEW ds \in Nat, NEW dr \in Nat, NEW l,
         PacedInv(w, s, ds, l, r, dr), FollowInv(w, s, ds, v, r, dr)
  PROVE  FollowInv(Tail(w), s, ds, v, Count(r, Head(w).os), dr)
<1> DEFINE u == Tail(w)
           os == Head(w).os
           c == Count(r, os)
<1>1. /\ Len(w) \in Nat \ {0} /\ Len(u) = Len(w) - 1 /\ Head(w) = w[1] /\ Head(w) \in Transit
      /\ \A j \in 1 .. Len(w) - 1 : u[j] = w[j + 1]
  BY Receives
<1>2. os \in Sequences
  BY <1>1 DEF Transit
<1>3. /\ c \in StateRecord /\ c.pc = r.pc
      /\ \A e \in Events \ {os.id} : c.cnt[e] = r.cnt[e]
  BY <1>2, Counts
<1>4. r.cnt["TS1"] \in Nat /\ c.cnt["TS1"] \in Nat
  BY <1>3, LeavesInt
<1>5. os.id = "TS1" => c.cnt["TS1"] <= r.cnt["TS1"] + 1
  BY <1>2, <1>4, CountsOne
<1>6. \A j \in 1 .. Len(u) : j + 1 \in 1 .. Len(w) /\ u[j] = w[j + 1]
  BY <1>1
<1> HIDE DEF u, os, c
<1>7. ASSUME Waits(r)
      PROVE  Counted1(u, c, dr) <= Counted1(w, r, dr)
  <2>1. 1 \in 1 .. Len(w) /\ w[1].os = os /\ w[1].at = 0
    BY <1>1 DEF os
  <2>2. CASE os.id = "TS1"
    <3>1. Nears(w, dr)
      BY <2>1, <2>2 DEF Nears
    <3>2. ASSUME NEW j \in 1 .. Len(u), u[j].os.id = "TS1"
          PROVE  ~(u[j].at <= dr)
      <4>1. w[1].at + Span(u[j].os) <= u[j].at /\ u[j].at \in Nat
        <5>1. j + 1 \in 1 .. Len(w) /\ 1 < j + 1 /\ u[j] = w[j + 1]
          BY <1>1, <1>6
        <5>2. w[1].at + Span(w[j + 1].os) <= w[j + 1].at
          BY <2>1, <5>1 DEF PacedInv
        <5>3. w[j + 1].at \in Nat
          BY <5>1, Times
        <5> QED
          BY <5>1, <5>2, <5>3
      <4>2. Span(u[j].os) = TsTime
        BY <3>2 DEF Span, IsTs
      <4>3. dr < TsTime
        BY <1>7, <2>1 DEF PacedInv, Waits, Training
      <4> QED
        BY <2>1, <4>1, <4>2, <4>3, TimeAssumption
    <3>3. ~Nears(u, dr)
      BY <3>2 DEF Nears
    <3> QED
      BY <1>4, <1>5, <2>2, <3>1, <3>3 DEF Counted1
  <2>3. CASE os.id # "TS1"
    <3>1. c.cnt["TS1"] = r.cnt["TS1"]
      BY <1>3, <2>3 DEF Events
    <3>2. Nears(u, dr) => Nears(w, dr)
      BY <1>6 DEF Nears
    <3> QED
      BY <1>4, <3>1, <3>2 DEF Counted1
  <2> QED
    BY <2>2, <2>3
<1>8. ASSUME r.pc = "Wait", s.pc = "Start"
      PROVE  Counted1(u, c, dr) <= 1
  <2>1. Counted1(w, r, dr) <= 1
    BY <1>8 DEF FollowInv
  <2>2. Counted1(u, c, dr) <= Counted1(w, r, dr)
    BY <1>7, <1>8 DEF Waits
  <2> QED
    BY <1>3, <2>1, <2>2, LeavesInt
<1>9. ASSUME Waits(r), s.pc = "Wait"
      PROVE  InTime(s, ds, v, Leaves(u, c, dr))
  <2> DEFINE a == Threshold(r) - Counted1(w, r, dr)
             b == Threshold(r) - Counted1(u, c, dr)
  <2>1. a \in Int /\ b \in Int /\ a <= b
    <3>1. /\ Threshold(r) \in Nat /\ Counted1(w, r, dr) \in Nat /\ Counted1(u, c, dr) \in Nat
          /\ Counted1(u, c, dr) <= Counted1(w, r, dr)
      BY <1>3, <1>7, <1>9, LeavesInt DEF Threshold
    <3> DEFINE h == Threshold(r)
               x == Counted1(w, r, dr)
               y == Counted1(u, c, dr)
    <3> HIDE DEF h, x, y
    <3>2. h - x \in Int /\ h - y \in Int /\ h - x <= h - y
      BY <3>1 DEF h, x, y
    <3> QED
      BY <3>2 DEF h, x, y
  <2>2. /\ Leaves(w, r, dr) = dr + Turns(a) /\ Leaves(u, c, dr) = dr + Turns(b)
        /\ Leaves(w, r, dr) \in Int /\ Leaves(u, c, dr) \in Int
    <3>1. Threshold(c) = Threshold(r)
      BY <1>3 DEF Threshold
    <3> QED
      BY <1>3, <3>1, LeavesInt
  <2> HIDE DEF a, b
  <2>3. Turns(a) <= Turns(b) /\ Turns(a) \in Int /\ Turns(b) \in Int
    BY <2>1, TurnsOrder, TurnsInt
  <2>4. Leaves(w, r, dr) <= Leaves(u, c, dr)
    BY <2>2, <2>3
  <2>5. /\ ds \in Int /\ Turns(Needs(s)) \in Nat
        /\ \A k \in 1 .. Len(v) : k \in 1 .. Len(v) /\ v[k] = v[k]
    BY NeedsOf
  <2>6. InTime(s, ds, v, Leaves(w, r, dr))
    BY <1>9 DEF FollowInv, Waits
  <2> QED
    BY <2>2, <2>4, <2>5, <2>6, LaterInTime
<1>10. c.pc = r.pc
  BY <1>3
<1> QED
  BY <1>8, <1>9, <1>10, Zenon DEF FollowInv, Waits, u, c, os

\* What comes in at the sender is one less that it needs.
LEMMA FollowerHears ==
  ASSUME NEW w, NEW v \in Seq(Transit), v # <<>>, Head(v).at = 0,
         NEW s \in StateRecord, NEW r \in StateRecord, s.pc \in Plain, r.pc \in Plain,
         NEW ds \in Nat, NEW dr \in Nat, NEW l \in Nat \ {0},
         KnowsInv(v, r, s), PacedInv(v, r, dr, l, s, ds), SteadyInv(v, r, dr, l),
         s.pc \in Training => ds <= TsTime,
         FollowInv(w, s, ds, v, r, dr)
  PROVE  FollowInv(w, Count(s, Head(v).os), ds, Tail(v), r, dr)
<1> DEFINE u == Tail(v)
           os == Head(v).os
           c == Count(s, os)
           b == Leaves(w, r, dr)
<1>1. /\ Len(v) \in Nat \ {0} /\ Len(u) = Len(v) - 1 /\ Head(v) = v[1] /\ Head(v) \in Transit
      /\ \A j \in 1 .. Len(v) - 1 : u[j] = v[j + 1]
  BY Receives
<1>2. os \in Sequences /\ 1 \in 1 .. Len(v) /\ v[1].os = os /\ v[1].at = 0
  BY <1>1 DEF Transit
<1>3. /\ c \in StateRecord /\ c.pc = s.pc
      /\ c.last = (IF IsTs(os) THEN os ELSE s.last)
      /\ \A e \in Events \ {os.id} : c.cnt[e] = s.cnt[e]
      /\ \A e \in Events : s.cnt[e] > 0 => c.cnt[e] > 0
  BY <1>2, Counts
<1>4. /\ s.cnt["TS1"] \in 0 .. CountCap /\ c.cnt["TS1"] \in 0 .. CountCap
      /\ c.cnt["TS1"] \in {s.cnt["TS1"], s.cnt["TS1"] + 1, CountCap}
      /\ os.id = "TS1" => c.cnt["TS1"] \in {s.cnt["TS1"] + 1, CountCap}
  <2>1. s.cnt["TS1"] \in 0 .. CountCap /\ c.cnt["TS1"] \in 0 .. CountCap
    <3>1. c \in StateRecord
      BY <1>3
    <3> HIDE DEF c
    <3>2. s.cnt \in [Events -> 0 .. CountCap] /\ c.cnt \in [Events -> 0 .. CountCap]
      BY <3>1 DEF StateRecord
    <3> QED
      BY <3>2 DEF Events
  <2>2. CASE os.id = "TS1"
    BY <1>2, <2>1, <2>2, CountsOne
  <2>3. CASE os.id # "TS1"
    BY <1>3, <2>1, <2>3 DEF Events
  <2> QED
    BY <2>1, <2>2, <2>3
<1>5. b \in Int
  BY LeavesInt
<1>6. TsTime \in Nat \ {0} /\ \A k \in 1 .. Len(u) : k + 1 \in 1 .. Len(v) /\ u[k] = v[k + 1]
  BY <1>1, TimeAssumption
<1> HIDE DEF u, os, c
<1>7. ASSUME Waits(r), s.pc = "Wait"
      PROVE  InTime(c, ds, u, b)
  <2>1. s.last.lane = 0 => c.last.lane = 0
    BY <1>2, <1>3 DEF KnowsInv
  <2>2. /\ Needs(s) \in 0 .. 2 /\ Needs(c) \in 0 .. 2
        /\ Needs(s) = 0 => Needs(c) = 0
        /\ Needs(s) = 1 => Needs(c) \in {0, 1}
        /\ Numbered(v[1]) /\ Needs(s) = 1 => Needs(c) = 0
        /\ Numbered(v[1]) /\ Needs(s) = 2 => Needs(c) \in {0, 1}
    <3>1. CountCap = 8
      BY DEF CountCap
    <3>2. Numbered(v[1]) => c.last.lane = 0 /\ os.id = "TS1"
      BY <1>2, <1>3 DEF Numbered, IsTs
    <3> QED
      BY <1>4, <2>1, <3>1, <3>2, SMTT(20) DEF Needs
  <2>3. ds <= TsTime /\ ds < TsTime
    <3>1. s.pc \in Training
      BY <1>7 DEF Training
    <3> QED
      BY <1>2, <3>1 DEF PacedInv
  <2>4. CASE Needs(s) = 0 /\ ds < b
    BY <2>2, <2>4 DEF InTime
  <2>5. CASE Needs(s) > 0 /\ \E k \in 1 .. Len(v) :
               Numbered(v[k]) /\ v[k].at + Turns(Needs(s)) < b
    <3>1. PICK k \in 1 .. Len(v) : Numbered(v[k]) /\ v[k].at + Turns(Needs(s)) < b
      BY <2>5
    <3>2. v[k].at \in Nat /\ Needs(s) \in 1 .. 2
      BY <2>2, <2>5, Times
    <3>3. TsTime <= Turns(Needs(s)) /\ Turns(Needs(s)) \in Nat
      BY <3>2, TurnsMade
    <3>4. CASE k # 1
      <4>1. k - 1 \in 1 .. Len(u) /\ u[k - 1] = v[k]
        BY <1>1, <3>4
      <4>2. CASE Needs(c) = 0
        <5>1. ds < b
          BY <1>5, <1>6, <2>3, <3>1, <3>2, <3>3
        <5> QED
          BY <4>2, <5>1 DEF InTime
      <4>3. CASE Needs(c) # 0
        <5>1. Needs(c) > 0 /\ Turns(Needs(c)) <= Turns(Needs(s)) /\ Turns(Needs(c)) \in Nat
          <6>1. Needs(c) \in {1, 2} /\ Needs(s) \in {1, 2} /\ (Needs(s) = 1 => Needs(c) = 1)
            BY <2>2, <3>2, <4>3
          <6> QED
            BY <6>1, TurnsMade
        <5>2. u[k - 1].at + Turns(Needs(c)) < b
          BY <1>5, <3>1, <3>2, <3>3, <4>1, <5>1
        <5> QED
          BY <3>1, <4>1, <5>1, <5>2, Zenon DEF InTime
      <4> QED
        BY <4>2, <4>3
    <3>5. CASE k = 1
      <4>1. Numbered(v[1]) /\ Turns(Needs(s)) < b
        BY <1>2, <3>1, <3>3, <3>5
      <4>2. CASE Needs(c) = 0
        <5>1. ds < b
          BY <1>5, <1>6, <2>3, <3>3, <4>1
        <5> QED
          BY <4>2, <5>1 DEF InTime
      <4>3. CASE Needs(c) # 0
        <5>1. Needs(s) = 2 /\ Needs(c) = 1
          BY <2>2, <3>2, <4>1, <4>3
        <5>2. /\ v[Len(v)].at = dr + l
              /\ \A j \in 1 .. Len(v) - 1 :
                   Numbered(v[j]) => Numbered(v[j + 1]) /\ v[j + 1].at = v[j].at + TsTime
          BY <1>7 DEF SteadyInv, Waits
        <5>3. Len(v) # 1
          BY <1>2, <5>2
        <5>4. 1 \in 1 .. Len(v) - 1 /\ 1 \in 1 .. Len(u) /\ u[1] = v[1 + 1]
          BY <1>1, <5>3
        <5>5. Numbered(u[1]) /\ u[1].at = 0 + TsTime
          BY <1>2, <4>1, <5>2, <5>4
        <5>6. u[1].at + Turns(Needs(c)) < b
          BY <1>5, <1>6, <4>1, <5>1, <5>5, TurnsMade
        <5> QED
          BY <5>1, <5>4, <5>5, <5>6 DEF InTime
      <4> QED
        BY <4>2, <4>3
    <3> QED
      BY <3>4, <3>5
  <2> QED
    BY <1>7, <2>4, <2>5 DEF FollowInv, Waits, InTime
<1>8. c.pc = s.pc
  BY <1>3
<1> QED
  BY <1>7, <1>8, Zenon DEF FollowInv, Waits, u, c, os, b

LEMMA PassFollow ==
  ASSUME NEW w \in Seq(Transit), NEW w2 \in Seq(Transit), NEW v \in Seq(Transit),
         NEW v2 \in Seq(Transit), NEW x \in Nat, Earlier(w, w2, x), Earlier(v, v2, x),
         NEW s \in StateRecord, NEW r \in StateRecord,
         NEW ds \in Nat, NEW dr \in Nat, dr - x \in Nat,
         FollowInv(w, s, ds, v, r, dr)
  PROVE  FollowInv(w2, s, ds - x, v2, r, dr - x)
<1>1. Nears(w2, dr - x) <=> Nears(w, dr)
  <2>1. \A k \in 1 .. Len(w) : w[k].at \in Nat
    BY Times
  <2>2. \A k \in 1 .. Len(w) : w2[k].at <= dr - x <=> w[k].at <= dr
    BY <2>1 DEF Earlier
  <2> QED
    BY <2>2 DEF Nears, Earlier, SameOrder
<1>2. Counted1(w2, r, dr - x) = Counted1(w, r, dr)
  BY <1>1 DEF Counted1
<1>3. Leaves(w2, r, dr - x) = Leaves(w, r, dr) - x /\ Leaves(w, r, dr) \in Int
  <2> DEFINE c == Threshold(r) - Counted1(w, r, dr)
  <2>1. Leaves(w2, r, dr - x) = (dr - x) + Turns(c) /\ Leaves(w, r, dr) = dr + Turns(c)
    BY <1>2, LeavesInt
  <2>2. c \in Int
    <3>1. Counted1(w, r, dr) \in Nat /\ Threshold(r) \in {2, 4}
      BY LeavesInt DEF Threshold
    <3> QED
      BY <3>1
  <2> HIDE DEF c
  <2>3. Turns(c) \in Int
    BY <2>2, TurnsInt
  <2> QED
    BY <2>1, <2>3
<1> DEFINE b == Leaves(w, r, dr)
           b2 == Leaves(w2, r, dr - x)
<1> HIDE DEF b, b2
<1>4. ASSUME InTime(s, ds, v, b)
      PROVE  InTime(s, ds - x, v2, b2)
  <2>1. CASE Needs(s) = 0 /\ ds < b
    BY <1>3, <2>1 DEF InTime, b, b2
  <2>2. CASE Needs(s) > 0 /\ \E k \in 1 .. Len(v) : Numbered(v[k]) /\ v[k].at + Turns(Needs(s)) < b
    <3>1. PICK k \in 1 .. Len(v) : Numbered(v[k]) /\ v[k].at + Turns(Needs(s)) < b
      BY <2>2
    <3>2. /\ v[k].at \in Nat /\ v2[k].at = v[k].at - x /\ v2[k].os = v[k].os
          /\ k \in 1 .. Len(v2) /\ Turns(Needs(s)) \in Nat
      BY Times, NeedsOf DEF Earlier, SameOrder
    <3>3. v2[k].at + Turns(Needs(s)) < b2 /\ Numbered(v2[k])
      BY <1>3, <3>1, <3>2, SMTT(20) DEF Numbered, b, b2
    <3> QED
      BY <2>2, <3>2, <3>3, Zenon DEF InTime
  <2> QED
    BY <1>4, <2>1, <2>2 DEF InTime
<1> QED
  BY <1>2, <1>4, Zenon DEF FollowInv, b, b2
-----------------------------------------------------------------------------
(* Both ends together, in each kind of step.                               *)

ShortWire == \A l \in Lats : l < TsTime

EndsInv(n) ==
  EndInv(wire[n], st[n], due[n], lat[n], wire[Peer(n)], st[Peer(n)], due[Peer(n)])

LEMMA EndsOf ==
  ASSUME StepInv, Untested, NEW n \in Node
  PROVE  EndsInv(n) /\ EndsInv(Peer(n)) /\ Peer(Peer(n)) = n
         /\ st[n].pc \in Plain /\ st[Peer(n)].pc \in Plain
BY Peers DEF StepInv, Untested, PlainInv, EndsInv

LEMMA EndGo ==
  ASSUME NEW w \in Seq(Transit), NEW v \in Seq(Transit), NEW e \in Transit,
         NEW s \in StateRecord, NEW r \in StateRecord, NEW t \in StateRecord,
         s.pc \in Plain, r.pc \in Plain, t.pc \in Plain, Advances(s, t),
         NEW dr \in Nat, NEW l \in 1 .. TsTime - 1, NEW k \in 1 .. TsTime - 1,
         NEW d \in Nat, d = Length(t), e.at = d + l, e.os = Sent(t),
         v # <<>> => Head(v).at > 0,
         s.pc = "Wait" /\ Waits(r) => s.last.link = s.cfg.linknum,
         EndInv(w, s, 0, l, v, r, dr), EndInv(v, r, dr, k, w, s, 0)
  PROVE  EndInv(Append(w, e), t, d, l, v, r, dr) /\ EndInv(v, r, dr, k, Append(w, e), t, d)
<1>1. SendsAt(e.os, t) /\ d = (IF t.pc \in Training THEN TsTime ELSE 1)
  BY SendsPlain
<1>2. l \in Nat \ {0} /\ k \in Nat \ {0} /\ l \in Nat /\ k \in Nat
  OBVIOUS
<1>3. /\ WireInv(w, s) /\ KnowsInv(w, s, r) /\ Together(s, r) /\ PacedInv(w, s, 0, l, r, dr)
      /\ SteadyInv(w, s, 0, l) /\ FollowInv(w, s, 0, v, r, dr)
      /\ WireInv(v, r) /\ KnowsInv(v, r, s) /\ Together(r, s) /\ PacedInv(v, r, dr, k, s, 0)
      /\ SteadyInv(v, r, dr, k) /\ FollowInv(v, r, dr, w, s, 0)
  BY DEF EndInv
<1>4. r.pc \in Training => dr <= TsTime
  BY <1>3 DEF PacedInv
<1>5. PacedInv(v, r, dr, k, t, d) /\ \A j \in 1 .. Len(v) : v[j].at > 0
  BY <1>3, LookPaced
<1>6. /\ FollowInv(v, r, dr, Append(w, e), t, d)
      /\ ~(s.pc = "Accept" /\ s.cnt["TS1"] >= 2 /\ r.pc = "Wait")
  BY <1>1, <1>3, <1>4, <1>5, LeaderLooks
<1>7. WireInv(Append(w, e), t) /\ KnowsInv(Append(w, e), t, r)
  BY <1>1, <1>3, SendWire, SendKnows
<1>8. Together(t, r) /\ Together(r, t)
  <2>1. Together(t, r)
    BY <1>3, <1>6, LookTogether
  <2>2. Steps(s) <= Steps(t) /\ Steps(s) \in 0 .. 7 /\ Steps(t) \in 0 .. 7 /\ Steps(r) \in 0 .. 7
    BY Onward, StepsOf
  <2>3. Steps(r) <= Steps(s) + 1
    BY <1>3 DEF Together
  <2> DEFINE a == Steps(s)
             b == Steps(t)
             c == Steps(r)
  <2>4. a <= b /\ a \in 0 .. 7 /\ b \in 0 .. 7 /\ c \in 0 .. 7 /\ c <= a + 1
    BY <2>2, <2>3
  <2> HIDE DEF a, b, c
  <2>5. c <= b + 1
    BY <2>4
  <2> QED
    BY <2>1, <2>5 DEF Together, b, c
<1>9. PacedInv(Append(w, e), t, d, l, r, dr)
  BY <1>1, <1>2, <1>3, SendPaced
<1>10. SteadyInv(Append(w, e), t, d, l)
  BY <1>1, <1>2, <1>3, SendSteady
<1>11. FollowInv(Append(w, e), t, d, v, r, dr)
  BY <1>1, <1>2, <1>3, <1>4, FollowerLooks
<1>12. KnowsInv(v, r, t)
  BY <1>3, LookKnows
<1> QED
  BY <1>3, <1>5, <1>6, <1>7, <1>8, <1>9, <1>10, <1>11, <1>12 DEF EndInv

LEMMA EndHear ==
  ASSUME NEW w \in Seq(Transit), w # <<>>, Head(w).at = 0, NEW v \in Seq(Transit),
         NEW s \in StateRecord, NEW r \in StateRecord, s.pc \in Plain, r.pc \in Plain,
         NEW ds \in Nat, NEW dr \in Nat, NEW l \in 1 .. TsTime - 1, NEW k,
         EndInv(w, s, ds, l, v, r, dr), EndInv(v, r, dr, k, w, s, ds)
  PROVE  LET c == Count(r, Head(w).os)
         IN  EndInv(Tail(w), s, ds, l, v, c, dr) /\ EndInv(v, c, dr, k, Tail(w), s, ds)
<1> DEFINE os == Head(w).os
           c == Count(r, os)
<1>1. os \in Sequences
  BY Receives DEF Transit
<1>2. c \in StateRecord /\ c.pc = r.pc
  BY <1>1, Counts
<1>3. /\ WireInv(w, s) /\ KnowsInv(w, s, r) /\ Together(s, r) /\ PacedInv(w, s, ds, l, r, dr)
      /\ SteadyInv(w, s, ds, l) /\ FollowInv(w, s, ds, v, r, dr)
      /\ WireInv(v, r) /\ KnowsInv(v, r, s) /\ Together(r, s) /\ PacedInv(v, r, dr, k, s, ds)
      /\ SteadyInv(v, r, dr, k) /\ FollowInv(v, r, dr, w, s, ds)
  BY DEF EndInv
<1>4. l \in Nat \ {0} /\ (r.pc \in Training => dr <= TsTime)
  BY <1>3 DEF PacedInv
<1>5. WireInv(Tail(w), s) /\ KnowsInv(Tail(w), s, c)
  BY <1>3, HearWire, HearKnows
<1>6. PacedInv(Tail(w), s, ds, l, c, dr) /\ SteadyInv(Tail(w), s, ds, l)
  BY <1>2, <1>3, <1>4, HearPaced, HearSteady
<1>7. FollowInv(Tail(w), s, ds, v, c, dr)
  BY <1>3, LeaderHears
<1>8. FollowInv(v, c, dr, Tail(w), s, ds)
  BY <1>3, <1>4, FollowerHears
<1> HIDE DEF c, os
<1>9. Steps(c) = Steps(r) /\ (Talks(c) <=> Talks(r))
  BY <1>2 DEF Steps, Talks
<1>10. Together(s, c) /\ Together(c, s)
  BY <1>3, <1>9 DEF Together
<1>11. WireInv(v, c) /\ KnowsInv(v, c, s)
  <2>1. \A o : Shows(o, r) => Shows(o, c)
    BY <1>9 DEF Shows
  <2>2. \A o, q : Leads(o, q, r) => Leads(o, q, c)
    BY <1>9 DEF Leads
  <2>3. WireInv(v, c)
    BY <1>3, <2>1, <2>2, Zenon DEF WireInv
  <2>4. KnowsInv(v, c, s)
    BY <1>3, <1>9 DEF KnowsInv
  <2> QED
    BY <2>3, <2>4
<1>12. PacedInv(v, c, dr, k, s, ds) /\ SteadyInv(v, c, dr, k)
  BY <1>2, <1>3, Zenon DEF PacedInv, SteadyInv
<1> QED
  BY <1>5, <1>6, <1>7, <1>8, <1>10, <1>11, <1>12 DEF EndInv, c, os

\* Only what a node has received and where it is counts for its end.
Alike(s, t) == t.pc = s.pc /\ t.cnt = s.cnt /\ t.last = s.last

LEMMA EndAlike ==
  ASSUME NEW w, NEW v, NEW s, NEW r, NEW s2, NEW r2, NEW ds, NEW dr, NEW l,
         Alike(s, s2), Alike(r, r2), EndInv(w, s, ds, l, v, r, dr)
  PROVE  EndInv(w, s2, ds, l, v, r2, dr)
<1>1. /\ s2.pc = s.pc /\ s2.cnt = s.cnt /\ s2.last = s.last
      /\ r2.pc = r.pc /\ r2.cnt = r.cnt /\ r2.last = r.last
  BY DEF Alike
<1>2. /\ WireInv(w, s) /\ KnowsInv(w, s, r) /\ Together(s, r) /\ PacedInv(w, s, ds, l, r, dr)
      /\ SteadyInv(w, s, ds, l) /\ FollowInv(w, s, ds, v, r, dr)
  BY DEF EndInv
<1>3. /\ Steps(s2) = Steps(s) /\ Steps(r2) = Steps(r) /\ (Talks(s2) <=> Talks(s))
      /\ Heard(r2) <=> Heard(r)
  BY <1>1 DEF Steps, Talks, Heard
<1>4. WireInv(w, s2)
  <2>1. \A o : Shows(o, s) => Shows(o, s2)
    BY <1>3 DEF Shows
  <2>2. \A o, q : Leads(o, q, s) => Leads(o, q, s2)
    BY <1>3 DEF Leads
  <2> QED
    BY <1>2, <2>1, <2>2, Zenon DEF WireInv
<1>5. KnowsInv(w, s2, r2) /\ Together(s2, r2)
  BY <1>1, <1>2, <1>3 DEF KnowsInv, Together
<1>6. PacedInv(w, s2, ds, l, r2, dr) /\ SteadyInv(w, s2, ds, l)
  BY <1>1, <1>2, Zenon DEF PacedInv, SteadyInv
<1>7. Counted1(w, r2, dr) = Counted1(w, r, dr) /\ Needs(s2) = Needs(s)
  BY <1>1 DEF Counted1, Needs
<1>8. Leaves(w, r2, dr) = Leaves(w, r, dr)
  BY <1>1, <1>7 DEF Leaves
<1>9. FollowInv(w, s2, ds, v, r2, dr)
  BY <1>1, <1>2, <1>7, <1>8 DEF FollowInv, InTime
<1> QED
  BY <1>4, <1>5, <1>6, <1>9 DEF EndInv

LEMMA GoTimes ==
  ASSUME Types, NEW n \in Node, NEW t \in StateRecord, Go(n, t), t.up
  PROVE  /\ due'[n] = Length(t) /\ due'[Peer(n)] = due[Peer(n)] /\ lat' = lat
         /\ \E e \in Transit : /\ e.os = Sent(t) /\ e.at = Length(t) + lat[n]
                               /\ wire'[n] = Append(wire[n], e)
<1> DEFINE e == [os |-> Sent(t), at |-> Length(t) + lat[n]]
<1>1. Length(t) \in Nat /\ lat[n] \in Nat
  BY LengthNat DEF Types
<1>2. e \in Transit /\ e.os = Sent(t) /\ e.at = Length(t) + lat[n]
  BY <1>1, SentTells DEF Transit, Types
<1>3. /\ due' = [due EXCEPT ![n] = Length(t)] /\ lat' = lat
      /\ wire' = [wire EXCEPT ![n] = Append(@, e)]
  BY DEF Go
<1> HIDE DEF e
<1>4. wire'[n] = Append(wire[n], e) /\ due'[n] = Length(t) /\ due'[Peer(n)] = due[Peer(n)]
  BY <1>3, Peers DEF Types
<1> QED
  BY <1>2, <1>3, <1>4

LEMMA GoStep ==
  ASSUME ShortWire, Types, CInv, StepInv, NEW n \in Node, Step(n), ~Configure(n)
  PROVE  StepInv'
<1> DEFINE p == Peer(n)
<1>1. p \in Node /\ p # n /\ Peer(p) = n /\ \A m \in Node : m = n \/ m = p
  BY Peers
<1>2. due[n] = 0 /\ Quiescent
  BY DEF Step, Configure, InitLink, DetectQuiet, LeaveCompliance, PollingActive, PollingConfig,
         LinkwidthStart, LanenumWait, LanenumAccept, ConfigComplete, ConfigIdle, LinkUp,
         DisableTs, DisableEios, DisableWait, LoopbackEntry, LoopbackActive, LoopbackEios,
         LoopbackWait, BackToDetect, Repeat, Ready
<1>3. st[n].done = {} => st[n].pc \in Plain /\ st[n].up
  BY DEF StepInv, PlainInv
<1>4. PICK t \in StateRecord :
        /\ Go(n, t) /\ Moves(st[n], t) /\ st[n].done \subseteq t.done
        /\ t.done = {} => Advances(st[n], t) /\ t.pc \in Plain /\ t.up
  BY <1>3, StepAdvances
<1>5. st'[n] = t /\ st'[p] = st[p] /\ wire'[p] = wire[p] /\ lat' = lat
  BY <1>4, GoFacts DEF Go
<1>6. PlainInv'
  BY <1>1, <1>4, <1>5 DEF StepInv, PlainInv
<1>7. ASSUME Untested'
      PROVE  EndsInv(n)' /\ EndsInv(p)'
  <2>1. t.done = {} /\ Untested
    BY <1>1, <1>4, <1>5, <1>7 DEF Untested
  <2>2. /\ due'[n] = Length(t) /\ due'[p] = due[p]
        /\ \E e \in Transit : /\ e.os = Sent(t) /\ e.at = Length(t) + lat[n]
                              /\ wire'[n] = Append(wire[n], e)
    BY <1>4, <2>1, GoTimes
  <2>3. PICK e \in Transit : /\ e.os = Sent(t) /\ e.at = Length(t) + lat[n]
                             /\ wire'[n] = Append(wire[n], e)
    BY <2>2
  <2>4. /\ EndsInv(n) /\ EndsInv(p) /\ st[n].pc \in Plain /\ st[p].pc \in Plain
    BY <2>1, EndsOf
  <2>5. /\ wire[n] \in Seq(Transit) /\ wire[p] \in Seq(Transit)
        /\ st[n] \in StateRecord /\ st[p] \in StateRecord /\ due[p] \in Nat
        /\ lat[n] \in 1 .. TsTime - 1 /\ lat[p] \in 1 .. TsTime - 1
    <3>1. /\ wire[n] \in Seq(Transit) /\ wire[p] \in Seq(Transit)
          /\ st[n] \in StateRecord /\ st[p] \in StateRecord /\ due[p] \in Nat
      BY <1>1 DEF Types
    <3>2. lat[n] \in Lats /\ lat[p] \in Lats
      BY <1>1 DEF StepInv
    <3>3. \A l \in Lats : l \in Nat \ {0} /\ l < TsTime /\ TsTime \in Nat
      BY TimeAssumption DEF ShortWire
    <3> HIDE DEF p
    <3> QED
      BY <3>1, <3>2, <3>3
  <2>6. wire[p] # <<>> => Head(wire[p]).at > 0
    BY <1>1, <1>2 DEF Quiescent
  <2>7. ASSUME st[n].pc = "Wait", Waits(st[p])
        PROVE  st[n].last.link = st[n].cfg.linknum
    <3>1. SameTests(n)
      BY <1>1, <2>1 DEF SameTests, Tests, Untested
    <3>2. st[n].cfg.linknum = st[p].cfg.linknum
      BY <2>7, <3>1 DEF CInv, ConfigInv, Config
    <3>3. st[n].last.link \in {PAD, st[p].cfg.linknum}
      BY DEF CInv, SentInv
    <3>4. st[n].last.link # PAD
      <4>1. KnowsInv(wire[p], st[p], st[n])
        BY <1>1, <2>4 DEF EndsInv, EndInv
      <4>2. Steps(st[n]) >= 3
        BY <2>7, Ranks DEF Steps
      <4> QED
        BY <4>1, <4>2 DEF KnowsInv
    <3> QED
      BY <3>2, <3>3, <3>4
  <2>8. Length(t) \in Nat
    BY LengthNat
  <2>9. /\ EndInv(wire[n], st[n], 0, lat[n], wire[p], st[p], due[p])
        /\ EndInv(wire[p], st[p], due[p], lat[p], wire[n], st[n], 0)
    BY <1>1, <1>2, <2>4 DEF EndsInv
  <2>10. Advances(st[n], t) /\ t.pc \in Plain
    BY <1>4, <2>1
  <2> HIDE DEF p
  <2>11. /\ EndInv(Append(wire[n], e), t, Length(t), lat[n], wire[p], st[p], due[p])
         /\ EndInv(wire[p], st[p], due[p], lat[p], Append(wire[n], e), t, Length(t))
    BY <2>3, <2>4, <2>5, <2>6, <2>7, <2>8, <2>9, <2>10, EndGo
  <2>12. Peer(n) = p
    BY DEF p
  <2> QED
    BY <1>1, <1>5, <2>2, <2>3, <2>11, <2>12 DEF EndsInv
<1>8. lat' \in [Node -> Lats]
  BY <1>5 DEF StepInv
<1>9. Untested' => \A m \in Node : EndsInv(m)'
  BY <1>1, <1>7
<1> QED
  BY <1>6, <1>8, <1>9, Zenon DEF StepInv, EndsInv

LEMMA PassTimes ==
  ASSUME Types, Pass
  PROVE  \E x \in Nat \ {0} : \A n \in Node :
           due'[n] = due[n] - x /\ due[n] - x \in Nat /\ Earlier(wire[n], wire'[n], x)
<1> DEFINE t == CHOOSE x \in Pending : \A y \in Pending : x <= y
<1>1. Pending \subseteq Nat /\ Pending # {}
  BY PendingNats
<1>2. t \in Pending /\ \A y \in Pending : t <= y
  BY <1>1, Minimum
<1>3. /\ due' = [n \in Node |-> due[n] - t]
      /\ wire' = [n \in Node |-> [k \in DOMAIN wire[n] |-> [wire[n][k] EXCEPT !.at = @ - t]]]
      /\ 0 \notin Pending
  BY DEF Pass
<1> HIDE DEF t
<1>4. t \in Nat \ {0}
  BY <1>1, <1>2, <1>3
<1>5. ASSUME NEW n \in Node
      PROVE  due'[n] = due[n] - t /\ due[n] - t \in Nat /\ Earlier(wire[n], wire'[n], t)
  <2>1. due[n] \in Pending /\ due[n] \in Nat
    BY DEF Pending, Types
  <2>2. due'[n] = due[n] - t /\ due[n] - t \in Nat
    BY <1>2, <1>3, <1>4, <2>1
  <2>3. wire[n] \in Seq(Transit) /\ DOMAIN wire[n] = 1 .. Len(wire[n])
    BY LenProperties DEF Types
  <2>4. SameOrder(wire[n], wire'[n])
    BY PassFacts DEF SameWires, SameOrder
  <2>5. ASSUME NEW k \in 1 .. Len(wire[n])
        PROVE  wire'[n][k].at = wire[n][k].at - t
    <3>1. wire[n][k] \in Transit
      BY <2>3, <2>5, ElementOfSeq
    <3>2. wire'[n][k] = [wire[n][k] EXCEPT !.at = @ - t]
      BY <1>3, <2>3
    <3> QED
      BY <3>1, <3>2 DEF Transit
  <2> QED
    BY <2>2, <2>4, <2>5 DEF Earlier
<1> QED
  BY <1>4, <1>5

\* A step in which no end gets anywhere keeps what is true of each of them.
LEMMA ConfigureStep ==
  ASSUME Types, StepInv, NEW n \in Node, Configure(n)
  PROVE  StepInv'
<1> DEFINE p == Peer(n)
<1>1. p \in Node /\ p # n /\ Peer(p) = n /\ \A m \in Node : m = n \/ m = p
  BY Peers
<1>2. /\ wire' = wire /\ due' = due /\ lat' = lat /\ st'[p] = st[p]
      /\ st'[n].pc = st[n].pc /\ st'[n].done = st[n].done /\ st'[n].cnt = st[n].cnt
      /\ st'[n].last = st[n].last /\ st'[n].up = st[n].up
  BY ConfigureFacts DEF Configure
<1>3. Alike(st[n], st'[n]) /\ Alike(st[p], st'[p])
  BY <1>2 DEF Alike
<1>4. PlainInv'
  BY <1>1, <1>2 DEF StepInv, PlainInv
<1>5. ASSUME Untested'
      PROVE  EndsInv(n)' /\ EndsInv(p)'
  <2>1. Untested
    BY <1>1, <1>2, <1>5 DEF Untested
  <2>2. EndsInv(n) /\ EndsInv(p)
    BY <2>1, EndsOf
  <2>3. EndInv(wire[n], st'[n], due[n], lat[n], wire[p], st'[p], due[p])
    BY <1>3, <2>2, EndAlike DEF EndsInv
  <2>4. EndInv(wire[p], st'[p], due[p], lat[p], wire[n], st'[n], due[n])
    BY <1>1, <1>3, <2>2, EndAlike DEF EndsInv
  <2> QED
    BY <1>1, <1>2, <2>3, <2>4 DEF EndsInv
<1>6. Untested' => \A m \in Node : EndsInv(m)'
  BY <1>1, <1>5
<1>7. lat' \in [Node -> Lats]
  BY <1>2 DEF StepInv
<1> QED
  BY <1>4, <1>6, <1>7, Zenon DEF StepInv, EndsInv

LEMMA ArriveStep ==
  ASSUME ShortWire, Types, StepInv, NEW n \in Node, Arrive(n)
  PROVE  StepInv'
<1> DEFINE p == Peer(n)
           os == Head(wire[n]).os
<1>1. p \in Node /\ p # n /\ Peer(p) = n /\ \A m \in Node : m = n \/ m = p
  BY Peers
<1>2. /\ wire[n] \in Seq(Transit) /\ wire[n] # <<>> /\ Head(wire[n]).at = 0 /\ os \in Sequences
      /\ st'[n] = st[n] /\ st'[p] = Count(st[p], os)
      /\ wire'[n] = Tail(wire[n]) /\ wire'[p] = wire[p] /\ due' = due /\ lat' = lat
  BY ArriveFacts DEF Arrive
<1>3. /\ st[n] \in StateRecord /\ st[p] \in StateRecord /\ due[n] \in Nat /\ due[p] \in Nat
      /\ wire[p] \in Seq(Transit) /\ lat[n] \in 1 .. TsTime - 1
  <2>1. lat[n] \in Lats
    BY DEF StepInv
  <2>2. \A l \in Lats : l \in Nat \ {0} /\ l < TsTime /\ TsTime \in Nat
    BY TimeAssumption DEF ShortWire
  <2>3. lat[n] \in 1 .. TsTime - 1
    BY <2>1, <2>2
  <2> QED
    BY <1>1, <2>3 DEF Types
<1>4. st'[p].pc = st[p].pc /\ st'[p].done = st[p].done /\ st'[p].up = st[p].up
  BY <1>2, <1>3, Counts
<1>5. PlainInv'
  BY <1>1, <1>2, <1>4 DEF StepInv, PlainInv
<1>6. ASSUME Untested'
      PROVE  EndsInv(n)' /\ EndsInv(p)'
  <2>1. Untested
    BY <1>1, <1>2, <1>4, <1>6 DEF Untested
  <2>2. EndsInv(n) /\ EndsInv(p) /\ st[n].pc \in Plain /\ st[p].pc \in Plain
    BY <2>1, EndsOf
  <2>3. /\ EndInv(wire[n], st[n], due[n], lat[n], wire[p], st[p], due[p])
        /\ EndInv(wire[p], st[p], due[p], lat[p], wire[n], st[n], due[n])
    BY <1>1, <2>2 DEF EndsInv
  <2>4. p = Peer(n)
    OBVIOUS
  <2> HIDE DEF p
  <2>5. /\ wire[n] \in Seq(Transit) /\ wire[n] # <<>> /\ Head(wire[n]).at = 0
        /\ st'[p] = Count(st[p], Head(wire[n]).os)
    BY <1>2
  <2>6. /\ EndInv(Tail(wire[n]), st[n], due[n], lat[n],
                  wire[p], Count(st[p], Head(wire[n]).os), due[p])
        /\ EndInv(wire[p], Count(st[p], Head(wire[n]).os), due[p], lat[p],
                  Tail(wire[n]), st[n], due[n])
    <3>1. st[n].pc \in Plain /\ st[p].pc \in Plain
      BY <2>2
    <3> QED
      BY <1>3, <2>3, <2>5, <3>1, EndHear
  <2>7. /\ EndInv(Tail(wire[n]), st[n], due[n], lat[n], wire[p], st'[p], due[p])
        /\ EndInv(wire[p], st'[p], due[p], lat[p], Tail(wire[n]), st[n], due[n])
    BY <2>5, <2>6
  <2> QED
    BY <1>1, <1>2, <2>4, <2>7 DEF EndsInv
<1>7. Untested' => \A m \in Node : EndsInv(m)'
  BY <1>1, <1>6
<1>8. lat' \in [Node -> Lats]
  BY <1>2 DEF StepInv
<1> QED
  BY <1>5, <1>7, <1>8, Zenon DEF StepInv, EndsInv

LEMMA PassStep ==
  ASSUME Types, StepInv, Pass
  PROVE  StepInv'
<1>1. PICK x \in Nat \ {0} : \A n \in Node :
        due'[n] = due[n] - x /\ due[n] - x \in Nat /\ Earlier(wire[n], wire'[n], x)
  BY PassTimes
<1>2. st' = st /\ lat' = lat /\ wire' \in [Node -> Seq(Transit)]
  BY PassFacts DEF Pass, Types
<1>3. PlainInv' /\ lat' \in [Node -> Lats] /\ (Untested' <=> Untested)
  BY <1>2 DEF StepInv, PlainInv, Untested
<1>4. ASSUME Untested, NEW n \in Node
      PROVE  EndsInv(n)'
  <2> DEFINE p == Peer(n)
  <2>1. p \in Node /\ Peer(p) = n
    BY Peers
  <2>2. EndsInv(n) /\ EndsInv(p)
    BY <1>4, EndsOf
  <2>3. /\ st[n] \in StateRecord /\ st[p] \in StateRecord /\ due[n] \in Nat /\ due[p] \in Nat
        /\ wire[n] \in Seq(Transit) /\ wire[p] \in Seq(Transit) /\ lat[n] \in Nat
        /\ wire'[n] \in Seq(Transit) /\ wire'[p] \in Seq(Transit)
    BY <1>2, <2>1 DEF Types
  <2>4. /\ due'[n] = due[n] - x /\ due'[p] = due[p] - x /\ due[p] - x \in Nat
        /\ Earlier(wire[n], wire'[n], x) /\ Earlier(wire[p], wire'[p], x)
    BY <1>1, <2>1
  <2>5. /\ WireInv(wire[n], st[n]) /\ KnowsInv(wire[n], st[n], st[p]) /\ Together(st[n], st[p])
        /\ PacedInv(wire[n], st[n], due[n], lat[n], st[p], due[p])
        /\ SteadyInv(wire[n], st[n], due[n], lat[n])
        /\ FollowInv(wire[n], st[n], due[n], wire[p], st[p], due[p])
        /\ PacedInv(wire[p], st[p], due[p], lat[p], st[n], due[n])
    BY <2>1, <2>2 DEF EndsInv, EndInv
  <2>6. st[p].pc \in Training => due[p] <= TsTime
    BY <2>5 DEF PacedInv
  <2> HIDE DEF p
  <2>7. /\ WireInv(wire'[n], st[n]) /\ KnowsInv(wire'[n], st[n], st[p])
        /\ PacedInv(wire'[n], st[n], due[n] - x, lat[n], st[p], due[p] - x)
        /\ SteadyInv(wire'[n], st[n], due[n] - x, lat[n])
    BY <2>3, <2>4, <2>5, <2>6, PassEnd
  <2>8. FollowInv(wire'[n], st[n], due[n] - x, wire'[p], st[p], due[p] - x)
    BY <2>3, <2>4, <2>5, PassFollow
  <2>9. EndInv(wire'[n], st'[n], due'[n], lat'[n], wire'[p], st'[p], due'[p])
    BY <1>2, <2>4, <2>5, <2>7, <2>8 DEF EndInv
  <2> QED
    BY <2>9 DEF EndsInv, p
<1> QED
  BY <1>3, <1>4, Zenon DEF StepInv, EndsInv

LEMMA InitStep ==
  ASSUME Init
  PROVE  StepInv
<1> DEFINE zero == [e \in Events |-> 0]
           first(g, n) == [pc |-> "Setup", todo |-> g[n], cfg |-> DefaultConfig, i |-> 0,
                           seen |-> FALSE, done |-> {}, up |-> TRUE, tx_n_fts |-> 0,
                           cnt |-> zero, last |-> Blank("TS1")]
<1>1. PICK g \in Programs : st = [n \in Node |-> first(g, n)]
  BY DEF Init
<1>2. \A e \in Events : zero[e] = 0
  OBVIOUS
<1>3. Blank("TS1").link = PAD /\ Blank("TS1").lane = PAD /\ PAD # 0
  BY DEF Blank, Ts, PAD
<1>4. ASSUME NEW n \in Node
      PROVE  /\ st[n].pc = "Setup" /\ st[n].up /\ st[n].done = {} /\ wire[n] = <<>>
             /\ \A e \in Events : st[n].cnt[e] = 0
             /\ st[n].last.link = PAD /\ st[n].last.lane = PAD
  <2>1. st[n] = first(g, n)
    BY <1>1
  <2>2. /\ first(g, n).pc = "Setup" /\ first(g, n).up /\ first(g, n).done = {}
        /\ first(g, n).cnt = zero /\ first(g, n).last = Blank("TS1")
    OBVIOUS
  <2> HIDE DEF first, zero
  <2> QED
    BY <1>2, <1>3, <2>1, <2>2 DEF Init
<1> HIDE DEF zero, first
<1>5. lat \in [Node -> Lats]
  BY DEF Init
<1>6. PlainInv
  BY <1>4 DEF PlainInv, Plain
<1>7. 1 .. Len(<<>>) = {}
  OBVIOUS
<1>8. ASSUME NEW n \in Node
      PROVE  EndsInv(n)
  <2> DEFINE p == Peer(n)
             s == st[n]
             r == st[p]
  <2>1. p \in Node
    BY Peers
  <2>2. /\ wire[n] = <<>> /\ s.pc = "Setup" /\ r.pc = "Setup"
        /\ \A e \in Events : r.cnt[e] = 0
        /\ r.last.link = PAD /\ r.last.lane = PAD
    BY <1>4, <2>1
  <2>3. Steps(s) = 0 /\ Steps(r) = 0 /\ ~Heard(r)
    BY <2>2, Ranks DEF Steps, Heard, Events
  <2> HIDE DEF p, s, r
  <2>4. WireInv(wire[n], s)
    BY <1>7, <2>2 DEF WireInv
  <2>5. KnowsInv(wire[n], s, r)
    BY <1>3, <2>2, <2>3 DEF KnowsInv, Events
  <2>6. Together(s, r)
    BY <2>3 DEF Together
  <2>7. PacedInv(wire[n], s, due[n], lat[n], r, due[p])
    BY <1>7, <2>2 DEF PacedInv, Training
  <2>8. SteadyInv(wire[n], s, due[n], lat[n]) /\ FollowInv(wire[n], s, due[n], wire[p], r, due[p])
    BY <2>2 DEF SteadyInv, FollowInv
  <2> QED
    BY <2>4, <2>5, <2>6, <2>7, <2>8 DEF EndsInv, EndInv, p, s, r
<1> QED
  BY <1>5, <1>6, <1>8, Zenon DEF StepInv, EndsInv

LEMMA StepTogether ==
  ASSUME StepInv
  PROVE  InStep
<1>1. ASSUME NEW m \in Node, NEW n \in Node, st[m].done \cup st[n].done = {}
      PROVE  Rank[st[m].pc] - Rank[st[n].pc] <= 1
  <2>1. st[m].pc \in Plain /\ st[n].pc \in Plain
    BY <1>1 DEF StepInv, PlainInv
  <2>2. Steps(st[m]) \in 0 .. 7 /\ Steps(st[n]) \in 0 .. 7
    BY <2>1, StepsOf
  <2>3. CASE m = n
    BY <2>2, <2>3 DEF Steps
  <2>4. CASE m # n
    <3>1. n = Peer(m) /\ \A k \in Node : k = m \/ k = n
      BY <2>4, Peers
    <3>2. Untested
      BY <1>1, <3>1 DEF Untested
    <3>3. Together(st[m], st[n])
      BY <3>1, <3>2, EndsOf DEF EndsInv, EndInv
    <3> QED
      BY <2>2, <3>3 DEF Together, Steps
  <2> QED
    BY <2>3, <2>4
<1> QED
  BY <1>1 DEF InStep

(* Neither end gets two states ahead of the other on a wire shorter than a *)
(* training sequence.  Up to Lanenum.Wait and after Lanenum.Accept what an *)
(* end waits for is not sent before the peer is in the state it leaves.    *)
(* Lanenum.Accept counts sequences that the peer sent in Lanenum.Wait; but *)
(* those come one in a training sequence, and the two that the peer needs  *)
(* were sent before and are there first.                                   *)
THEOREM StaysInStep == ShortWire => (Spec => []InStep)
<1> SUFFICES ASSUME ShortWire
             PROVE  Spec => []InStep
  OBVIOUS
<1>1. Init => StepInv
  BY InitStep
<1>2. Types /\ CInv /\ StepInv /\ [Next]_vars => StepInv'
  <2> SUFFICES ASSUME Types, CInv, StepInv, [Next]_vars
               PROVE  StepInv'
    OBVIOUS
  <2>1. ASSUME NEW n \in Node, Arrive(n)
        PROVE  StepInv'
    BY <2>1, ArriveStep
  <2>2. ASSUME NEW n \in Node, Configure(n)
        PROVE  StepInv'
    BY <2>2, ConfigureStep
  <2>3. ASSUME NEW n \in Node, Step(n), ~Configure(n)
        PROVE  StepInv'
    BY <2>3, GoStep
  <2>4. CASE Pass
    BY <2>4, PassStep
  <2>5. CASE UNCHANGED vars
    BY <2>5, Zenon DEF vars, StepInv, PlainInv, Untested
  <2> QED
    BY <2>1, <2>2, <2>3, <2>4, <2>5 DEF Next
<1>3. StepInv => InStep
  BY StepTogether
<1> QED
  BY <1>1, <1>2, <1>3, Inductive, PTL DEF Spec
=============================================================================
