------------------------------- MODULE Ltssm -------------------------------
(***************************************************************************)
(* 5.sim/models/pcievhost/ltssm/ltssm.c: link training, run by the two     *)
(* ends of a link against each other (VUserMain1.cpp and VUserMain2.cpp    *)
(* both call InitLink).  Each end is a sequential program that sends one   *)
(* ordered set or idle at a time and then looks at what has come in; there *)
(* is no timeout after Detect.Quiet.                                       *)
(*                                                                         *)
(* Time is counted in units of one idle.  due[n] is what is left of node   *)
(* n's current transmission; when it is over, the body of the loop n is in *)
(* runs and starts the next one.  What is sent arrives lat[n] units after  *)
(* its end and is counted by the receiving model whether or not its        *)
(* program is looking.                                                     *)
(*                                                                         *)
(* InitLink asks for L0 only, so TxL0s, Recovery, HotReset, L1 and L2 are  *)
(* never entered and not modelled.  Lane 0 stands for all: LinkState       *)
(* passes active_lanes = 0 to Configuration, which then looks at one lane. *)
(***************************************************************************)
EXTENDS Integers, Sequences

CONSTANTS
  Node,      \* the two ends
  Programs,  \* for each end, the calls it makes before InitLink
  Skews,     \* how late an end may start
  Lats,      \* how long the wire may take
  TsTime,    \* length of a training sequence
  QuietTo,   \* DEFAULT_DETECT_QUIET_TIMEOUT
  PollTx,    \* PCIE_POLLING_ACTIVE_TX_COUNT
  RestTime,  \* SendIdle at the end of Disabled and of Loopback
  HideTime   \* SendIdle of Polling.Compliance

ASSUME TimeAssumption ==
  /\ Lats \subseteq Nat \ {0} /\ Skews \subseteq Nat
  /\ {TsTime, QuietTo, PollTx, RestTime, HideTime} \subseteq Nat \ {0}

ASSUME NodeAssumption == \E m, n \in Node : m # n /\ Node = {m, n}

\* The type of a configuration call, maybe unknown, and its value.
ASSUME ProgramsAssumption == \A p \in Programs, n \in Node : p[n] \in Seq(STRING \X Int)

VARIABLES
  st,     \* st[n]: program state of n, its statics and its receive counters
  due,    \* time until n's current transmission is over
  wire,   \* wire[n]: what n has sent, with the time to its arrival
  lat,    \* delay from n to its peer
  stray,  \* the word after the array ltssm_ts_ctl
  fatal   \* PVH_FATAL has been written

vars == <<st, due, wire, lat, stray, fatal>>

Peer(n) == CHOOSE m \in Node : m # n

PAD == 503        \* 0x1f7
NoChange == -1    \* LINK_INIT_NO_CHANGE
DISABLE == 1      \* bits of the test masks
COMPLIANCE == 2
LOOPBACK == 4
CtlDisable == 2   \* TS_CNTL_DISABLE_LINK
CtlLoopback == 4  \* TS_CNTL_LOOPBACK

Events == {"TS1", "TS2", "IDL", "D0"}
Has(mask, bit) == (mask \div bit) % 2 = 1
Least(a, b) == IF a < b THEN a ELSE b

\* No test on a counter looks past these.
CountCap == 8
LoopCap(s) == IF s.cfg.poll_tx_count > 16 THEN s.cfg.poll_tx_count ELSE 16
-----------------------------------------------------------------------------
(* The static configuration of a node and the two calls that change it.    *)

DefaultConfig ==
  [linknum |-> 0, n_fts |-> 4, ts_ctl |-> 0, quiet_to |-> QuietTo,
   enable_tests |-> 0, force_tests |-> 0, poll_tx_count |-> PollTx]

\* Faulty variant: the link number is stored as given.
LimitRaw(field, value) == IF field = "ts_ctl" THEN value % 32 ELSE value

Limit(field, value) ==
  CASE field \in {"linknum", "n_fts"} -> value % 256
    [] field = "ts_ctl" -> value % 32
    [] OTHER -> value

\* ConfigurePcieLtssm fills a structure in which all other fields are
\* 'no change' and hands it to ConfigLinkInit.
ConfigLinkInit(cfg, field, value) ==
  IF value = NoChange THEN cfg ELSE [cfg EXCEPT ![field] = Limit(field, value)]
-----------------------------------------------------------------------------
(* What a node sends in each loop.                                         *)

Ts(id, lane, link, nfts, ctl) ==
  [id |-> id, lane |-> lane, link |-> link, n_fts |-> nfts, ctl |-> ctl]
Blank(id) == Ts(id, PAD, PAD, 0, 0)

Training == {"PollActive", "PollConfig", "Start", "Wait", "Accept", "Complete"}
TestTs == {"DisableTs", "LoopEntry", "LoopActive"}

LaneSent(s) == IF s.pc \in {"Wait", "Accept", "Complete"} \cup TestTs THEN 0 ELSE PAD
LinkSent(s) == IF s.pc \in {"PollActive", "PollConfig"} THEN PAD ELSE s.cfg.linknum

\* In Polling and Configuration the control field is ltssm_ts_ctl[VP_MAX_NODES],
\* the word after the array.
CtlSent(s) == IF s.pc \in Training THEN stray
              ELSE IF s.pc = "DisableTs" THEN CtlDisable ELSE CtlLoopback

Sent(s) ==
  CASE s.pc \in {"PollConfig", "Complete"} ->
         Ts("TS2", LaneSent(s), LinkSent(s), s.cfg.n_fts, CtlSent(s))
    [] s.pc \in {"PollActive", "Start", "Wait", "Accept"} \cup TestTs ->
         Ts("TS1", LaneSent(s), LinkSent(s), s.cfg.n_fts, CtlSent(s))
    [] s.pc \in {"DisableEios", "LoopEios"} -> Blank("IDL")
    [] OTHER -> Blank("D0")

Length(s) ==
  CASE s.pc \in Training \cup TestTs -> TsTime
    [] s.pc = "Compliance" -> HideTime
    [] s.pc \in {"DisableRest", "LoopRest"} -> RestTime
    [] OTHER -> 1

\* Node n goes on as s, with the first transmission of the loop s is in.
\* Nothing arrives from a lane in electrical idle.
Go(n, s) ==
  /\ st' = [st EXCEPT ![n] = s]
  /\ due' = [due EXCEPT ![n] = Length(s)]
  /\ wire' = IF s.up
             THEN [wire EXCEPT ![n] = Append(@, [os |-> Sent(s), at |-> Length(s) + lat[n]])]
             ELSE wire
  /\ UNCHANGED <<lat, stray, fatal>>

\* ResetEventCount for each of the kinds ids.
Reset(s, ids) ==
  [s EXCEPT !.cnt = [e \in Events |-> IF e \in ids THEN 0 ELSE s.cnt[e]]]

\* A test exception is taken at most once: always when forced, at random
\* when enabled.
Takes(s, test) ==
  IF test \in s.done THEN {FALSE}
  ELSE IF Has(s.cfg.force_tests, test) THEN {TRUE}
  ELSE IF Has(s.cfg.enable_tests, test) THEN BOOLEAN ELSE {FALSE}

At(s, pc) == [s EXCEPT !.pc = pc, !.i = 0]
-----------------------------------------------------------------------------
(* The states of the machine, as the set of ways of entering them.         *)

Detect(s) == {At(s, "Quiet")}

PollActive(s) == [At(s, "PollActive") EXCEPT !.up = TRUE]

\* Compliance idles one lane of sixteen at random, maybe the one there is.
Polling(s) ==
  LET r == Reset(s, {"TS1", "TS2"})
      test == [At(r, "Compliance") EXCEPT !.done = @ \cup {COMPLIANCE}]
  IN  UNION {IF t THEN {test, [test EXCEPT !.up = FALSE]} ELSE {PollActive(r)} :
             t \in Takes(s, COMPLIANCE)}

Start(s) == Reset(At(s, "Start"), {"TS1"})

Disabled(s) ==
  [Reset(At(s, "DisableTs"), {"IDL"}) EXCEPT !.done = @ \cup {DISABLE}]

Loopback(s) ==
  [Reset(At(s, "LoopEntry"), {"TS1"}) EXCEPT !.done = @ \cup {LOOPBACK}]

Configuration(s) ==
  UNION {IF d THEN {Disabled(s)}
         ELSE {IF l THEN Loopback(s) ELSE Start(s) : l \in Takes(s, LOOPBACK)} :
         d \in Takes(s, DISABLE)}

\* ts2_count is read before it is first written: any value.
Complete(s) == {[Reset(At(s, "Complete"), {"TS2"}) EXCEPT !.seen = b] : b \in BOOLEAN}
-----------------------------------------------------------------------------
\* What has arrived is counted before a program looks.
Quiescent == \A n \in Node : wire[n] # <<>> => Head(wire[n]).at > 0

Ready(n, pc) == st[n].pc = pc /\ due[n] = 0 /\ Quiescent /\ ~fatal

\* The node's program configures the model...
Configure(n) ==
  LET call == Head(st[n].todo)
  IN  /\ Ready(n, "Setup")
      /\ st[n].todo # <<>>
      /\ IF call[1] \in DOMAIN DefaultConfig
         THEN /\ st' = [st EXCEPT ![n].todo = Tail(@),
                                  ![n].cfg = ConfigLinkInit(@, call[1], call[2])]
              /\ UNCHANGED fatal
         ELSE /\ fatal' = TRUE    \* bad config type
              /\ UNCHANGED st
      /\ UNCHANGED <<due, wire, lat, stray>>

\* ... and calls InitLink.
InitLink(n) ==
  /\ Ready(n, "Setup")
  /\ st[n].todo = <<>>
  /\ \E s \in Detect(st[n]) : Go(n, s)

\* Detect: wait until the peer drives the link, or for the timeout.
DetectQuiet(n) ==
  LET s == st[n]
  IN  /\ Ready(n, "Quiet")
      /\ IF s.i + 1 < s.cfg.quiet_to /\ ~st[Peer(n)].up
         THEN Go(n, [s EXCEPT !.i = @ + 1])
         ELSE \E p \in Polling(s) : Go(n, p)

\* Polling.Compliance: an open-loop delay.
LeaveCompliance(n) == Ready(n, "Compliance") /\ Go(n, PollActive(st[n]))

\* One more transmission counted by the loop variable, from the first one
\* on that sees something from the peer.
Counted(s, heard) == IF heard \/ s.i > 0 THEN Least(s.i + 1, LoopCap(s)) ELSE 0

HeardPad(s) == s.last.link = PAD /\ s.last.lane = PAD

\* Polling.Active: eight training sequences without link and lane numbers.
PollingActive(n) ==
  LET s == st[n]
      j == Counted(s, s.cnt["TS1"] > 0 \/ s.cnt["TS2"] > 0)
      enough == HeardPad(s) /\ (s.cnt["TS1"] >= 8 \/ s.cnt["TS2"] >= 8)
  IN  /\ Ready(n, "PollActive")
      /\ IF enough /\ j >= s.cfg.poll_tx_count
         THEN Go(n, Reset(At(s, "PollConfig"), {"TS2"}))
         ELSE Go(n, [s EXCEPT !.i = j])

\* Polling.Config: the same for TS2, but other sequences restart the count.
PollingConfig(n) ==
  LET s == st[n]
      j == Counted(s, s.cnt["TS2"] > 0)
      t == IF HeardPad(s) THEN s ELSE Reset(s, {"TS2"})
  IN  /\ Ready(n, "PollConfig")
      /\ IF t.cnt["TS2"] >= 8 /\ j >= 16
         THEN \E c \in Configuration(t) : Go(n, c)
         ELSE Go(n, [t EXCEPT !.i = j])

\* Faulty variant: any two TS1 will do.
StartAnyLink(n) ==
  LET s == st[n]
      t == IF s.last.link = PAD THEN Reset(s, {"TS1"}) ELSE s
  IN  /\ Ready(n, "Start")
      /\ IF t.cnt["TS1"] >= 2 THEN Go(n, Reset(At(t, "Wait"), {"TS1"})) ELSE Go(n, t)

\* Linkwidth.Start: two TS1 with this node's own link number.
LinkwidthStart(n) ==
  LET s == st[n]
      t == IF s.last.link = PAD THEN Reset(s, {"TS1"}) ELSE s
  IN  /\ Ready(n, "Start")
      /\ IF t.cnt["TS1"] >= 2 /\ s.last.link = s.cfg.linknum
         THEN Go(n, Reset(At(t, "Wait"), {"TS1"}))
         ELSE Go(n, t)

\* Faulty variant: Lanenum.Accept left out.
WaitThenComplete(n) ==
  LET s == st[n]
      bad == s.last.link # s.cfg.linknum \/ s.last.lane # 0
      t == IF bad THEN Reset(s, {"TS1"}) ELSE s
  IN  /\ Ready(n, "Wait")
      /\ IF t.cnt["TS1"] >= 2 THEN \E c \in Complete(t) : Go(n, c) ELSE Go(n, t)

\* Lanenum.Wait: two TS1 with link and lane number.
LanenumWait(n) ==
  LET s == st[n]
      bad == s.last.link # s.cfg.linknum \/ s.last.lane # 0
      t == IF bad THEN Reset(s, {"TS1"}) ELSE s
  IN  /\ Ready(n, "Wait")
      /\ IF t.cnt["TS1"] >= 2 THEN Go(n, Reset(At(t, "Accept"), {"TS1"})) ELSE Go(n, t)

BothWrong(s) == s.last.link # s.cfg.linknum /\ s.last.lane # 0

LanenumAccept(n) ==
  LET s == st[n]
      t == IF BothWrong(s) THEN Reset(s, {"TS1"}) ELSE s
  IN  /\ Ready(n, "Accept")
      /\ IF t.cnt["TS1"] >= 2 THEN \E c \in Complete(t) : Go(n, c) ELSE Go(n, t)

\* Faulty variant: a node notes its own number of fast training sequences.
CompleteOwn(n) ==
  LET s == st[n]
      sendcount == IF s.seen THEN Least(s.i + 1, LoopCap(s)) ELSE s.i
      got == IF BothWrong(s) THEN 0 ELSE s.cnt["TS2"]
  IN  /\ Ready(n, "Complete")
      /\ IF got >= 8 /\ sendcount >= 16
         THEN Go(n, [Reset(At(s, "Idle"), {"D0"}) EXCEPT !.tx_n_fts = s.cfg.n_fts])
         ELSE Go(n, [s EXCEPT !.i = sendcount, !.seen = got > 0])

\* Configuration.Complete: eight TS2 received, sixteen sent since the first.
ConfigComplete(n) ==
  LET s == st[n]
      sendcount == IF s.seen THEN Least(s.i + 1, LoopCap(s)) ELSE s.i
      got == IF BothWrong(s) THEN 0 ELSE s.cnt["TS2"]
  IN  /\ Ready(n, "Complete")
      /\ IF got >= 8 /\ sendcount >= 16
         THEN Go(n, [Reset(At(s, "Idle"), {"D0"}) EXCEPT !.tx_n_fts = s.last.n_fts])
         ELSE Go(n, [s EXCEPT !.i = sendcount, !.seen = got > 0])

\* Configuration.Idle, and the return of InitLink.
ConfigIdle(n) ==
  LET s == st[n]
      j == IF s.cnt["D0"] > 0 THEN Least(s.i + 1, LoopCap(s)) ELSE s.i
  IN  /\ Ready(n, "Idle")
      /\ IF j >= 16 /\ s.cnt["D0"] >= 8 THEN Go(n, At(s, "L0"))
         ELSE Go(n, [s EXCEPT !.i = j])

\* After InitLink the program sends idles for as long as it has nothing else.
LinkUp(n) == Ready(n, "L0") /\ Go(n, st[n])

\* A fixed number of training sequences: the rest of them, or on to 'next'.
Repeat(n, pc, times, next(_)) ==
  LET s == [st[n] EXCEPT !.i = @ + 1]
  IN  /\ Ready(n, pc)
      /\ IF s.i < times THEN Go(n, s) ELSE Go(n, next(s))

\* Faulty variant: the counter reset when the EIOS is sent, as Loopback does.
DisableTsReset(n) ==
  Repeat(n, "DisableTs", 16, LAMBDA s : Reset(At(s, "DisableEios"), {"IDL"}))

DisableTs(n) == Repeat(n, "DisableTs", 16, LAMBDA s : At(s, "DisableEios"))

\* The loop that waits for the peer's EIOS reads the counter before it sends.
WaitEios(s, pc) == [At(s, pc) EXCEPT !.up = FALSE, !.seen = s.cnt["IDL"] > 0]

DisableEios(n) == Ready(n, "DisableEios") /\ Go(n, WaitEios(st[n], "DisableWait"))

DisableWait(n) ==
  /\ Ready(n, "DisableWait")
  /\ Go(n, IF st[n].seen THEN At(st[n], "DisableRest") ELSE WaitEios(st[n], "DisableWait"))

LoopbackEntry(n) ==
  LET s == st[n]
  IN  /\ Ready(n, "LoopEntry")
      /\ Go(n, IF s.cnt["TS1"] > 0 /\ Has(s.last.ctl, CtlLoopback)
               THEN At(s, "LoopActive") ELSE s)

LoopbackActive(n) ==
  Repeat(n, "LoopActive", 64, LAMBDA s : Reset(At(s, "LoopEios"), {"IDL"}))

LoopbackEios(n) == Ready(n, "LoopEios") /\ Go(n, WaitEios(st[n], "LoopWait"))

LoopbackWait(n) ==
  /\ Ready(n, "LoopWait")
  /\ Go(n, IF st[n].seen THEN At(st[n], "LoopRest") ELSE WaitEios(st[n], "LoopWait"))

BackToDetect(n) ==
  /\ Ready(n, "DisableRest") \/ Ready(n, "LoopRest")
  /\ \E s \in Detect(st[n]) : Go(n, s)
-----------------------------------------------------------------------------
(* The receiving side of the model and the passing of time.                *)

\* ReadEventCount and GetTS look at what this leaves.
Count(s, os) ==
  [s EXCEPT !.cnt[os.id] = Least(@ + 1, CountCap),
            !.last = IF os.id \in {"TS1", "TS2"} THEN os ELSE @]

Arrive(n) ==
  /\ wire[n] # <<>> /\ Head(wire[n]).at = 0
  /\ st' = [st EXCEPT ![Peer(n)] = Count(@, Head(wire[n]).os)]
  /\ wire' = [wire EXCEPT ![n] = Tail(@)]
  /\ UNCHANGED <<due, lat, stray, fatal>>

Pending == {due[n] : n \in Node} \cup UNION {{wire[n][k].at : k \in DOMAIN wire[n]} : n \in Node}

Pass ==
  /\ ~fatal
  /\ 0 \notin Pending
  /\ LET t == CHOOSE x \in Pending : \A y \in Pending : x <= y
     IN  /\ due' = [n \in Node |-> due[n] - t]
         /\ wire' = [n \in Node |->
                       [k \in DOMAIN wire[n] |-> [wire[n][k] EXCEPT !.at = @ - t]]]
  /\ UNCHANGED <<st, lat, stray, fatal>>

Step(n) ==
  \/ Configure(n)
  \/ InitLink(n)
  \/ DetectQuiet(n)
  \/ LeaveCompliance(n)
  \/ PollingActive(n)
  \/ PollingConfig(n)
  \/ LinkwidthStart(n)
  \/ LanenumWait(n)
  \/ LanenumAccept(n)
  \/ ConfigComplete(n)
  \/ ConfigIdle(n)
  \/ LinkUp(n)
  \/ DisableTs(n)
  \/ DisableEios(n)
  \/ DisableWait(n)
  \/ LoopbackEntry(n)
  \/ LoopbackActive(n)
  \/ LoopbackEios(n)
  \/ LoopbackWait(n)
  \/ BackToDetect(n)

\* Both user programs have taken their lanes out of electrical idle.
Init ==
  /\ \E p \in Programs :
       st = [n \in Node |->
               [pc |-> "Setup", todo |-> p[n], cfg |-> DefaultConfig, i |-> 0,
                seen |-> FALSE, done |-> {}, up |-> TRUE, tx_n_fts |-> 0,
                cnt |-> [e \in Events |-> 0], last |-> Blank("TS1")]]
  /\ due \in {d \in [Node -> Skews] : \E n \in Node : d[n] = 0}
  /\ wire = [n \in Node |-> <<>>]
  /\ lat \in [Node -> Lats]
  /\ stray \in {0, CtlLoopback}
  /\ fatal = FALSE

Next ==
  \/ \E n \in Node : Arrive(n) \/ Step(n)
  \/ Pass

\* The simulation goes on for as long as it is not told to stop.
Spec == Init /\ [][Next]_vars /\ WF_vars(Next)
-----------------------------------------------------------------------------
States ==
  {"Setup", "Quiet", "Compliance", "Start", "Idle", "L0", "DisableEios", "DisableWait",
   "DisableRest", "LoopEios", "LoopWait", "LoopRest"} \cup Training \cup TestTs

Sequences == [id : Events, lane : {0, PAD}, link : 0 .. 255 \cup {PAD}, n_fts : 0 .. 255,
              ctl : {0, CtlDisable, CtlLoopback}]

TypeOK ==
  /\ \A n \in Node :
       /\ st[n].pc \in States
       /\ st[n].i \in Nat
       /\ st[n].cnt \in [Events -> 0 .. CountCap]
       /\ st[n].last \in Sequences
       /\ st[n].done \subseteq {DISABLE, COMPLIANCE, LOOPBACK}
       /\ st[n].tx_n_fts \in 0 .. 255
       /\ {st[n].seen, st[n].up} \subseteq BOOLEAN
       /\ st[n].cfg.linknum \in 0 .. 255
       /\ st[n].cfg.n_fts \in 0 .. 255
       /\ st[n].cfg.ts_ctl \in 0 .. 31
       /\ due[n] \in Nat
       /\ wire[n] \in Seq([os : Sequences, at : Nat])
  /\ fatal \in BOOLEAN

(* A node that has got past Linkwidth.Start has a peer with the same link  *)
(* number that is at least in that state, and both drive their lanes,      *)
(* unless only one of them took a test exception: what the counters show   *)
(* is never left over from an earlier state of the peer.                   *)
LinkAgreed ==
  \A n \in Node :
    (/\ st[n].pc \in {"Wait", "Accept", "Complete", "Idle", "L0"}
     /\ st[n].done \ {COMPLIANCE} = st[Peer(n)].done \ {COMPLIANCE}) =>
      /\ st[Peer(n)].pc \in {"Start", "Wait", "Accept", "Complete", "Idle", "L0"}
      /\ st[n].cfg.linknum = st[Peer(n)].cfg.linknum
      /\ st[n].up /\ st[Peer(n)].up

(* The number of fast training sequences a node takes from the last TS2 it *)
(* looked at is the one its peer is configured with.                       *)
FtsLearned ==
  \A n \in Node :
    st[n].pc \in {"Idle", "L0"} => st[n].tx_n_fts = st[Peer(n)].cfg.n_fts

Rank ==
  [pc \in States |->
     CASE pc = "PollConfig" -> 1
       [] pc = "Start" -> 2
       [] pc = "Wait" -> 3
       [] pc = "Accept" -> 4
       [] pc = "Complete" -> 5
       [] pc = "Idle" -> 6
       [] pc = "L0" -> 7
       [] OTHER -> 0]

(* No node gets two states ahead of its peer.  Each state sends what the   *)
(* peer needs to leave the same state, so a node that is two ahead has     *)
(* left the peer behind for good: there is no timeout to help it.          *)
InStep ==
  \A m, n \in Node :
    st[m].done \cup st[n].done = {} => Rank[st[m].pc] - Rank[st[n].pc] <= 1

(* Two nodes with the same link number and the same forced tests, none of  *)
(* them Loopback, end up in L0 together.                                   *)
Matched ==
  \A m, n \in Node :
    /\ st[m].pc # "Setup"
    /\ st[m].cfg.linknum = st[n].cfg.linknum
    /\ Has(st[m].cfg.force_tests, DISABLE) <=> Has(st[n].cfg.force_tests, DISABLE)
    /\ ~Has(st[m].cfg.force_tests, LOOPBACK)
    /\ ~Has(st[m].cfg.enable_tests, LOOPBACK) /\ ~Has(st[m].cfg.enable_tests, DISABLE)

(* Two nodes that agree always come up, whenever they start, however their *)
(* transmissions are aligned, through the forced Disabled state and with   *)
(* either of them in Compliance first.                                     *)
Trains == Matched ~> \A n \in Node : st[n].pc = "L0"
=============================================================================
