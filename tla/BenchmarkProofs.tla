---------------------------- MODULE BenchmarkProofs ----------------------------
(***************************************************************************)
(* Three results on the benchmark, for every pool, seed, workload and      *)
(* sweep of levels. While every answer comes, the phases keep to rings: no *)
(* two transfers under way take from one account or give to one. However   *)
(* much is lost, a level that calls itself valid has committed its plan,   *)
(* each transfer once. And a sweep in which every answer comes is valid,   *)
(* if its accounts are opened with enough.                                 *)
(***************************************************************************)
EXTENDS Benchmark, FiniteSetTheorems, TLAPS

(***************************************************************************)
(* What the proofs keep track of.                                          *)
(***************************************************************************)
Stages == {"clean", "setup", "warmup", "metrics before", "measured", "metrics after",
           "verify", "verify keys", "ended"}

\* The stages of a level whose accounts have all been opened.
Opened == Stages \ {"clean", "setup", "ended"}

ClientOK ==
  /\ level \in Nat /\ stage \in Stages /\ at \in Nat /\ disturbances \in Nat
  /\ DOMAIN doomed = DOMAIN NothingDoomed

\* The setup opens one account after the other; requests for the next one may have
\* answers in open, the earlier ones have succeeded.
InTurn(open) ==
  LET next == OpenRequest(Len(pool)) IN
  /\ IsFiniteSet(Sent)
  /\ Cardinality(Sent) = IF next \in Sent THEN Len(pool) + 1 ELSE Len(pool)
  /\ \A r \in Sent :
       \/ r.kind = "account" /\ r.index \in 0 .. Len(pool) - 1 /\ answer[r] = "ok"
       \/ r = next /\ answer[r] \in open /\ Len(pool) < PoolSize

\* In a calm sweep the setup opens accounts under keys that nobody has used, so that the
\* pool has no account twice, and whatever the service works on is of the phase that runs.
OpeningOK ==
  /\ InTurn({"waiting"})
  /\ \A k \in DOMAIN record : k[1] = "account" /\ k[2] \in 0 .. Len(pool) - 1

Calm ==
  /\ inService \subseteq Outstanding
  /\ pool \in Seq(Nat \X Nat) /\ Len(pool) <= PoolSize
  /\ \A p \in 1 .. Len(pool) : pool[p] = <<level, p - 1>>
  /\ stage = "clean" => /\ pool = <<>> /\ answer = <<>>
                        /\ at = 0 \/ doomed.records = DOMAIN record
  /\ stage = "setup" => OpeningOK
  /\ stage \in Opened => Len(pool) = PoolSize
  /\ IF stage \in {"warmup", "measured"}
     THEN \A r \in inService : \E i \in Chunk(at) : r = TransferRequest(i)
     ELSE stage = "setup" \/ inService = {}

Undisturbed == ClientOK /\ (disturbances = 0 => Calm)

\* The next part is true of every sweep. Requests that the service still works on may be of
\* any level; what the client takes for done is not among them.
AccountRequest(l, p) ==
  [level |-> l, kind |-> "account", index |-> p, url |-> p % Instances,
   from |-> <<l, p>>, to |-> <<l, p>>]

WorkOK ==
  /\ \A r \in inService : r.level \in 1 .. level /\ (r.level = level => r \in Sent)
  /\ \A r \in inService \cup Sent :
       \/ r.kind = "account" /\ \E l \in 1 .. level, p \in Positions : r = AccountRequest(l, p)
       \/ r.kind = "transfer" /\ r.index \in Plans
  /\ \A r \in Sent : /\ r.level = level /\ answer[r] \in {"waiting", "ok", "failed"}
                     /\ answer[r] = "ok" => r \notin inService

\* What the client has sent by now, and what it has got for it.
SweepOK ==
  /\ verdict \in Seq({"valid", "invalid", "failed"}) /\ Len(verdict) = level - 1
  /\ stage \in {"clean", "ended"} => pool = <<>> /\ answer = <<>>
  /\ stage = "setup" => InTurn({"waiting", "failed"})
  /\ stage \in Opened =>
       /\ Len(pool) = PoolSize
       /\ \A r \in Sent : IF r.kind = "account" THEN answer[r] = "ok" ELSE r.from \in Range(pool)
       /\ \A i \in Plans : i < at => i \in SentPlans
  /\ stage = "warmup" => at <= WarmupOperations
  /\ stage = "metrics before" => at = WarmupOperations
  /\ stage = "measured" => at <= WarmupOperations + Operations
  /\ stage \in {"metrics after", "verify", "verify keys"} =>
       at = WarmupOperations + Operations

\* An account is opened once: nobody knows its id while its request is still to be served.
Asked(id) == \E l \in 1 .. level, p \in Positions :
               id = <<l, p>> /\ (l = level => OpenRequest(p) \in Sent)

Fresh(id) == \E q \in inService : q.kind = "account" /\ q.from = id

Taken(id) == Asked(id) /\ ~Fresh(id)

IdsOK ==
  /\ pool \in Seq(Nat \X Nat)
  /\ \A id \in Range(pool) : Taken(id)
  /\ \A k \in DOMAIN record : Taken(record[k].from)
  /\ \A r \in inService : r.kind = "transfer" => Taken(r.from)

\* The rows that outlive the clean-up that is open: no transfer, and records of
\* transfers only if their accounts are gone, so that no transfer of a later pool is
\* taken for a repetition of theirs.
Kept == DOMAIN record \ doomed.records
Known == Range(pool) \cup {record[k].from : k \in {l \in Kept : l[1] = "account"}}
Booked(k) == \E t \in transfer : t.key = k

RowsOK ==
  /\ \A t \in transfer : t.key \in DOMAIN record /\ \E i \in Plans : t.key = <<"transfer", i>>
  /\ \A t, u \in transfer : t.key = u.key => t = u
  /\ stage # "clean" => doomed = NothingDoomed
  /\ stage = "clean" /\ at # 0 => \A r \in inService : r.kind = "transfer" => r.from \notin Known
  /\ stage = "clean" /\ at = 4 =>
       /\ transfer \subseteq doomed.transfers
       /\ \A r \in inService : r.kind = "transfer" /\ r.from \in DOMAIN account =>
            r.from \in doomed.accounts
  /\ stage # "ended" /\ (stage = "clean" => at # 0) =>
       \A k \in Kept : k[1] = "transfer" =>
         (stage # "clean" /\ Booked(k)) \/ record[k].from \notin Known

\* What is answered is booked.
BookedOK == \A r \in Sent : r.kind = "transfer" /\ answer[r] = "ok" => Booked(Key(r))

IInv == ClientOK /\ WorkOK /\ SweepOK /\ IdsOK /\ RowsOK /\ BookedOK /\ ValidLevelsAreExact

\* The accounting of a calm sweep. The plans that are done are those the service has a
\* record of; what flows out of a position of the ring and into it is counted in plans.
Done == {i \in Plans : <<"transfer", i>> \in DOMAIN record}
Past(n) == {i \in Plans : i < n}
Out(plans, p) == Cardinality({i \in plans : Source(i) = p})
In(plans, p) == Cardinality({i \in plans : Destination(i) = p})

Row(i) == [key |-> <<"transfer", i>>,
           from |-> <<level, Source(i)>>, to |-> <<level, Destination(i)>>]

\* The first phase that is measured gives its URLs in the order of its plans.
Planned(r) ==
  /\ r.index \in Plans /\ r.from = Row(r.index).from /\ r.to = Row(r.index).to
  /\ r.url \in 0 .. Instances - 1
  /\ r.index \in WarmupOperations .. WarmupOperations + PoolSize - 1 =>
       r.url = (r.index - WarmupOperations) % Instances

\* Whatever is not in service is answered and done, and each account of the pool has its
\* first balance and what the plans that are done have moved.
Settled ==
  /\ Done \subseteq SentPlans
  /\ transfer = {Row(i) : i \in Done}
  /\ \A i \in Done : record[<<"transfer", i>>] = [from |-> Row(i).from, to |-> Row(i).to]
  /\ \A r \in Sent : r.kind = "transfer" =>
       /\ Planned(r)
       /\ \A s \in Sent : s.kind = "transfer" /\ s.index = r.index => s = r
       /\ IF r \in inService THEN r.index \notin Done
                             ELSE r.index \in Done /\ answer[r] = "ok"
  /\ \A p \in Positions :
       /\ <<level, p>> \in DOMAIN account /\ account[<<level, p>>] \in Nat
       /\ account[<<level, p>>] = Initial - Out(Done, p) + In(Done, p)

\* Where a phase begins, the warm-up has gone round the ring as a whole, and what follows
\* it is at most one transfer ahead at any position.
Level ==
  /\ stage = "warmup" => \A p \in Positions : Out(Past(at), p) = In(Past(at), p)
  /\ stage \in {"metrics before", "measured"} =>
       \A p \in Positions : Out(Past(at), p) <= In(Past(at), p) + 1
  /\ stage \in {"warmup", "measured"} => SentPlans \subseteq Past(at) \cup Chunk(at)
  /\ stage = "metrics before" => SentPlans \subseteq Past(at)
  /\ stage = "measured" => at = WarmupOperations \/ at >= WarmupOperations + PoolSize

Smooth ==
  /\ metricsOK
  /\ \A l \in DOMAIN verdict : verdict[l] = "valid"
  /\ stage = "clean" => /\ at >= 2 => transfer \subseteq doomed.entries
                        /\ at >= 3 => transfer \subseteq doomed.transfers
  /\ stage = "setup" => /\ transfer = {}
                        /\ \A p \in 0 .. Len(pool) - 1 :
                             <<level, p>> \in DOMAIN account /\ account[<<level, p>>] = Initial
  /\ stage \in Opened => Settled
  /\ Level
  /\ stage = "verify keys" => seen = ExpectedPoolBalances

(***************************************************************************)
(* The ring.                                                               *)
(***************************************************************************)
\* Numbers that are less than n apart have different remainders.
LEMMA DifferentRemainders ==
  ASSUME NEW n \in Nat \ {0}, NEW a \in Nat, NEW b \in Nat, a < b, b < a + n
  PROVE  a % n # b % n
<1> DEFINE q == a \div n
           u == b \div n
           r == a % n
<1> SUFFICES ASSUME r = b % n
             PROVE  FALSE
  OBVIOUS
<1>1. a = n * q + r /\ b = n * u + r /\ q \in Nat /\ u \in Nat /\ r \in Nat
  OBVIOUS
<1> HIDE DEF q, u, r
<1>2. n * u - n * q > 0 /\ n * u - n * q < n /\ n * u - n * q = n * (u - q)
  BY <1>1
<1>3. CASE u - q >= 1
  <2>1. n * (u - q) >= n
    BY <1>1, <1>3
  <2> QED
    BY <1>1, <1>2, <2>1
<1>4. CASE u - q <= 0
  <2>1. n * (u - q) <= 0
    BY <1>1, <1>4
  <2> QED
    BY <1>1, <1>2, <2>1
<1> QED
  BY <1>1, <1>3, <1>4

\* Two plans less than a pool apart have different sources and different destinations: a
\* destination is a fixed distance from its source.
LEMMA RingOnce ==
  ASSUME NEW i \in Nat, NEW j \in Nat, i # j, i < j + PoolSize, j < i + PoolSize
  PROVE  Source(i) # Source(j) /\ Destination(i) # Destination(j)
<1>1. PoolSize \in Nat \ {0, 1} /\ Seed \in Nat
  BY BenchmarkAssumption DEF BenchmarkAssumption
<1>2. \A a, b \in Nat : a # b /\ a < b + PoolSize /\ b < a + PoolSize
        => a % PoolSize # b % PoolSize
  <2> TAKE a, b \in Nat
  <2>1. CASE a < b
    BY <1>1, <2>1, DifferentRemainders
  <2>2. CASE b < a
    BY <1>1, <2>2, DifferentRemainders
  <2> QED
    BY <2>1, <2>2
<1>3. /\ i + Seed \in Nat /\ j + Seed \in Nat /\ i + Seed # j + Seed
      /\ i + Seed < (j + Seed) + PoolSize /\ j + Seed < (i + Seed) + PoolSize
  BY <1>1
<1>4. Source(i) # Source(j) /\ Source(i) \in 0 .. PoolSize - 1 /\ Source(j) \in 0 .. PoolSize - 1
  <2>1. (i + Seed) % PoolSize # (j + Seed) % PoolSize
    BY <1>2, <1>3
  <2>2. \A a \in Nat : a % PoolSize \in 0 .. PoolSize - 1
    BY <1>1
  <2> QED
    BY <1>3, <2>1, <2>2 DEF Source
<1>5. PICK c \in Nat : c = (Seed % (PoolSize - 1)) + 1
  BY <1>1
<1>6. /\ Source(i) + c \in Nat /\ Source(j) + c \in Nat /\ Source(i) + c # Source(j) + c
      /\ Source(i) + c < (Source(j) + c) + PoolSize
      /\ Source(j) + c < (Source(i) + c) + PoolSize
  BY <1>1, <1>4, <1>5
<1>7. /\ Destination(i) = (Source(i) + c) % PoolSize
      /\ Destination(j) = (Source(j) + c) % PoolSize
  <2>1. PICK d \in Nat : d = Seed % (PoolSize - 1) /\ c = d + 1
    BY <1>1, <1>5
  <2>2. /\ (Source(i) + d) + 1 = Source(i) + c /\ (Source(j) + d) + 1 = Source(j) + c
    BY <1>4, <2>1
  <2> QED
    BY <2>1, <2>2 DEF Destination
<1> QED
  BY <1>2, <1>4, <1>6, <1>7

\* A phase is no longer than the pool.
LEMMA ChunkIsARing ==
  ASSUME at \in Nat, NEW i \in Chunk(at), NEW j \in Chunk(at), i # j
  PROVE  Source(i) # Source(j) /\ Destination(i) # Destination(j)
<1>1. i \in Nat /\ j \in Nat /\ i < j + PoolSize /\ j < i + PoolSize
  BY BenchmarkAssumption DEF BenchmarkAssumption, Chunk, Plans
<1> QED
  BY <1>1, RingOnce

(***************************************************************************)
(* Undisturbed is inductive.                                               *)
(***************************************************************************)
LEMMA ChunkSize == at \in Nat => Cardinality(Chunk(at)) \in Nat
<1>1. WarmupOperations \in Nat /\ Operations \in Nat
  BY BenchmarkAssumption DEF BenchmarkAssumption
<1>2. IsFiniteSet(Plans)
  BY <1>1, FS_Interval DEF Plans
<1>3. Chunk(at) \in SUBSET Plans
  BY DEF Chunk
<1> QED
  BY <1>2, <1>3, FS_Subset, FS_CardinalityType

\* What is true of the client and its position in the sweep, disturbed or not.
LEMMA ClientStaysOK ==
  ASSUME ClientOK, [Next]_vars
  PROVE  ClientOK'
<1>1. ASSUME NEW v, EndLevel(v), disturbances' \in Nat,
             DOMAIN doomed' = DOMAIN NothingDoomed
      PROVE  ClientOK'
  <2>1. /\ level' = level + 1 /\ at' = 0 /\ level \in Nat
        /\ stage' = IF level < Len(Concurrency) THEN "clean" ELSE "ended"
    BY <1>1 DEF EndLevel, ClientOK
  <2>2. stage' \in Stages
    BY <2>1 DEF Stages
  <2> QED
    BY <1>1, <2>1, <2>2 DEF ClientOK
<1>2. ASSUME NEW r, NEW a, Answered(r, a), disturbances' \in Nat
      PROVE  ClientOK'
  BY <1>2 DEF Answered, ClientOK
<1>3. ASSUME Clean
      PROVE  ClientOK'
  <2>1. /\ at' = at + 1 /\ at \in Nat /\ DOMAIN doomed = DOMAIN NothingDoomed
        /\ UNCHANGED <<level, disturbances>>
    BY <1>3 DEF Clean, ClientOK
  <2>2. stage' \in Stages
    BY <1>3 DEF Clean, ClientOK, Stages
  <2>3. CASE at < 4 /\ doomed' = CASE at = 0 -> [doomed EXCEPT !.records = DOMAIN record]
                       [] at = 1 -> [doomed EXCEPT !.entries = transfer]
                       [] at = 2 -> [doomed EXCEPT !.transfers = transfer]
                       [] at = 3 -> [doomed EXCEPT !.accounts = DOMAIN account]
    <3>1. at = 0 \/ at = 1 \/ at = 2 \/ at = 3
      BY <2>1, <2>3
    <3>2. DOMAIN doomed' = DOMAIN doomed
      BY <2>3, <3>1
    <3> QED
      BY <2>1, <2>2, <3>2 DEF ClientOK
  <2>4. CASE doomed' = NothingDoomed
    BY <2>1, <2>2, <2>4 DEF ClientOK
  <2> QED
    BY <1>3, <2>3, <2>4 DEF Clean
<1>4. ASSUME NEW r, Send(r)
      PROVE  ClientOK'
  BY <1>4 DEF Send, ClientOK
<1>5. ASSUME SetupEnds \/ ReadMetrics \/ ReadBalances
      PROVE  ClientOK'
  <2>1. /\ at' \in Nat /\ UNCHANGED <<level, doomed>>
        /\ stage' \in {"warmup", "measured", "verify", "verify keys"}
    <3>1. CASE SetupEnds
      BY <3>1 DEF SetupEnds, Enter, ClientOK
    <3>2. CASE ReadMetrics
      BY <3>2 DEF ReadMetrics, Enter, ClientOK
    <3>3. CASE ReadBalances
      BY <3>3 DEF ReadBalances, Enter, ClientOK
    <3> QED
      BY <1>5, <3>1, <3>2, <3>3
  <2>2. disturbances' \in Nat
    <3>1. CASE SetupEnds
      BY <3>1 DEF SetupEnds, ClientOK
    <3>2. CASE ReadMetrics
      <4>1. disturbances' = disturbances \/ disturbances' = disturbances + 1
        BY <3>2 DEF ReadMetrics
      <4> QED
        BY <4>1 DEF ClientOK
    <3>3. CASE ReadBalances
      BY <3>3 DEF ReadBalances, ClientOK
    <3> QED
      BY <1>5, <3>1, <3>2, <3>3
  <2>3. stage' \in Stages
    BY <2>1 DEF Stages
  <2> QED
    BY <2>1, <2>2, <2>3 DEF ClientOK
<1>6. ASSUME PhaseEnds
      PROVE  ClientOK'
  <2>1. at + Cardinality(Chunk(at)) \in Nat
    BY ChunkSize DEF ClientOK
  <2> QED
    BY <1>6, <2>1 DEF PhaseEnds, Enter, ClientOK, Stages
<1>7. ASSUME NEW r, TimeOut(r)
      PROVE  ClientOK'
  BY <1>7 DEF TimeOut, ClientOK
<1>8. CASE UNCHANGED vars
  BY <1>8 DEF vars, client, ClientOK
<1>9. ASSUME CleanFails \/ SetupFails \/ Judge \/ ConnectionFails
      PROVE  ClientOK'
  <2>1. DOMAIN doomed' = DOMAIN NothingDoomed /\ disturbances' \in Nat
    <3>1. doomed' = doomed \/ doomed' = NothingDoomed
      BY <1>9 DEF CleanFails, SetupFails, Judge, ConnectionFails, tables
    <3>2. disturbances' = disturbances \/ disturbances' = disturbances + 1
      BY <1>9 DEF CleanFails, SetupFails, Judge, ConnectionFails, tables
    <3> QED
      BY <3>1, <3>2 DEF ClientOK
  <2>2. PICK v : EndLevel(v)
    BY <1>9 DEF CleanFails, SetupFails, Judge, ConnectionFails
  <2> QED
    BY <1>1, <2>1, <2>2
<1>10. CASE ClientStep
  <2>1. CASE OpenAccount
    BY <1>4, <2>1 DEF OpenAccount
  <2>2. CASE SendTransfer
    BY <1>4, <2>2 DEF SendTransfer
  <2> QED
    BY <1>3, <1>5, <1>6, <1>9, <1>10, <2>1, <2>2 DEF ClientStep
<1>11. ASSUME NEW r, Serve(r) \/ Lose(r)
       PROVE  ClientOK'
  BY <1>2, <1>11 DEF Serve, Replay, Open, Move, Refuse, Lose, ClientOK
<1> QED
  BY <1>7, <1>8, <1>9, <1>10, <1>11 DEF Next

\* When a level ends, nothing of it is left to answer.
LEMMA EndLevelCalm ==
  ASSUME ClientOK, NEW v, EndLevel(v), inService = {}
  PROVE  Calm'
<1>1. /\ pool' = <<>> /\ answer' = <<>> /\ at' = 0 /\ inService' = {}
      /\ stage' \in {"clean", "ended"}
  BY DEF EndLevel
<1>2. Len(pool') = 0 /\ pool' \in Seq(Nat \X Nat) /\ PoolSize \in Nat
  BY <1>1, BenchmarkAssumption DEF BenchmarkAssumption
<1> QED
  BY <1>1, <1>2 DEF Calm, Opened

\* The clean-up deletes what it has found, and nothing has come in since.
LEMMA CleanCalm ==
  ASSUME ClientOK, Calm, Clean
  PROVE  Calm'
<1>1. /\ stage = "clean" /\ pool = <<>> /\ answer = <<>> /\ inService = {}
      /\ UNCHANGED <<level, pool, answer, inService>>
      /\ at = 0 \/ doomed.records = DOMAIN record
      /\ at \in Nat /\ DOMAIN doomed = DOMAIN NothingDoomed
  BY DEF Clean, Calm, ClientOK
<1>2. CASE at < 4 /\ UNCHANGED <<stage, tables>>
  <2>1. doomed'.records = DOMAIN record'
    BY <1>1, <1>2 DEF Clean, tables, NothingDoomed
  <2> QED
    BY <1>1, <1>2, <2>1 DEF Calm
<1>3. CASE at = 4 /\ stage' = "setup"
  <2>1. DOMAIN record' = {}
    <3>1. doomed.records = DOMAIN record /\ at # 0
      BY <1>1, <1>3
    <3>2. record' = Restrict(record, DOMAIN record \ doomed.records)
      BY <1>3 DEF Clean
    <3> QED
      BY <3>1, <3>2 DEF Restrict
  <2>2. IsFiniteSet({}) /\ Cardinality({}) = 0 /\ Len(pool) = 0 /\ Sent = {} /\ Sent' = {}
    BY <1>1, FS_EmptySet DEF Sent
  <2>3. OpeningOK'
    BY <1>1, <2>1, <2>2 DEF OpeningOK, InTurn
  <2> QED
    BY <1>1, <1>3, <2>3 DEF Calm, Opened
<1> QED
  BY <1>2, <1>3 DEF Clean

\* Outside the setup and the phases, nothing is at work.
LEMMA NothingAtWork ==
  ASSUME Calm, stage \notin {"setup", "warmup", "measured"}
  PROVE  inService = {}
  BY DEF Calm

\* The next account has not been asked for yet when the others have been answered.
LEMMA OpenAccountCalm ==
  ASSUME ClientOK, Calm, OpenAccount
  PROVE  Calm'
<1> DEFINE next == OpenRequest(Len(pool))
<1>1. /\ stage = "setup" /\ Cardinality(Sent) = Len(pool) /\ Len(pool) < PoolSize
      /\ Send(next) /\ OpeningOK /\ Len(pool) \in Nat
  BY DEF OpenAccount, Calm
<1>2. next \notin Sent /\ IsFiniteSet(Sent)
  BY <1>1 DEF OpeningOK, InTurn
<1>3. /\ UNCHANGED <<level, stage, at, pool, record>>
      /\ answer' = [s \in Sent \cup {next} |-> IF s = next THEN "waiting" ELSE answer[s]]
      /\ inService' = inService \cup {next}
  BY <1>1 DEF Send, tables
<1>4. /\ Sent' = Sent \cup {next} /\ answer'[next] = "waiting"
      /\ \A s \in Sent : s # next /\ answer'[s] = answer[s]
  <2> HIDE DEF next
  <2> QED
    BY <1>2, <1>3 DEF Sent
<1>5. next' = next
  BY <1>3 DEF OpenRequest, Request
<1> HIDE DEF next
<1>6. IsFiniteSet(Sent') /\ Cardinality(Sent') = Len(pool) + 1
  BY <1>1, <1>2, <1>4, FS_AddElement
<1>7. \A s \in Sent' :
        \/ s.kind = "account" /\ s.index \in 0 .. Len(pool') - 1 /\ answer'[s] = "ok"
        \/ s = next /\ answer'[s] = "waiting" /\ Len(pool') < PoolSize
  <2> TAKE s \in Sent'
  <2>1. CASE s = next
    BY <1>1, <1>3, <1>4, <2>1
  <2>2. CASE s \in Sent
    BY <1>1, <1>2, <1>3, <1>4, <2>2 DEF OpeningOK, InTurn, next
  <2> QED
    BY <1>4, <2>1, <2>2
<1>8. OpeningOK'
  <2>1. \A k \in DOMAIN record' : k[1] = "account" /\ k[2] \in 0 .. Len(pool') - 1
    BY <1>1, <1>3 DEF OpeningOK, InTurn
  <2> QED
    BY <1>3, <1>4, <1>5, <1>6, <1>7, <2>1 DEF OpeningOK, InTurn, next
<1>9. inService' \subseteq Outstanding'
  BY <1>3, <1>4 DEF Calm, Outstanding
<1> QED
  BY <1>1, <1>3, <1>8, <1>9 DEF Calm

\* Every account has been opened, and so every request answered, when the setup ends.
LEMMA SetupEndsCalm ==
  ASSUME ClientOK, Calm, SetupEnds
  PROVE  Calm'
<1>1. /\ stage = "setup" /\ Len(pool) = PoolSize /\ OpeningOK /\ PoolSize \in Nat
      /\ stage' = "warmup" /\ UNCHANGED <<level, pool, answer, inService>>
  BY BenchmarkAssumption DEF SetupEnds, Enter, Calm, BenchmarkAssumption
<1>2. \A r \in Sent : answer[r] # "waiting"
  BY <1>1 DEF OpeningOK, InTurn
<1>3. inService = {}
  BY <1>2 DEF Calm, Outstanding
<1> QED
  BY <1>1, <1>3 DEF Calm

\* While no answer fails, the setup does not.
LEMMA SetupHolds ==
  ASSUME Calm
  PROVE  ~SetupFails
  BY DEF Calm, SetupFails, OpeningOK, InTurn

LEMMA SendTransferCalm ==
  ASSUME ClientOK, Calm, SendTransfer
  PROVE  Calm'
<1>1. PICK i \in Chunk(at) : Send(TransferRequest(i))
  BY DEF SendTransfer
<1> DEFINE r == TransferRequest(i)
<1>2. /\ UNCHANGED <<level, stage, at, pool>> /\ inService' = inService \cup {r}
      /\ answer' = [s \in Sent \cup {r} |-> IF s = r THEN "waiting" ELSE answer[s]]
      /\ stage \in {"warmup", "measured"}
  BY <1>1 DEF Send, SendTransfer
<1>3. \A j : TransferRequest(j)' = TransferRequest(j) /\ Chunk(at)' = Chunk(at)
  BY <1>2 DEF TransferRequest, Request, Chunk, Plans, Source, Destination
<1>4. \A s \in inService' : \E j \in Chunk(at)' : s = TransferRequest(j)'
  BY <1>2, <1>3 DEF Calm
<1> HIDE DEF r
<1>5. inService' \subseteq Outstanding'
  BY <1>2 DEF Calm, Outstanding, Sent
<1> QED
  BY <1>2, <1>4, <1>5 DEF Calm

\* The rest of the client's steps send nothing, and wait for the phase's answers.
LEMMA StageEndsCalm ==
  ASSUME ClientOK, Calm, PhaseEnds \/ ReadMetrics \/ ReadBalances
  PROVE  Calm'
<1>1. /\ UNCHANGED <<level, pool, answer, inService>>
      /\ stage' \in {"metrics before", "measured", "warmup", "metrics after", "verify",
                     "verify keys"}
  <2>1. CASE PhaseEnds
    BY <2>1 DEF PhaseEnds, Enter
  <2>2. CASE ReadMetrics
    BY <2>2 DEF ReadMetrics, Enter
  <2>3. CASE ReadBalances
    BY <2>3 DEF ReadBalances, Enter
  <2> QED
    BY <2>1, <2>2, <2>3
<1>2. inService = {}
  BY NothingAtWork DEF PhaseEnds, ReadMetrics, ReadBalances, Calm
<1>3. Len(pool) = PoolSize
  BY DEF PhaseEnds, ReadMetrics, ReadBalances, Calm, Opened, Stages
<1> QED
  BY <1>1, <1>2, <1>3 DEF Calm

\* An answer takes its request off the service's hands and no other.
LEMMA AnsweredCalm ==
  ASSUME Calm, NEW r \in inService, NEW a, Answered(r, a)
  PROVE  /\ answer' = [answer EXCEPT ![r] = a] /\ r \in Sent
         /\ Sent' = Sent /\ answer'[r] = a
         /\ \A s \in Sent : s # r => answer'[s] = answer[s]
         /\ inService' = inService \ {r} /\ inService' \subseteq Outstanding'
         /\ Waiting(r)
<1>1. r \in Sent /\ Waiting(r)
  BY DEF Calm, Outstanding, Waiting
<1>2. answer' = [answer EXCEPT ![r] = a] /\ inService' = inService \ {r}
  BY <1>1 DEF Answered
<1>3. /\ Sent' = Sent /\ answer'[r] = a
      /\ \A s \in Sent : s # r => answer'[s] = answer[s]
  BY <1>1, <1>2 DEF Sent
<1>4. inService' \subseteq Outstanding'
  BY <1>2, <1>3 DEF Calm, Outstanding
<1> QED
  BY <1>1, <1>2, <1>3, <1>4

\* In the setup the service opens the account that is next, for the first time.
LEMMA ServeSetupCalm ==
  ASSUME ClientOK, Calm, stage = "setup", NEW r \in inService, Serve(r)
  PROVE  Calm'
<1> DEFINE next == OpenRequest(Len(pool))
<1>1. /\ OpeningOK /\ Waiting(r) /\ r \in Sent /\ Len(pool) \in Nat
      /\ pool \in Seq(Nat \X Nat) /\ level \in Nat
  BY DEF Calm, Outstanding, Waiting, ClientOK
<1>2. r = next /\ Len(pool) < PoolSize
  BY <1>1 DEF OpeningOK, InTurn, Waiting
<1>3. /\ next.kind = "account" /\ next.index = Len(pool) /\ next.from = <<level, Len(pool)>>
      /\ Key(next) = <<"account", Len(pool)>>
  BY DEF OpenRequest, Request, Key
<1>4. Key(r) \notin DOMAIN record
  BY <1>1, <1>2, <1>3 DEF OpeningOK, InTurn
<1>5. Open(r)
  BY <1>2, <1>3, <1>4 DEF Serve, Replay, Move, Refuse, Reachable
<1>6. /\ Answered(r, "ok") /\ UNCHANGED <<level, stage>>
      /\ pool' = Append(pool, <<level, Len(pool)>>)
      /\ DOMAIN record' = DOMAIN record \cup {<<"account", Len(pool)>>}
  BY <1>1, <1>2, <1>3, <1>5 DEF Open, Store, Answered
<1>7. /\ pool' \in Seq(Nat \X Nat) /\ Len(pool') = Len(pool) + 1
      /\ \A p \in 1 .. Len(pool') : pool'[p] = <<level, p - 1>>
  <2>1. <<level, Len(pool)>> \in Nat \X Nat
    BY <1>1
  <2>2. \A p \in 1 .. Len(pool) : pool[p] = <<level, p - 1>>
    BY DEF Calm
  <2> QED
    BY <1>1, <1>6, <2>1, <2>2
<1>8. /\ Sent' = Sent /\ answer'[r] = "ok" /\ inService' \subseteq Outstanding'
      /\ \A s \in Sent : s # r => answer'[s] = answer[s]
  BY <1>6, AnsweredCalm
<1>9. \A s \in Sent : /\ s.kind = "account" /\ s.index \in 0 .. Len(pool) /\ answer'[s] = "ok"
  <2> TAKE s \in Sent
  <2>1. CASE s = r
    BY <1>1, <1>2, <1>3, <1>8, <2>1
  <2>2. CASE s # r
    BY <1>1, <1>2, <1>8, <2>2 DEF OpeningOK, InTurn
  <2> QED
    BY <2>1, <2>2
<1>10. OpeningOK'
  <2>1. IsFiniteSet(Sent') /\ Cardinality(Sent') = Len(pool')
    BY <1>1, <1>2, <1>7, <1>8 DEF OpeningOK, InTurn
  <2>2. OpenRequest(Len(pool))' \notin Sent'
    <3>1. OpenRequest(Len(pool))'.index = Len(pool) + 1
      BY <1>7 DEF OpenRequest, Request
    <3> QED
      BY <1>1, <1>8, <1>9, <3>1
  <2>3. \A k \in DOMAIN record' : k[1] = "account" /\ k[2] \in 0 .. Len(pool') - 1
    <3> TAKE k \in DOMAIN record'
    <3>1. CASE k \in DOMAIN record
      BY <1>1, <1>7, <3>1 DEF OpeningOK, InTurn
    <3>2. CASE k = <<"account", Len(pool)>>
      BY <1>1, <1>7, <3>2
    <3> QED
      BY <1>6, <3>1, <3>2
  <2> QED
    BY <1>1, <1>7, <1>8, <1>9, <2>1, <2>2, <2>3 DEF OpeningOK, InTurn
<1>11. Len(pool') <= PoolSize
  BY <1>1, <1>2, <1>7, BenchmarkAssumption DEF BenchmarkAssumption
<1> QED
  BY <1>6, <1>7, <1>8, <1>10, <1>11 DEF Calm

\* In a phase it works on transfers of the phase, and the pool stays.
LEMMA ServePhaseCalm ==
  ASSUME ClientOK, Calm, stage \in {"warmup", "measured"}, NEW r \in inService, Serve(r)
  PROVE  Calm'
<1>1. PICK i \in Chunk(at) : r = TransferRequest(i)
  BY DEF Calm
<1>2. r.kind = "transfer"
  BY <1>1 DEF TransferRequest, Request
<1>3. UNCHANGED pool /\ \E a : Answered(r, a)
  BY <1>2 DEF Serve, Replay, Open, Move, Refuse
<1>4. PICK a : Answered(r, a)
  BY <1>3
<1>5. UNCHANGED <<level, stage, at>>
  BY <1>4 DEF Answered
<1>6. inService' = inService \ {r} /\ inService' \subseteq Outstanding'
  BY <1>4, AnsweredCalm
<1>7. \A j : TransferRequest(j)' = TransferRequest(j) /\ Chunk(at)' = Chunk(at)
  BY <1>3, <1>5 DEF TransferRequest, Request, Chunk, Plans, Source, Destination
<1>8. \A s \in inService' : \E j \in Chunk(at)' : s = TransferRequest(j)'
  BY <1>6, <1>7 DEF Calm
<1> QED
  BY <1>3, <1>5, <1>6, <1>8 DEF Calm

\* No step changes that without disturbing the sweep.
LEMMA CalmStays ==
  ASSUME ClientOK, Calm, [Next]_vars, disturbances' = 0
  PROVE  Calm'
<1>1. CASE UNCHANGED vars
  <2>1. UNCHANGED <<level, stage, at, pool, answer, record, inService, doomed>>
    BY <1>1 DEF vars, client, tables
  <2>2. OpeningOK' = OpeningOK
    BY <2>1 DEF OpeningOK, InTurn, Sent, OpenRequest, Request
  <2>3. Outstanding' = Outstanding
    BY <2>1 DEF Outstanding, Sent
  <2>4. \A i : TransferRequest(i)' = TransferRequest(i) /\ Chunk(at)' = Chunk(at)
    BY <2>1 DEF TransferRequest, Request, Chunk, Plans, Source, Destination
  <2>5. stage' \in {"warmup", "measured"} =>
          \A r \in inService' : \E i \in Chunk(at)' : r = TransferRequest(i)'
    BY <2>1, <2>4 DEF Calm
  <2>6. stage' \notin {"warmup", "measured"} => stage' = "setup" \/ inService' = {}
    BY <2>1 DEF Calm
  <2>7. /\ pool' \in Seq(Nat \X Nat) /\ Len(pool') <= PoolSize
        /\ \A p \in 1 .. Len(pool') : pool'[p] = <<level', p - 1>>
        /\ stage' \in Opened => Len(pool') = PoolSize
    BY <2>1 DEF Calm
  <2>8. /\ stage' = "clean" => /\ pool' = <<>> /\ answer' = <<>>
                               /\ at' = 0 \/ doomed'.records = DOMAIN record'
        /\ stage' = "setup" => OpeningOK'
    BY <2>1, <2>2 DEF Calm
  <2>9. inService' \subseteq Outstanding'
    BY <2>1, <2>3 DEF Calm
  <2>10. CASE stage' \in {"warmup", "measured"}
    BY <2>5, <2>7, <2>8, <2>9, <2>10 DEF Calm
  <2>11. CASE stage' = "setup"
    <3>1. OpeningOK'
      BY <2>8, <2>11
    <3> QED
      BY <2>7, <2>9, <2>11, <3>1 DEF Calm
  <2>12. CASE stage' \notin {"setup", "warmup", "measured"}
    BY <2>6, <2>7, <2>8, <2>9, <2>12 DEF Calm
  <2> QED
    BY <2>10, <2>11, <2>12
<1>2. CASE ClientStep
  <2>1. ASSUME CleanFails \/ Judge
        PROVE  Calm'
    <3>1. PICK v : EndLevel(v)
      BY <2>1 DEF CleanFails, Judge
    <3>2. inService = {}
      BY <2>1, NothingAtWork DEF CleanFails, Judge
    <3> QED
      BY <3>1, <3>2, EndLevelCalm
  <2>2. CASE Clean \/ OpenAccount \/ SetupEnds \/ SendTransfer
    BY <2>2, CleanCalm, OpenAccountCalm, SetupEndsCalm, SendTransferCalm
  <2>3. CASE PhaseEnds \/ ReadMetrics \/ ReadBalances
    BY <2>3, StageEndsCalm
  <2>4. ~SetupFails
    BY SetupHolds
  <2> QED
    BY <1>2, <2>1, <2>2, <2>3, <2>4 DEF ClientStep
<1>3. CASE ConnectionFails
  <2>1. disturbances' = disturbances + 1
    BY <1>3 DEF ConnectionFails
  <2> QED
    BY <2>1 DEF ClientOK
<1>4. ASSUME NEW r \in inService, Serve(r)
      PROVE  Calm'
  <2>1. stage \in {"setup", "warmup", "measured"}
    BY NothingAtWork
  <2> QED
    BY <1>4, <2>1, ServeSetupCalm, ServePhaseCalm
<1>5. ASSUME NEW r \in inService, Lose(r) \/ TimeOut(r)
      PROVE  FALSE
  <2>1. Waiting(r)
    BY DEF Calm, Outstanding, Waiting
  <2>2. disturbances' = disturbances + 1
    BY <1>5, <2>1 DEF Lose, TimeOut
  <2> QED
    BY <2>2 DEF ClientOK
<1> QED
  BY <1>1, <1>2, <1>3, <1>4, <1>5 DEF Next

\* Nothing takes a disturbance back, so that a sweep without one never had any.
LEMMA DisturbancesStay ==
  ASSUME ClientOK, [Next]_vars, disturbances' = 0
  PROVE  disturbances = 0
<1>1. disturbances \in Nat /\ (disturbances' = disturbances \/ disturbances' = disturbances + 1)
  <2>1. CASE UNCHANGED vars
    BY <2>1 DEF vars, ClientOK
  <2>2. CASE ClientStep
    BY <2>2 DEF ClientStep, Clean, CleanFails, OpenAccount, SetupEnds, SetupFails,
                SendTransfer, PhaseEnds, ReadMetrics, ReadBalances, Judge, Send, tables,
                ClientOK
  <2>3. CASE ConnectionFails
    BY <2>3 DEF ConnectionFails, ClientOK
  <2>4. ASSUME NEW r, Serve(r) \/ Lose(r) \/ TimeOut(r)
        PROVE  disturbances' = disturbances \/ disturbances' = disturbances + 1
    BY <2>4 DEF Serve, Replay, Open, Move, Refuse, Lose, TimeOut, tables
  <2> QED
    BY <2>1, <2>2, <2>3, <2>4 DEF Next, ClientOK
<1> QED
  BY <1>1

(***************************************************************************)
(* The theorems.                                                           *)
(***************************************************************************)
\* As long as every answer comes, the service works on nothing but the next account of the
\* pool or transfers of the phase that runs (prepare, run_phase).
THEOREM UndisturbedIsInvariant == Spec => []Undisturbed
<1>1. Init => Undisturbed
  <2> SUFFICES ASSUME Init
               PROVE  Undisturbed
    OBVIOUS
  <2>1. ClientOK
    BY DEF Init, ClientOK, Stages
  <2>2. Len(pool) = 0 /\ pool \in Seq(Nat \X Nat) /\ PoolSize \in Nat
    BY BenchmarkAssumption DEF Init, BenchmarkAssumption
  <2>3. Calm
    BY <2>2 DEF Init, Calm, Opened
  <2> QED
    BY <2>1, <2>3 DEF Undisturbed
<1>2. Undisturbed /\ [Next]_vars => Undisturbed'
  BY ClientStaysOK, CalmStays, DisturbancesStay DEF Undisturbed
<1> QED
  BY <1>1, <1>2, PTL DEF Spec

\* Two transfers of a phase take from different accounts and give to different accounts,
\* whatever the size of the pool, the seed, the workload and the concurrency
\* (account_pool's plans, and the chunks run_operations cuts them into).
LEMMA CalmIsARing ==
  ASSUME ClientOK, Calm
  PROVE  RingOfTransfers
<1> SUFFICES ASSUME NEW r \in inService, NEW s \in inService, r # s,
                    r.kind = "transfer", s.kind = "transfer"
             PROVE  r.from # s.from /\ r.to # s.to
  BY DEF RingOfTransfers
<1>1. stage # "setup"
  BY DEF Calm, OpeningOK, InTurn, Outstanding, OpenRequest, Request
<1>2. stage \in {"warmup", "measured"} /\ Len(pool) = PoolSize
  BY <1>1 DEF Calm, ClientOK, Opened, Stages
<1>3. PICK i \in Chunk(at) : r = TransferRequest(i)
  BY <1>2 DEF Calm
<1>4. PICK j \in Chunk(at) : s = TransferRequest(j)
  BY <1>2 DEF Calm
<1>5. /\ r.from = pool[Source(i) + 1] /\ r.to = pool[Destination(i) + 1]
      /\ s.from = pool[Source(j) + 1] /\ s.to = pool[Destination(j) + 1]
  BY <1>3, <1>4 DEF TransferRequest, Request
<1>6. Source(i) # Source(j) /\ Destination(i) # Destination(j)
  BY <1>3, <1>4, ChunkIsARing DEF ClientOK
<1>7. \A k \in Chunk(at) : Source(k) \in 0 .. PoolSize - 1 /\ Destination(k) \in 0 .. PoolSize - 1
  <2>1. PoolSize \in Nat \ {0, 1} /\ Seed \in Nat /\ Chunk(at) \subseteq Nat
    BY BenchmarkAssumption DEF BenchmarkAssumption, Chunk, Plans
  <2>2. \A a \in Nat : a % PoolSize \in 0 .. PoolSize - 1
    BY <2>1
  <2>3. PICK d \in Nat : d = Seed % (PoolSize - 1)
    BY <2>1
  <2> TAKE k \in Chunk(at)
  <2>4. Source(k) \in 0 .. PoolSize - 1
    BY <2>1, <2>2 DEF Source
  <2>5. Source(k) + d + 1 \in Nat
    BY <2>1, <2>4
  <2> QED
    BY <2>2, <2>3, <2>4, <2>5 DEF Destination
<1>8. \A p, q \in 0 .. PoolSize - 1 : p # q => pool[p + 1] # pool[q + 1]
  <2>1. PoolSize \in Nat
    BY BenchmarkAssumption DEF BenchmarkAssumption
  <2>2. \A p \in 0 .. PoolSize - 1 : pool[p + 1] = <<level, p>>
    BY <1>2, <2>1 DEF Calm
  <2> QED
    BY <2>2
<1> QED
  BY <1>5, <1>6, <1>7, <1>8

THEOREM PhasesKeepToRings == Spec => []PhasesAreRings
<1>1. Undisturbed => PhasesAreRings
  BY CalmIsARing DEF Undisturbed, PhasesAreRings
<1> QED
  BY <1>1, UndisturbedIsInvariant, PTL

(***************************************************************************)
(* What is true of every sweep, however it is disturbed. First, what the   *)
(* steps have in common.                                                   *)
(***************************************************************************)
LEMMA SendEffect ==
  ASSUME NEW r, Send(r)
  PROVE  /\ Sent' = Sent \cup {r} /\ answer'[r] = "waiting"
         /\ \A s \in Sent : s # r => answer'[s] = answer[s]
         /\ inService' = inService \cup {r}
         /\ UNCHANGED <<level, stage, at, pool, verdict, account, record, transfer, doomed>>
  BY DEF Send, Sent, tables

LEMMA AnswerEffect ==
  ASSUME NEW r, NEW a, Answered(r, a)
  PROVE  /\ Sent' = Sent /\ inService' = inService \ {r}
         /\ \A s \in Sent : answer'[s] = IF s = r /\ Waiting(r) THEN a ELSE answer[s]
         /\ UNCHANGED <<level, stage, at, verdict, doomed>>
<1>1. CASE Waiting(r)
  <2>1. answer' = [answer EXCEPT ![r] = a] /\ r \in Sent
    BY <1>1 DEF Answered, Waiting
  <2> QED
    BY <1>1, <2>1 DEF Answered, Sent
<1>2. CASE ~Waiting(r)
  BY <1>2 DEF Answered, Sent
<1> QED
  BY <1>1, <1>2

\* A served request is answered, or fails.
LEMMA ServeEffect ==
  ASSUME NEW r, Serve(r) \/ Lose(r)
  PROVE  \E a \in {"ok", "failed"} : Answered(r, a)
  BY DEF Serve, Replay, Open, Move, Refuse, Lose

LEMMA TimeOutEffect ==
  ASSUME NEW r, TimeOut(r)
  PROVE  /\ Sent' = Sent /\ r \in Sent /\ Waiting(r)
         /\ \A s \in Sent : answer'[s] = IF s = r THEN "failed" ELSE answer[s]
         /\ UNCHANGED <<level, stage, at, pool, verdict, inService, account, record, transfer,
                        doomed>>
  BY DEF TimeOut, Waiting, Sent, tables

\* A level ends, as a failure or by its verdict.
Ends == CleanFails \/ SetupFails \/ Judge \/ ConnectionFails

LEMMA EndEffect ==
  ASSUME RowsOK, Ends
  PROVE  /\ \E v \in {"valid", "invalid", "failed"} : verdict' = Append(verdict, v)
         /\ level' = level + 1 /\ stage' \in {"clean", "ended"} /\ at' = 0
         /\ pool' = <<>> /\ answer' = <<>> /\ Sent' = {} /\ doomed' = NothingDoomed
         /\ UNCHANGED <<inService, account, record, transfer>>
<1>1. PICK v \in {"valid", "invalid", "failed"} : EndLevel(v)
  BY DEF Ends, CleanFails, SetupFails, Judge, ConnectionFails
<1>2. /\ verdict' = Append(verdict, v) /\ level' = level + 1 /\ at' = 0
      /\ stage' = IF level < Len(Concurrency) THEN "clean" ELSE "ended"
      /\ pool' = <<>> /\ answer' = <<>> /\ UNCHANGED inService
  BY <1>1 DEF EndLevel
<1>3. UNCHANGED <<account, record, transfer>>
  BY DEF Ends, CleanFails, SetupFails, Judge, ConnectionFails, tables
<1>4. doomed' = NothingDoomed
  <2>1. CASE CleanFails \/ ConnectionFails
    BY <2>1 DEF CleanFails, ConnectionFails
  <2>2. CASE SetupFails \/ Judge
    <3>1. stage # "clean"
      BY <2>2 DEF SetupFails, Judge
    <3>2. UNCHANGED doomed
      BY <2>2 DEF SetupFails, Judge, tables
    <3> QED
      BY <3>1, <3>2 DEF RowsOK
  <2> QED
    BY <2>1, <2>2 DEF Ends
<1>5. Sent' = {}
  BY <1>2 DEF Sent
<1> QED
  BY <1>2, <1>3, <1>4, <1>5

\* The client goes from one stage of a level to the next, and no request moves.
Passes == SetupEnds \/ PhaseEnds \/ ReadMetrics \/ ReadBalances

LEMMA PassEffect ==
  ASSUME Passes
  PROVE  /\ UNCHANGED <<level, pool, answer, verdict, inService, account, record, transfer, doomed>>
         /\ stage \notin {"clean", "ended"} /\ stage' \in Opened
<1>1. CASE SetupEnds
  BY <1>1 DEF SetupEnds, Enter, tables, Opened, Stages
<1>2. CASE PhaseEnds
  BY <1>2 DEF PhaseEnds, Enter, tables, Opened, Stages
<1>3. CASE ReadMetrics
  BY <1>3 DEF ReadMetrics, Enter, tables, Opened, Stages
<1>4. CASE ReadBalances
  BY <1>4 DEF ReadBalances, Enter, tables, Opened, Stages
<1> QED
  BY <1>1, <1>2, <1>3, <1>4 DEF Passes

LEMMA CleanEffect ==
  ASSUME Clean
  PROVE  /\ stage = "clean" /\ at' = at + 1
         /\ UNCHANGED <<level, pool, answer, verdict, inService>>
         /\ \/ at < 4 /\ UNCHANGED <<stage, account, record, transfer>>
            \/ /\ at = 4 /\ stage' = "setup" /\ doomed' = NothingDoomed
               /\ record' = Restrict(record, DOMAIN record \ doomed.records)
               /\ transfer' = transfer \ doomed.transfers
  BY DEF Clean, tables

LEMMA Steps ==
  ASSUME [Next]_vars
  PROVE  \/ UNCHANGED vars \/ Clean \/ OpenAccount \/ SendTransfer \/ Passes \/ Ends
         \/ \E r \in inService : Serve(r) \/ Lose(r) \/ TimeOut(r)
  BY DEF Next, ClientStep, Passes, Ends

(***************************************************************************)
(* Requests.                                                               *)
(***************************************************************************)
LEMMA OpenAccountSends ==
  ASSUME ClientOK, pool \in Seq(Nat \X Nat), OpenAccount
  PROVE  /\ Send(OpenRequest(Len(pool))) /\ Len(pool) \in Positions /\ stage = "setup"
         /\ OpenRequest(Len(pool)) = AccountRequest(level, Len(pool))
  BY BenchmarkAssumption
  DEF OpenAccount, OpenRequest, Request, AccountRequest, Positions, BenchmarkAssumption

LEMMA SendTransferSends ==
  ASSUME SendTransfer
  PROVE  \E i \in Chunk(at) \ SentPlans :
           /\ Send(TransferRequest(i)) /\ TransferRequest(i).level = level
           /\ TransferRequest(i).kind = "transfer" /\ TransferRequest(i).index = i
           /\ TransferRequest(i).from = pool[Source(i) + 1]
           /\ i \in Plans /\ stage \in {"warmup", "measured"}
  BY DEF SendTransfer, TransferRequest, Request, Chunk

LEMMA LevelsCount ==
  ASSUME ClientOK, SweepOK
  PROVE  level \in Nat /\ level \in 1 .. level
<1>1. verdict \in Seq({"valid", "invalid", "failed"}) /\ Len(verdict) = level - 1
  BY DEF SweepOK
<1>2. Len(verdict) \in Nat
  BY <1>1
<1> QED
  BY <1>1, <1>2 DEF ClientOK

LEMMA WorkStays ==
  ASSUME IInv, [Next]_vars
  PROVE  WorkOK'
<1> USE DEF IInv
<1>0. level \in Nat /\ level \in 1 .. level
  BY LevelsCount
<1>1. ASSUME UNCHANGED <<level, answer, inService>>
      PROVE  WorkOK'
  BY <1>1 DEF WorkOK, Sent
<1>2. ASSUME NEW r, Send(r), r.level = level,
             \/ r.kind = "account" /\ \E p \in Positions : r = AccountRequest(level, p)
             \/ r.kind = "transfer" /\ r.index \in Plans
      PROVE  WorkOK'
  <2>1. /\ Sent' = Sent \cup {r} /\ answer'[r] = "waiting" /\ level' = level
        /\ \A s \in Sent : s # r => answer'[s] = answer[s]
        /\ inService' = inService \cup {r}
    BY <1>2, SendEffect
  <2>2. \A s \in inService' : s.level \in 1 .. level' /\ (s.level = level' => s \in Sent')
    BY <1>0, <1>2, <2>1 DEF WorkOK
  <2>3. \A s \in inService' \cup Sent' :
          \/ s.kind = "account" /\ \E l \in 1 .. level', p \in Positions : s = AccountRequest(l, p)
          \/ s.kind = "transfer" /\ s.index \in Plans
    <3> TAKE s \in inService' \cup Sent'
    <3>1. CASE s = r
      BY <1>0, <1>2, <2>1, <3>1
    <3>2. CASE s \in inService \cup Sent
      BY <2>1, <3>2 DEF WorkOK
    <3> QED
      BY <2>1, <3>1, <3>2
  <2>4. \A s \in Sent' : /\ s.level = level' /\ answer'[s] \in {"waiting", "ok", "failed"}
                         /\ answer'[s] = "ok" => s \notin inService'
    BY <1>2, <2>1 DEF WorkOK
  <2> QED
    BY <2>2, <2>3, <2>4 DEF WorkOK
<1>3. CASE OpenAccount
  <2>1. pool \in Seq(Nat \X Nat)
    BY DEF IdsOK
  <2>2. /\ Send(OpenRequest(Len(pool))) /\ Len(pool) \in Positions
        /\ OpenRequest(Len(pool)) = AccountRequest(level, Len(pool))
    BY <1>3, <2>1, OpenAccountSends
  <2>3. AccountRequest(level, Len(pool)).level = level /\ AccountRequest(level, Len(pool)).kind = "account"
    BY DEF AccountRequest
  <2> QED
    BY <1>2, <2>2, <2>3
<1>4. CASE SendTransfer
  BY <1>2, <1>4, SendTransferSends
<1>5. CASE Ends
  <2>1. level' = level + 1 /\ Sent' = {} /\ inService' = inService
    BY <1>5, EndEffect
  <2> QED
    BY <1>0, <2>1 DEF WorkOK
<1>6. ASSUME NEW r \in inService, NEW a \in {"ok", "failed"}, Answered(r, a)
      PROVE  WorkOK'
  <2>1. /\ Sent' = Sent /\ inService' = inService \ {r} /\ level' = level
        /\ \A s \in Sent : answer'[s] = IF s = r /\ Waiting(r) THEN a ELSE answer[s]
    BY <1>6, AnswerEffect
  <2> QED
    BY <1>6, <2>1 DEF WorkOK
<1>7. ASSUME NEW r, TimeOut(r)
      PROVE  WorkOK'
  <2>1. /\ Sent' = Sent /\ inService' = inService /\ level' = level
        /\ \A s \in Sent : answer'[s] = IF s = r THEN "failed" ELSE answer[s]
    BY <1>7, TimeOutEffect
  <2> QED
    BY <2>1 DEF WorkOK
<1>8. CASE Clean \/ Passes \/ UNCHANGED vars
  <2>1. UNCHANGED <<level, answer, inService>>
    BY <1>8, CleanEffect, PassEffect DEF vars, client
  <2> QED
    BY <1>1, <2>1
<1> QED
  BY <1>3, <1>4, <1>5, <1>6, <1>7, <1>8, Steps, ServeEffect

(***************************************************************************)
(* The sweep.                                                              *)
(***************************************************************************)
\* The setup asks for the next account when the one before has been opened.
LEMMA OpenAccountInTurn ==
  ASSUME NEW open, "waiting" \in open, InTurn(open), OpenAccount, pool \in Seq(Nat \X Nat)
  PROVE  InTurn(open)'
<1> DEFINE next == OpenRequest(Len(pool))
<1>1. /\ Cardinality(Sent) = Len(pool) /\ Len(pool) < PoolSize
      /\ Send(next) /\ Len(pool) \in Nat
  BY DEF OpenAccount
<1>2. next \notin Sent /\ IsFiniteSet(Sent)
  BY <1>1 DEF InTurn
<1>3. /\ Sent' = Sent \cup {next} /\ answer'[next] = "waiting"
      /\ \A s \in Sent : s # next => answer'[s] = answer[s]
      /\ UNCHANGED <<level, pool>>
  BY <1>1, SendEffect
<1>4. next' = next
  BY <1>3 DEF OpenRequest, Request
<1>5. IsFiniteSet(Sent') /\ Cardinality(Sent') = Len(pool) + 1
  <2> HIDE DEF next
  <2> QED
    BY <1>1, <1>2, <1>3, FS_AddElement
<1>6. \A s \in Sent :
        s.kind = "account" /\ s.index \in 0 .. Len(pool) - 1 /\ answer[s] = "ok"
  BY <1>2 DEF InTurn
<1> HIDE DEF next
<1>7. \A s \in Sent' :
        \/ s.kind = "account" /\ s.index \in 0 .. Len(pool') - 1 /\ answer'[s] = "ok"
        \/ s = next /\ answer'[s] \in open /\ Len(pool') < PoolSize
  BY <1>1, <1>2, <1>3, <1>6
<1> QED
  BY <1>3, <1>4, <1>5, <1>7 DEF InTurn, next

\* The account that is opened is the one that was asked for last.
LEMMA OpenedInTurn ==
  ASSUME NEW open, InTurn(open), NEW r, Waiting(r), Answered(r, "ok"),
         NEW id \in Nat \X Nat, pool \in Seq(Nat \X Nat), pool' = Append(pool, id)
  PROVE  InTurn(open)'
<1> DEFINE next == OpenRequest(Len(pool))
<1>1. r \in Sent /\ answer[r] = "waiting" /\ Len(pool) \in Nat
  BY DEF Waiting
<1>2. r = next /\ Len(pool) < PoolSize /\ next.index = Len(pool) /\ next.kind = "account"
  BY <1>1 DEF InTurn, OpenRequest, Request
<1>3. /\ Sent' = Sent /\ answer'[r] = "ok" /\ UNCHANGED level
      /\ \A s \in Sent : s # r => answer'[s] = answer[s]
  BY <1>1, AnswerEffect
<1>4. Len(pool') = Len(pool) + 1
  OBVIOUS
<1>5. \A s \in Sent : s.kind = "account" /\ s.index \in 0 .. Len(pool) /\ answer'[s] = "ok"
  <2>1. \A s \in Sent :
          \/ s = next
          \/ s.kind = "account" /\ s.index \in 0 .. Len(pool) - 1 /\ answer[s] = "ok"
    BY DEF InTurn
  <2> HIDE DEF next
  <2> TAKE s \in Sent
  <2>2. CASE s = r
    BY <1>1, <1>2, <1>3, <2>2
  <2>3. CASE s # r
    <3>1. s.kind = "account" /\ s.index \in 0 .. Len(pool) - 1 /\ answer[s] = "ok"
      BY <1>2, <2>1, <2>3
    <3>2. answer'[s] = answer[s]
      BY <1>3, <2>3
    <3> QED
      BY <1>1, <3>1, <3>2
  <2> QED
    BY <2>2, <2>3
<1>6. IsFiniteSet(Sent') /\ Cardinality(Sent') = Len(pool')
  BY <1>1, <1>2, <1>3, <1>4 DEF InTurn
<1>7. OpenRequest(Len(pool))' \notin Sent'
  <2>1. OpenRequest(Len(pool))'.index = Len(pool) + 1
    BY <1>4 DEF OpenRequest, Request
  <2> QED
    BY <1>1, <1>3, <1>5, <2>1
<1> QED
  BY <1>1, <1>3, <1>4, <1>5, <1>6, <1>7 DEF InTurn

\* Where a phase ends: its plans follow each other.
LEMMA ChunkIsAnInterval ==
  ASSUME at \in Nat, at <= WarmupOperations + Operations,
         stage = "warmup" => at <= WarmupOperations
  PROVE  \E next \in Nat :
           /\ next = at + Cardinality(Chunk(at)) /\ at <= next
           /\ \A i \in Plans : i < next => i < at \/ i \in Chunk(at)
           /\ next <= IF stage = "warmup" THEN WarmupOperations
                                          ELSE WarmupOperations + Operations
           /\ Chunk(next) = {} => next = IF stage = "warmup" THEN WarmupOperations
                                         ELSE WarmupOperations + Operations
           /\ next <= at + PoolSize /\ (Chunk(next) # {} => next = at + PoolSize)
           /\ Chunk(at) = at .. next - 1
<1>1. PICK end \in Nat : /\ end = IF stage = "warmup" THEN WarmupOperations
                                  ELSE WarmupOperations + Operations
                         /\ end <= WarmupOperations + Operations
  BY BenchmarkAssumption DEF BenchmarkAssumption
<1>2. /\ WarmupOperations \in Nat /\ Operations \in Nat /\ PoolSize \in Nat \ {0, 1} /\ at <= end
  BY <1>1, BenchmarkAssumption DEF BenchmarkAssumption
<1>3. PICK next \in Nat : next = IF at + PoolSize <= end THEN at + PoolSize ELSE end
  BY <1>1, <1>2
<1>4. Chunk(at) = at .. next - 1 /\ at <= next /\ next <= end
  <2>1. Chunk(at) = {i \in Plans : at <= i /\ i < at + PoolSize /\ i < end}
    BY <1>1 DEF Chunk
  <2>2. \A i : i \in Plans <=> i \in Nat /\ i < WarmupOperations + Operations
    BY <1>2 DEF Plans
  <2>3. at <= next /\ next <= end
    BY <1>1, <1>2, <1>3
  <2>4. \A i \in Nat : i < next <=> i < at + PoolSize /\ i < end
    BY <1>1, <1>2, <1>3
  <2>5. \A i : i \in at .. next - 1 <=> i \in Nat /\ at <= i /\ i < next
    BY <1>3
  <2>6. \A i : i \in Chunk(at) <=> i \in at .. next - 1
    BY <1>1, <1>2, <2>1, <2>2, <2>4, <2>5
  <2> QED
    BY <2>3, <2>6
<1>5. Cardinality(at .. next - 1) = next - at
  <2>1. next - 1 \in Int /\ at \in Int
    BY <1>3
  <2>2. Cardinality(at .. next - 1) = IF at > next - 1 THEN 0 ELSE (next - 1) - at + 1
    BY <2>1, FS_Interval
  <2> QED
    BY <1>3, <1>4, <2>2
<1>6. Chunk(next) = {} => next = end
  <2> SUFFICES ASSUME next # end
               PROVE  next \in Chunk(next)
    OBVIOUS
  <2>1. next < end /\ next \in Plans
    BY <1>1, <1>2, <1>3, <1>4 DEF Plans
  <2> QED
    BY <1>1, <1>2, <2>1 DEF Chunk
<1>7. next <= at + PoolSize /\ (Chunk(next) # {} => next = at + PoolSize)
  <2>1. next # at + PoolSize => next = end
    BY <1>3
  <2>2. next = end => Chunk(next) = {}
    BY <1>1 DEF Chunk, Plans
  <2> QED
    BY <1>1, <1>2, <1>3, <2>1, <2>2
<1>8. next = at + Cardinality(Chunk(at))
  BY <1>3, <1>4, <1>5
<1>9. \A i \in Plans : i < next => i < at \/ i \in Chunk(at)
  BY <1>2, <1>4 DEF Plans
<1> QED
  BY <1>1, <1>4, <1>6, <1>7, <1>8, <1>9

\* What the service does for a request the client waits for.
LEMMA ServeWaiting ==
  ASSUME IInv, NEW r \in inService, Serve(r), Waiting(r)
  PROVE  IF r.kind = "account"
         THEN Answered(r, "ok") /\ \E id \in Nat \X Nat : pool' = Append(pool, id)
         ELSE pool' = pool /\ \E a \in {"ok", "failed"} : Answered(r, a)
<1>1. CASE r.kind # "account"
  BY <1>1 DEF Serve, Replay, Open, Move, Refuse
<1>2. CASE r.kind = "account"
  <2>0. level \in Nat /\ Positions \subseteq Nat
    BY DEF IInv, ClientOK, Positions
  <2>1. \A id : Asked(id) => id \in Nat \X Nat
    BY <2>0 DEF Asked
  <2>2. CASE Open(r)
    <3>1. PICK l \in 1 .. level, p \in Positions : r = AccountRequest(l, p)
      BY <1>2 DEF IInv, WorkOK
    <3>2. r.from \in Nat \X Nat
      BY <2>0, <3>1 DEF AccountRequest
    <3> QED
      BY <1>2, <2>2, <3>2 DEF Open
  <2>3. CASE Replay(r)
    <3>1. /\ Key(r) \in DOMAIN record /\ Answered(r, "ok")
          /\ pool' = Append(pool, record[Key(r)].from)
      BY <1>2, <2>3 DEF Replay
    <3>2. record[Key(r)].from \in Nat \X Nat
      BY <2>1, <3>1 DEF IInv, IdsOK, Taken
    <3> QED
      BY <1>2, <3>1, <3>2
  <2> QED
    BY <1>2, <2>2, <2>3 DEF Serve, Move, Refuse, Reachable
<1> QED
  BY <1>1, <1>2

LEMMA SweepKeeps ==
  ASSUME SweepOK, Sent' = Sent, UNCHANGED <<level, stage, at, pool, verdict>>,
         stage \in {"clean", "ended"} => answer' = answer,
         stage = "setup" => InTurn({"waiting", "failed"})',
         stage \in Opened => \A r \in Sent : r.kind = "account" => answer'[r] = answer[r]
  PROVE  SweepOK'
<1>1. SentPlans' = SentPlans
  BY DEF SentPlans
<1>2. stage \in Opened =>
        /\ Len(pool) = PoolSize
        /\ \A r \in Sent : IF r.kind = "account" THEN answer'[r] = "ok" ELSE r.from \in Range(pool)
        /\ \A i \in Plans : i < at => i \in SentPlans'
  BY <1>1 DEF SweepOK
<1> QED
  BY <1>1, <1>2 DEF SweepOK

LEMMA SweepServes ==
  ASSUME IInv, NEW r \in inService, Serve(r) \/ Lose(r) \/ TimeOut(r)
  PROVE  SweepOK'
<1> USE DEF IInv
<1>1. UNCHANGED <<level, stage, at, verdict>> /\ Sent' = Sent
  BY ServeEffect, AnswerEffect, TimeOutEffect
<1>2. CASE ~Waiting(r)
  <2>1. UNCHANGED <<answer, pool>>
    BY <1>2 DEF Serve, Replay, Open, Move, Refuse, Lose, TimeOut, Answered
  <2>2. InTurn({"waiting", "failed"})' = InTurn({"waiting", "failed"})
    BY <1>1, <2>1 DEF InTurn, OpenRequest, Request
  <2>3. stage = "setup" => InTurn({"waiting", "failed"})'
    BY <2>2 DEF SweepOK
  <2> QED
    BY <1>1, <2>1, <2>3, SweepKeeps
<1>3. CASE Waiting(r) /\ stage = "setup"
  <2>1. InTurn({"waiting", "failed"}) /\ pool \in Seq(Nat \X Nat)
    BY <1>3 DEF SweepOK, IdsOK
  <2>2. r = OpenRequest(Len(pool)) /\ Len(pool) < PoolSize /\ r \in Sent /\ r.kind = "account"
    BY <1>3, <2>1 DEF InTurn, Waiting, OpenRequest, Request
  <2>3. CASE Serve(r)
    <3>1. PICK id \in Nat \X Nat : pool' = Append(pool, id)
      BY <1>3, <2>2, <2>3, ServeWaiting
    <3>2. Answered(r, "ok")
      BY <1>3, <2>2, <2>3, ServeWaiting
    <3>3. InTurn({"waiting", "failed"})'
      BY <1>3, <2>1, <3>1, <3>2, OpenedInTurn
    <3> QED
      BY <1>1, <1>3, <3>3 DEF SweepOK, Opened
  <2>4. CASE Lose(r) \/ TimeOut(r)
    <3>1. UNCHANGED pool
      BY <2>4 DEF Lose, TimeOut
    <3>2. \A s \in Sent : answer'[s] = IF s = r THEN "failed" ELSE answer[s]
      <4>1. CASE Lose(r)
        <5>1. Answered(r, "failed")
          BY <4>1 DEF Lose
        <5> QED
          BY <1>3, <5>1, AnswerEffect
      <4>2. CASE TimeOut(r)
        BY <4>2, TimeOutEffect
      <4> QED
        BY <2>4, <4>1, <4>2
    <3>3. OpenRequest(Len(pool))' = OpenRequest(Len(pool))
      BY <1>1, <3>1 DEF OpenRequest, Request
    <3>4. \A s \in Sent' :
       \/ s.kind = "account" /\ s.index \in 0 .. Len(pool') - 1 /\ answer'[s] = "ok"
       \/ s = OpenRequest(Len(pool)) /\ answer'[s] \in {"waiting", "failed"} /\ Len(pool') < PoolSize
      <4> TAKE s \in Sent'
      <4>1. CASE s = r
        BY <1>1, <2>2, <3>1, <3>2, <4>1
      <4>2. CASE s # r
        BY <1>1, <2>1, <2>2, <3>1, <3>2, <4>2 DEF InTurn
      <4> QED
        BY <4>1, <4>2
    <3>5. InTurn({"waiting", "failed"})'
      BY <1>1, <2>1, <3>1, <3>3, <3>4 DEF InTurn
    <3> QED
      BY <1>1, <1>3, <3>1, <3>5, SweepKeeps DEF Opened
  <2> QED
    BY <2>3, <2>4
<1>4. CASE Waiting(r) /\ stage # "setup"
  <2>1. r \in Sent /\ answer[r] = "waiting"
    BY <1>4 DEF Waiting
  <2>2. stage \notin {"clean", "ended"}
    <3>1. answer # <<>>
      BY <2>1 DEF Sent
    <3> QED
      BY <3>1 DEF SweepOK
  <2>3. stage \in Opened
    BY <1>4, <2>2 DEF ClientOK, Opened
  <2>4. r.kind # "account"
    BY <2>1, <2>3 DEF SweepOK
  <2>5. UNCHANGED pool
    BY <1>4, <2>4, ServeWaiting DEF Lose, TimeOut
  <2>6. \A s \in Sent : s.kind = "account" => answer'[s] = answer[s]
    BY <2>4, ServeEffect, AnswerEffect, TimeOutEffect
  <2> QED
    BY <1>1, <1>4, <2>2, <2>5, <2>6, SweepKeeps
<1> QED
  BY <1>2, <1>3, <1>4

LEMMA SweepStays ==
  ASSUME IInv, [Next]_vars
  PROVE  SweepOK'
<1> USE DEF IInv
<1>1. CASE UNCHANGED vars
  <2>1. UNCHANGED <<level, stage, at, pool, answer, verdict>> /\ Sent' = Sent
    BY <1>1 DEF vars, client, Sent
  <2>2. InTurn({"waiting", "failed"})' = InTurn({"waiting", "failed"})
    BY <2>1 DEF InTurn, OpenRequest, Request
  <2>3. stage = "setup" => InTurn({"waiting", "failed"})'
    BY <2>2 DEF SweepOK
  <2> QED
    BY <2>1, <2>3, SweepKeeps
<1>2. CASE Clean
  <2>1. /\ stage' \in {"clean", "setup"} /\ pool = <<>> /\ answer = <<>>
        /\ UNCHANGED <<level, pool, answer, verdict>>
    BY <1>2, CleanEffect DEF SweepOK
  <2>2. Sent' = {} /\ IsFiniteSet({}) /\ Cardinality({}) = 0 /\ Len(pool') = 0
    BY <2>1, FS_EmptySet DEF Sent
  <2>3. InTurn({"waiting", "failed"})'
    BY <2>2 DEF InTurn
  <2> QED
    BY <2>1, <2>3 DEF SweepOK, Opened
<1>3. CASE OpenAccount
  <2>1. pool \in Seq(Nat \X Nat) /\ stage = "setup" /\ InTurn({"waiting", "failed"})
    BY <1>3 DEF IdsOK, SweepOK, OpenAccount
  <2>2. InTurn({"waiting", "failed"})'
    BY <1>3, <2>1, OpenAccountInTurn
  <2>3. UNCHANGED <<level, stage, verdict>>
    BY <1>3, SendEffect DEF OpenAccount
  <2> QED
    BY <2>1, <2>2, <2>3 DEF SweepOK, Opened
<1>4. CASE SendTransfer
  <2>1. PICK i \in Chunk(at) : /\ Send(TransferRequest(i)) /\ i \in Plans
                               /\ TransferRequest(i).kind = "transfer"
                               /\ TransferRequest(i).from = pool[Source(i) + 1]
                               /\ stage \in {"warmup", "measured"}
    BY <1>4, SendTransferSends
  <2> DEFINE r == TransferRequest(i)
  <2>2. /\ Sent' = Sent \cup {r} /\ \A s \in Sent : s # r => answer'[s] = answer[s]
        /\ UNCHANGED <<level, stage, at, pool, verdict>>
    BY <2>1, SendEffect
  <2>3. stage \in Opened /\ Len(pool) = PoolSize /\ pool \in Seq(Nat \X Nat)
    BY <2>1 DEF SweepOK, Opened, Stages, IdsOK
  <2>4. r.from \in Range(pool)
    <3>1. PoolSize \in Nat \ {0, 1} /\ Seed \in Nat /\ i \in Nat
      BY <2>1, BenchmarkAssumption DEF BenchmarkAssumption, Plans
    <3>2. Source(i) + 1 \in 1 .. Len(pool)
      BY <2>3, <3>1 DEF Source
    <3> QED
      BY <2>1, <2>3, <3>2 DEF Range
  <2> HIDE DEF r
  <2>5. \A s \in Sent' : IF s.kind = "account" THEN answer'[s] = "ok" ELSE s.from \in Range(pool')
    <3> TAKE s \in Sent'
    <3>1. CASE s = r
      BY <2>1, <2>2, <2>4, <3>1 DEF r
    <3>2. CASE s # r
      BY <2>2, <2>3, <3>2 DEF SweepOK
    <3> QED
      BY <3>1, <3>2
  <2>6. \A k \in Plans : k < at => k \in SentPlans'
    <3>1. SentPlans \subseteq SentPlans'
      BY <2>2 DEF SentPlans
    <3> QED
      BY <2>3, <3>1 DEF SweepOK
  <2> QED
    BY <2>1, <2>2, <2>3, <2>5, <2>6 DEF SweepOK
<1>5. CASE Passes
  <2>1. /\ UNCHANGED <<level, pool, answer, verdict>> /\ Sent' = Sent /\ SentPlans' = SentPlans
        /\ stage \notin {"clean", "ended"} /\ stage' \in Opened
    BY <1>5, PassEffect DEF Sent, SentPlans
  <2>2. stage' \notin {"clean", "ended", "setup"}
    BY <2>1 DEF Opened
  <2>3. ASSUME Len(pool) = PoolSize,
               \A r \in Sent : IF r.kind = "account" THEN answer[r] = "ok" ELSE r.from \in Range(pool),
               \A i \in Plans : i < at' => i \in SentPlans,
               stage' = "warmup" => at' <= WarmupOperations,
               stage' = "metrics before" => at' = WarmupOperations,
               stage' = "measured" => at' <= WarmupOperations + Operations,
               stage' \in {"metrics after", "verify", "verify keys"} =>
                 at' = WarmupOperations + Operations
        PROVE  SweepOK'
    BY <2>1, <2>2, <2>3 DEF SweepOK
  <2>4. /\ WarmupOperations \in Nat /\ Operations \in Nat /\ at \in Nat
    BY BenchmarkAssumption DEF BenchmarkAssumption, ClientOK
  <2>5. CASE SetupEnds
    <3>1. /\ stage = "setup" /\ Len(pool) = PoolSize /\ stage' = "warmup" /\ at' = 0
          /\ InTurn({"waiting", "failed"})
      BY <2>5 DEF SetupEnds, Enter, SweepOK
    <3>2. PoolSize \in Nat
      BY BenchmarkAssumption DEF BenchmarkAssumption
    <3>3. \A r \in Sent : r.kind = "account" /\ answer[r] = "ok"
      BY <3>1, <3>2 DEF InTurn
    <3>4. \A i \in Plans : ~(i < 0)
      BY <2>4 DEF Plans
    <3> QED
      BY <2>3, <2>4, <3>1, <3>3, <3>4
  <2>6. CASE ReadMetrics \/ ReadBalances
    <3>1. /\ at' = at /\ stage \in Opened
          /\ \/ stage = "metrics before" /\ stage' = "measured"
             \/ stage = "metrics after" /\ stage' = "verify"
             \/ stage = "verify" /\ stage' = "verify keys"
      BY <2>6 DEF ReadMetrics, ReadBalances, Enter, Opened, Stages
    <3>2. /\ Len(pool) = PoolSize
          /\ \A r \in Sent : IF r.kind = "account" THEN answer[r] = "ok" ELSE r.from \in Range(pool)
          /\ \A i \in Plans : i < at => i \in SentPlans
      BY <3>1 DEF SweepOK
    <3>3. /\ stage = "metrics before" => at = WarmupOperations
          /\ stage \in {"metrics after", "verify"} => at = WarmupOperations + Operations
      BY DEF SweepOK
    <3>4. WarmupOperations <= WarmupOperations + Operations
      BY <2>4
    <3> QED
      BY <2>3, <3>1, <3>2, <3>3, <3>4
  <2>7. CASE PhaseEnds
    <3>1. /\ stage \in {"warmup", "measured"} /\ stage \in Opened
          /\ Chunk(at) \subseteq SentPlans
      BY <2>7 DEF PhaseEnds, Opened, Stages
    <3>2. at <= WarmupOperations + Operations /\ (stage = "warmup" => at <= WarmupOperations)
      <4>1. /\ stage = "warmup" => at <= WarmupOperations
            /\ stage = "measured" => at <= WarmupOperations + Operations
        BY DEF SweepOK
      <4> QED
        BY <2>4, <3>1, <4>1
    <3>3. PICK next \in Nat :
           /\ next = at + Cardinality(Chunk(at)) /\ at <= next
           /\ \A i \in Plans : i < next => i < at \/ i \in Chunk(at)
           /\ next <= IF stage = "warmup" THEN WarmupOperations
                                          ELSE WarmupOperations + Operations
           /\ Chunk(next) = {} => next = IF stage = "warmup" THEN WarmupOperations
                                         ELSE WarmupOperations + Operations
      BY <2>4, <3>2, ChunkIsAnInterval
    <3>4. /\ at' = next
          /\ stage' = IF Chunk(next) # {} THEN stage
                      ELSE IF stage = "warmup" THEN "metrics before" ELSE "metrics after"
      BY <2>7, <3>3 DEF PhaseEnds, Enter
    <3>5. /\ Len(pool) = PoolSize
          /\ \A r \in Sent : IF r.kind = "account" THEN answer[r] = "ok" ELSE r.from \in Range(pool)
          /\ \A i \in Plans : i < at => i \in SentPlans
      BY <3>1 DEF SweepOK
    <3>6. \A i \in Plans : i < at' => i \in SentPlans
      BY <3>1, <3>3, <3>4, <3>5
    <3> QED
      BY <2>3, <2>4, <3>1, <3>3, <3>4, <3>5, <3>6
  <2> QED
    BY <1>5, <2>5, <2>6, <2>7 DEF Passes
<1>6. CASE Ends
  <2>1. /\ level' = level + 1 /\ stage' \in {"clean", "ended"} /\ pool' = <<>> /\ answer' = <<>>
        /\ \E v \in {"valid", "invalid", "failed"} : verdict' = Append(verdict, v)
    BY <1>6, EndEffect
  <2>2. verdict \in Seq({"valid", "invalid", "failed"}) /\ Len(verdict) = level - 1 /\ level \in Nat
    BY DEF SweepOK, ClientOK
  <2>3. verdict' \in Seq({"valid", "invalid", "failed"}) /\ Len(verdict') = level' - 1
    BY <2>1, <2>2
  <2> QED
    BY <2>1, <2>3 DEF SweepOK, Opened
<1> QED
  BY <1>1, <1>2, <1>3, <1>4, <1>5, <1>6, Steps, SweepServes

(***************************************************************************)
(* The ids of accounts.                                                    *)
(***************************************************************************)
LEMMA AskedStays ==
  ASSUME level \in Nat, NEW id, Asked(id),
         \/ level' = level /\ Sent \subseteq Sent'
         \/ level' = level + 1
  PROVE  Asked(id)'
<1>1. PICK l \in 1 .. level, p \in Positions :
        id = <<l, p>> /\ (l = level => OpenRequest(p) \in Sent)
  BY DEF Asked
<1>2. CASE level' = level /\ Sent \subseteq Sent'
  <2>1. OpenRequest(p)' = OpenRequest(p)
    BY <1>2 DEF OpenRequest, Request
  <2> QED
    BY <1>1, <1>2, <2>1 DEF Asked, Positions
<1>3. CASE level' = level + 1
  <2>1. l \in 1 .. level' /\ l # level'
    BY <1>1, <1>3
  <2> QED
    BY <1>1, <2>1 DEF Asked, Positions
<1> QED
  BY <1>2, <1>3

\* An id that is taken stays so, unless somebody asks for it, which nobody does.
LEMMA TakenStays ==
  ASSUME level \in Nat, NEW id, Taken(id),
         \/ level' = level /\ Sent \subseteq Sent'
         \/ level' = level + 1,
         \A q \in inService' : q \in inService \/ q.kind = "transfer" \/ q.from # id
  PROVE  Taken(id)'
  BY AskedStays DEF Taken, Fresh

LEMMA IdsKeep ==
  ASSUME IdsOK, \A id : Taken(id) => Taken(id)', NEW new, Taken(new)',
         pool' \in Seq(Nat \X Nat),
         \A id \in Range(pool') : id \in Range(pool) \/ id = new,
         \A k \in DOMAIN record' :
           \/ k \in DOMAIN record /\ record'[k].from = record[k].from
           \/ record'[k].from = new,
         \A r \in inService' : r \in inService \/ r.kind = "account" \/ r.from = new
  PROVE  IdsOK'
<1>1. \A id \in Range(pool') : Taken(id)'
  BY DEF IdsOK
<1>2. \A k \in DOMAIN record' : Taken(record[k].from)'
  <2> TAKE k \in DOMAIN record'
  <2>1. CASE k \in DOMAIN record /\ record'[k].from = record[k].from
    <3>1. PICK id : id = record[k].from
      OBVIOUS
    <3>2. Taken(id)'
      BY <2>1, <3>1 DEF IdsOK
    <3> QED
      BY <2>1, <3>1, <3>2
  <2>2. CASE record'[k].from = new
    BY <2>2
  <2> QED
    BY <2>1, <2>2
<1>3. \A r \in inService' : r.kind = "transfer" => Taken(r.from)'
  BY DEF IdsOK
<1> QED
  BY <1>1, <1>2, <1>3 DEF IdsOK

LEMMA IdsKeepOld ==
  ASSUME IdsOK, \A id : Taken(id) => Taken(id)',
         pool' \in Seq(Nat \X Nat), Range(pool') \subseteq Range(pool),
         DOMAIN record' \subseteq DOMAIN record,
         \A k \in DOMAIN record' : record'[k] = record[k],
         \A r \in inService' : r \in inService \/ r.kind = "account"
  PROVE  IdsOK'
<1>1. \A k \in DOMAIN record' : Taken(record[k].from)'
  <2> TAKE k \in DOMAIN record'
  <2>1. PICK id : id = record[k].from
    OBVIOUS
  <2>2. Taken(id)'
    BY <2>1 DEF IdsOK
  <2> QED
    BY <2>1, <2>2
<1>2. \A id \in Range(pool') : Taken(id)'
  BY DEF IdsOK
<1>3. \A r \in inService' : r.kind = "transfer" => Taken(r.from)'
  BY DEF IdsOK
<1> QED
  BY <1>1, <1>2, <1>3 DEF IdsOK

LEMMA RangeOfAppend ==
  ASSUME NEW S, NEW q \in Seq(S), NEW e \in S
  PROVE  Range(Append(q, e)) = Range(q) \cup {e}
<1>1. /\ Append(q, e) \in Seq(S) /\ Len(Append(q, e)) = Len(q) + 1 /\ Len(q) \in Nat
      /\ \A i \in 1 .. Len(q) : Append(q, e)[i] = q[i]
      /\ Append(q, e)[Len(q) + 1] = e
  OBVIOUS
<1>2. DOMAIN q = 1 .. Len(q) /\ DOMAIN Append(q, e) = 1 .. Len(q) + 1
  BY <1>1
<1>3. 1 .. Len(q) + 1 = (1 .. Len(q)) \cup {Len(q) + 1}
  BY <1>1
<1> QED
  BY <1>1, <1>2, <1>3 DEF Range

\* A record that is stored leaves the others alone.
LEMMA StoreEffect ==
  ASSUME NEW r, Store(r), Key(r) \notin DOMAIN record
  PROVE  /\ DOMAIN record' = DOMAIN record \cup {Key(r)}
         /\ record'[Key(r)].from = r.from
         /\ \A k \in DOMAIN record : record'[k] = record[k] /\ k # Key(r)
  BY DEF Store

\* The account that is opened is nobody else's.
LEMMA OpenTakes ==
  ASSUME IInv, NEW r \in inService, r.kind = "account",
         level' = level, Sent' = Sent, inService' = inService \ {r}
  PROVE  Taken(r.from)'
<1> USE DEF IInv
<1>1. PICK l \in 1 .. level, p \in Positions : r = AccountRequest(l, p)
  BY DEF WorkOK
<1>2. r.level = l /\ r.from = <<l, p>>
  BY <1>1 DEF AccountRequest
<1>3. l = level => r = OpenRequest(p)
  BY <1>1 DEF AccountRequest, OpenRequest, Request
<1>4. l = level => OpenRequest(p) \in Sent
  BY <1>2, <1>3 DEF WorkOK
<1>5. Asked(r.from)
  BY <1>2, <1>4 DEF Asked
<1>6. ASSUME NEW q \in inService, q.kind = "account", q.from = r.from
      PROVE  q = r
  <2>1. PICK m \in 1 .. level, n \in Positions : q = AccountRequest(m, n)
    BY <1>6 DEF WorkOK
  <2>2. m = l /\ n = p
    BY <1>2, <1>6, <2>1 DEF AccountRequest
  <2> QED
    BY <1>1, <2>1, <2>2
<1>7. Asked(r.from)'
  BY <1>5, AskedStays DEF ClientOK
<1> QED
  BY <1>6, <1>7 DEF Taken, Fresh

LEMMA IdsStay ==
  ASSUME IInv, [Next]_vars
  PROVE  IdsOK'
<1> USE DEF IInv
<1>0. level \in Nat /\ pool \in Seq(Nat \X Nat)
  BY DEF ClientOK, IdsOK
<1>1. ASSUME level' = level, Sent' = Sent, inService' \subseteq inService,
             UNCHANGED pool, DOMAIN record' \subseteq DOMAIN record,
             \A k \in DOMAIN record' : record'[k] = record[k]
      PROVE  IdsOK'
  <2>1. \A id : Taken(id) => Taken(id)'
    BY <1>0, <1>1, TakenStays
  <2> QED
    BY <1>0, <1>1, <2>1, IdsKeepOld
<1>2. CASE UNCHANGED vars \/ Passes
  <2>1. UNCHANGED <<level, answer, inService, pool, record>>
    BY <1>2, PassEffect DEF vars, client, tables
  <2> QED
    BY <1>1, <2>1 DEF Sent
<1>3. CASE Clean
  <2>1. UNCHANGED <<level, answer, inService, pool>>
    BY <1>3, CleanEffect
  <2>2. DOMAIN record' \subseteq DOMAIN record /\ \A k \in DOMAIN record' : record'[k] = record[k]
    BY <1>3, CleanEffect DEF Restrict
  <2> QED
    BY <1>1, <2>1, <2>2 DEF Sent
<1>4. CASE Ends
  <2>1. level' = level + 1 /\ pool' = <<>> /\ UNCHANGED <<inService, record>>
    BY <1>4, EndEffect
  <2>2. \A id : Taken(id) => Taken(id)'
    BY <1>0, <2>1, TakenStays
  <2>3. pool' \in Seq(Nat \X Nat) /\ Range(pool') = {}
    BY <2>1 DEF Range
  <2> QED
    BY <2>1, <2>2, <2>3, IdsKeepOld
<1>5. CASE OpenAccount
  <2> DEFINE r == OpenRequest(Len(pool))
  <2>1. Send(r) /\ r = AccountRequest(level, Len(pool)) /\ Len(pool) \in Positions /\ stage = "setup"
    BY <1>0, <1>5, OpenAccountSends
  <2>2. r \notin Sent
    <3>1. InTurn({"waiting", "failed"}) /\ Cardinality(Sent) = Len(pool) /\ Len(pool) \in Nat
      BY <1>0, <1>5, <2>1 DEF SweepOK, OpenAccount
    <3> QED
      BY <3>1 DEF InTurn
  <2>3. /\ Sent' = Sent \cup {r} /\ inService' = inService \cup {r}
        /\ UNCHANGED <<level, pool, record>>
    BY <2>1, SendEffect
  <2>4. r.from = <<level, Len(pool)>> /\ r.kind = "account"
    BY <2>1 DEF AccountRequest
  <2>5. \A id : Asked(id) => id # r.from
    BY <2>2, <2>4 DEF Asked
  <2> HIDE DEF r
  <2>6. \A id : Taken(id) => Taken(id)'
    <3> TAKE id
    <3> HAVE Taken(id)
    <3>1. id # r.from
      BY <2>5 DEF Taken
    <3>2. \A q \in inService' : q \in inService \/ q.kind = "transfer" \/ q.from # id
      BY <2>3, <3>1
    <3> QED
      BY <1>0, <2>3, <3>2, TakenStays
  <2> QED
    BY <1>0, <2>3, <2>4, <2>6, IdsKeepOld
<1>6. CASE SendTransfer
  <2>1. PICK i \in Chunk(at) : /\ Send(TransferRequest(i)) /\ i \in Plans
                               /\ TransferRequest(i).kind = "transfer"
                               /\ TransferRequest(i).from = pool[Source(i) + 1]
                               /\ stage \in {"warmup", "measured"}
    BY <1>6, SendTransferSends
  <2>0. PICK r : r = TransferRequest(i)
    OBVIOUS
  <2>2. /\ Sent' = Sent \cup {r} /\ inService' = inService \cup {r}
        /\ UNCHANGED <<level, pool, record>>
    BY <2>0, <2>1, SendEffect
  <2>3. r.from \in Range(pool)
    <3>1. PoolSize \in Nat \ {0, 1} /\ Seed \in Nat /\ i \in Nat
      BY <2>1, BenchmarkAssumption DEF BenchmarkAssumption, Plans
    <3>2. stage \in Opened
      BY <2>1 DEF Opened, Stages
    <3>3. Len(pool) = PoolSize
      BY <3>2 DEF SweepOK
    <3>4. Source(i) + 1 \in 1 .. Len(pool)
      BY <3>1, <3>3 DEF Source
    <3> QED
      BY <1>0, <2>0, <2>1, <3>4 DEF Range
  <2>4. r.kind = "transfer"
    BY <2>0, <2>1
  <2>5. \A id : Taken(id) => Taken(id)'
    BY <1>0, <2>2, <2>4, TakenStays
  <2>6. Taken(r.from)'
    BY <2>3, <2>5 DEF IdsOK
  <2> QED
    BY <1>0, <2>2, <2>5, <2>6, IdsKeep
<1>7. ASSUME NEW r \in inService, TimeOut(r)
      PROVE  IdsOK'
  BY <1>1, <1>7, TimeOutEffect
<1>8. ASSUME NEW r \in inService, Serve(r) \/ Lose(r)
      PROVE  IdsOK'
  <2>1. level' = level /\ Sent' = Sent /\ inService' = inService \ {r}
    BY <1>8, ServeEffect, AnswerEffect
  <2>2. \A id : Taken(id) => Taken(id)'
    BY <1>0, <2>1, TakenStays
  <2>3. CASE Open(r)
    <3>1. /\ Store(r) /\ r.kind = "account" /\ Key(r) \notin DOMAIN record
          /\ pool' = IF Waiting(r) THEN Append(pool, r.from) ELSE pool
      BY <2>3 DEF Open
    <3>2. Taken(r.from)'
      BY <2>1, <3>1, OpenTakes
    <3>3. r.from \in Nat \X Nat
      BY <1>0, <3>1 DEF WorkOK, AccountRequest, Positions
    <3>4. pool' \in Seq(Nat \X Nat) /\ \A id \in Range(pool') : id \in Range(pool) \/ id = r.from
      BY <1>0, <3>1, <3>3, RangeOfAppend
    <3>5. \A k \in DOMAIN record' : \/ k \in DOMAIN record /\ record'[k].from = record[k].from
                                    \/ record'[k].from = r.from
      BY <3>1, StoreEffect
    <3> QED
      BY <2>1, <2>2, <3>2, <3>4, <3>5, IdsKeep
  <2>4. CASE Move(r)
    <3>1. Store(r) /\ r.kind = "transfer" /\ Key(r) \notin DOMAIN record /\ UNCHANGED pool
      BY <2>4 DEF Move, Reachable
    <3>2. Taken(r.from)'
      BY <2>2, <3>1 DEF IdsOK
    <3>3. \A k \in DOMAIN record' : \/ k \in DOMAIN record /\ record'[k].from = record[k].from
                                    \/ record'[k].from = r.from
      BY <3>1, StoreEffect
    <3> QED
      BY <1>0, <2>1, <2>2, <3>1, <3>2, <3>3, IdsKeep
  <2>5. CASE Replay(r)
    <3>1. /\ Key(r) \in DOMAIN record /\ UNCHANGED record
          /\ pool' = pool \/ pool' = Append(pool, record[Key(r)].from)
      BY <2>5 DEF Replay, tables
    <3>2. PICK e : e = record[Key(r)].from
      OBVIOUS
    <3>3. Taken(e)
      BY <3>1, <3>2 DEF IdsOK
    <3>4. e \in Nat \X Nat
      BY <1>0, <3>3 DEF Taken, Asked, Positions
    <3>5. pool' \in Seq(Nat \X Nat) /\ \A id \in Range(pool') : id \in Range(pool) \/ id = e
      <4>1. CASE pool' = pool
        BY <1>0, <4>1
      <4>2. CASE pool' = Append(pool, e)
        <5>1. Range(Append(pool, e)) = Range(pool) \cup {e}
          BY <1>0, <3>4, RangeOfAppend
        <5>2. pool' \in Seq(Nat \X Nat)
          BY <1>0, <3>4, <4>2
        <5> QED
          BY <4>2, <5>1, <5>2
      <4> QED
        BY <3>1, <3>2, <4>1, <4>2
    <3>6. Taken(e)'
      BY <2>2, <3>3
    <3> QED
      BY <2>1, <3>1, <3>5, <3>6, <2>2, IdsKeep
  <2>6. CASE Refuse(r) \/ Lose(r)
    <3>1. UNCHANGED <<pool, record>>
      BY <2>6 DEF Refuse, Lose, tables
    <3> QED
      BY <1>1, <2>1, <3>1
  <2> QED
    BY <1>8, <2>3, <2>4, <2>5, <2>6 DEF Serve
<1> QED
  BY <1>2, <1>3, <1>4, <1>5, <1>6, <1>7, <1>8, Steps

(***************************************************************************)
(* The rows.                                                               *)
(***************************************************************************)
LEMMA RowsKeep ==
  ASSUME RowsOK, UNCHANGED <<stage, at, account, record, transfer, doomed>>,
         Known' \subseteq Known,
         stage = "clean" => inService' \subseteq inService
  PROVE  RowsOK'
<1>1. Kept' = Kept /\ \A k : Booked(k)' = Booked(k)
  BY DEF Kept, Booked
<1>2. stage = "clean" /\ at # 0 => \A r \in inService' : r.kind = "transfer" => r.from \notin Known'
  BY DEF RowsOK
<1>3. stage = "clean" /\ at = 4 =>
        /\ transfer \subseteq doomed.transfers
        /\ \A r \in inService' : r.kind = "transfer" /\ r.from \in DOMAIN account =>
             r.from \in doomed.accounts
  BY DEF RowsOK
<1>4. stage # "ended" /\ (stage = "clean" => at # 0) =>
        \A k \in Kept' : k[1] = "transfer" =>
          (stage # "clean" /\ Booked(k)) \/ record[k].from \notin Known'
  BY <1>1 DEF RowsOK
<1>5. /\ \A t \in transfer : t.key \in DOMAIN record /\ \E i \in Plans : t.key = <<"transfer", i>>
      /\ \A t, u \in transfer : t.key = u.key => t = u
      /\ stage # "clean" => doomed = NothingDoomed
  BY DEF RowsOK
<1> QED
  BY <1>1, <1>2, <1>3, <1>4, <1>5 DEF RowsOK

LEMMA KnownKeeps ==
  ASSUME UNCHANGED <<pool, record, doomed>>
  PROVE  Known' = Known
  BY DEF Known, Kept

\* The clean-up forgets what it has found, before it comes to an end.
LEMMA CleanRows ==
  ASSUME IInv, Clean
  PROVE  RowsOK'
<1> USE DEF IInv
<1>1. /\ stage = "clean" /\ at' = at + 1 /\ UNCHANGED <<level, pool, inService>>
      /\ pool = <<>> /\ at \in Nat /\ DOMAIN doomed = DOMAIN NothingDoomed
  BY CleanEffect DEF SweepOK, ClientOK
<1>2. /\ \A t \in transfer : t.key \in DOMAIN record /\ \E i \in Plans : t.key = <<"transfer", i>>
      /\ \A t, u \in transfer : t.key = u.key => t = u
  BY DEF RowsOK
<1>3. CASE at < 4 /\ UNCHANGED <<stage, tables>>
  <2>1. UNCHANGED <<stage, account, record, transfer>>
    BY <1>3 DEF tables
  <2>2. CASE at = 0
    <3>1. doomed' = [doomed EXCEPT !.records = DOMAIN record]
      <4>1. CASE doomed' = NothingDoomed /\ at = 4
        BY <2>2, <4>1
      <4> QED
        BY <2>2, <4>1 DEF Clean
    <3>2. doomed'.records = DOMAIN record'
      BY <1>1, <2>1, <3>1 DEF NothingDoomed
    <3>3. Kept' = {} /\ Known' = {}
      <4>1. Kept' = {}
        BY <3>2 DEF Kept
      <4>2. Range(pool') = {}
        BY <1>1 DEF Range
      <4> QED
        BY <4>1, <4>2 DEF Known
    <3>4. at' = 1
      BY <1>1, <2>2
    <3> QED
      BY <1>1, <1>2, <2>1, <3>3, <3>4 DEF RowsOK
  <2>3. CASE at \in 1 .. 3
    <3>1. \/ at = 1 /\ doomed' = [doomed EXCEPT !.entries = transfer]
          \/ at = 2 /\ doomed' = [doomed EXCEPT !.transfers = transfer]
          \/ at = 3 /\ doomed' = [doomed EXCEPT !.accounts = DOMAIN account]
      BY <2>3 DEF Clean
    <3>2. doomed'.records = doomed.records
      BY <1>1, <3>1 DEF NothingDoomed
    <3>3. Kept' = Kept /\ Known' = Known
      BY <1>1, <2>1, <3>2 DEF Kept, Known
    <3>4. \A r \in inService : r.kind = "transfer" => r.from \notin Known
      BY <1>1, <2>3 DEF RowsOK
    <3>5. \A k \in Kept : k[1] = "transfer" => record[k].from \notin Known
      BY <1>1, <2>3 DEF RowsOK
    <3>6. at' = 4 => transfer \subseteq doomed'.transfers /\ doomed'.accounts = DOMAIN account
      <4> SUFFICES ASSUME at = 3
                   PROVE  transfer \subseteq doomed'.transfers /\ doomed'.accounts = DOMAIN account
        BY <1>1
      <4>1. transfer \subseteq doomed.transfers
        BY DEF Clean, Referenced
      <4>2. doomed' = [doomed EXCEPT !.accounts = DOMAIN account]
        BY <3>1
      <4> QED
        BY <1>1, <4>1, <4>2 DEF NothingDoomed
    <3> QED
      BY <1>1, <1>2, <2>1, <3>3, <3>4, <3>5, <3>6 DEF RowsOK
  <2> QED
    BY <1>1, <1>3, <2>2, <2>3
<1>4. CASE at = 4 /\ stage' = "setup"
  <2>1. /\ doomed' = NothingDoomed /\ transfer' = transfer \ doomed.transfers
        /\ record' = Restrict(record, DOMAIN record \ doomed.records)
    BY <1>4, CleanEffect
  <2>2. transfer' = {}
    BY <1>1, <1>4, <2>1 DEF RowsOK
  <2>3. DOMAIN record' = Kept /\ \A k \in Kept : record'[k] = record[k]
    BY <2>1 DEF Restrict, Kept
  <2>4. Kept' = Kept
    BY <2>1, <2>3 DEF Kept, NothingDoomed
  <2>5. Known' = Known
    BY <1>1, <2>3, <2>4 DEF Known
  <2>6. \A k \in Kept : k[1] = "transfer" => record[k].from \notin Known
    BY <1>1, <1>4 DEF RowsOK
  <2> QED
    BY <1>4, <2>1, <2>2, <2>3, <2>4, <2>5, <2>6 DEF RowsOK
<1> QED
  BY <1>3, <1>4 DEF Clean

LEMMA OpenRows ==
  ASSUME IInv, NEW r \in inService, Open(r)
  PROVE  RowsOK'
<1> USE DEF IInv
<1>1. /\ Store(r) /\ r.kind = "account" /\ Key(r) \notin DOMAIN record
      /\ pool' = pool \/ pool' = Append(pool, r.from)
      /\ DOMAIN account' = DOMAIN account \cup {r.from} /\ UNCHANGED transfer
      /\ Answered(r, "ok")
  BY DEF Open
<1>2. UNCHANGED <<level, stage, at, doomed>> /\ inService' = inService \ {r}
  BY <1>1, AnswerEffect
<1>3. /\ DOMAIN record' = DOMAIN record \cup {Key(r)} /\ record'[Key(r)].from = r.from
      /\ \A k \in DOMAIN record : record'[k] = record[k] /\ k # Key(r)
  BY <1>1, StoreEffect
<1>4. Key(r)[1] = "account"
  BY <1>1 DEF Key
<1>5. Range(pool') \subseteq Range(pool) \cup {r.from}
  <2>1. level \in Nat /\ pool \in Seq(Nat \X Nat)
    BY DEF ClientOK, IdsOK
  <2>2. r.from \in Nat \X Nat
    BY <1>1, <2>1 DEF WorkOK, AccountRequest, Positions
  <2>3. Range(Append(pool, r.from)) = Range(pool) \cup {r.from}
    BY <2>1, <2>2, RangeOfAppend
  <2> QED
    BY <1>1, <2>3
<1>6. Known' \subseteq Known \cup {r.from}
  BY <1>2, <1>3, <1>5 DEF Known, Kept
<1>7. \A id : Taken(id) => id # r.from
  BY <1>1 DEF Taken, Fresh
<1>8. \A s \in inService' : s.kind = "transfer" => s.from # r.from
  BY <1>2, <1>7 DEF IdsOK
<1>9. \A k \in Kept' : k[1] = "transfer" =>
        k \in Kept /\ record'[k].from = record[k].from /\ record[k].from # r.from
  BY <1>2, <1>3, <1>4, <1>7 DEF Kept, IdsOK
<1>10. \A k : Booked(k)' = Booked(k)
  BY <1>1 DEF Booked
<1>11. stage = "clean" /\ at # 0 => \A s \in inService' : s.kind = "transfer" => s.from \notin Known'
  BY <1>2, <1>6, <1>8 DEF RowsOK
<1>12. stage = "clean" /\ at = 4 =>
        /\ transfer \subseteq doomed.transfers
        /\ \A s \in inService' : s.kind = "transfer" /\ s.from \in DOMAIN account' =>
             s.from \in doomed.accounts
  BY <1>1, <1>2, <1>8 DEF RowsOK
<1>13. stage # "ended" /\ (stage = "clean" => at # 0) =>
        \A k \in Kept' : k[1] = "transfer" =>
          (stage # "clean" /\ Booked(k)) \/ record'[k].from \notin Known'
  <2> SUFFICES ASSUME stage # "ended", stage = "clean" => at # 0,
                      NEW k \in Kept', k[1] = "transfer"
               PROVE  (stage # "clean" /\ Booked(k)) \/ record'[k].from \notin Known'
    OBVIOUS
  <2>1. (stage # "clean" /\ Booked(k)) \/ record[k].from \notin Known
    BY <1>9 DEF RowsOK
  <2> QED
    BY <1>6, <1>9, <2>1
<1>14. /\ \A t \in transfer : t.key \in DOMAIN record' /\ \E i \in Plans : t.key = <<"transfer", i>>
       /\ \A t, u \in transfer : t.key = u.key => t = u
       /\ stage # "clean" => doomed = NothingDoomed
  BY <1>3 DEF RowsOK
<1> QED
  BY <1>1, <1>2, <1>10, <1>11, <1>12, <1>13, <1>14 DEF RowsOK

LEMMA MoveRows ==
  ASSUME IInv, NEW r \in inService, Move(r)
  PROVE  RowsOK'
<1> USE DEF IInv
<1> DEFINE t == [key |-> Key(r), from |-> r.from, to |-> r.to]
<1>1. /\ Store(r) /\ r.kind = "transfer" /\ Key(r) \notin DOMAIN record /\ UNCHANGED pool
      /\ r.from \notin doomed.accounts /\ r.from \in DOMAIN account
      /\ transfer' = transfer \cup {t} /\ Answered(r, "ok")
  BY DEF Move, Reachable, Funded
<1>2. UNCHANGED <<level, stage, at, doomed>> /\ inService' = inService \ {r}
  BY <1>1, AnswerEffect
<1>3. /\ DOMAIN record' = DOMAIN record \cup {Key(r)} /\ record'[Key(r)].from = r.from
      /\ \A k \in DOMAIN record : record'[k] = record[k] /\ k # Key(r)
  BY <1>1, StoreEffect
<1>4. Key(r) = <<"transfer", r.index>> /\ r.index \in Plans /\ Key(r)[1] = "transfer" /\ t.key = Key(r)
  BY <1>1 DEF Key, WorkOK
<1> HIDE DEF t
<1>5. Known' = Known
  BY <1>1, <1>2, <1>3, <1>4 DEF Known, Kept
<1>6. ~(stage = "clean" /\ at = 4)
  BY <1>1 DEF RowsOK
<1>7. \A k \in Kept' : (k \in Kept /\ record'[k] = record[k]) \/ k = Key(r)
  BY <1>2, <1>3 DEF Kept
<1>8. \A k : Booked(k) => Booked(k)'
  BY <1>1 DEF Booked
<1>9. Booked(Key(r))'
  BY <1>1, <1>4 DEF Booked
<1>10. stage # "ended" /\ (stage = "clean" => at # 0) =>
        \A k \in Kept' : k[1] = "transfer" =>
          (stage # "clean" /\ Booked(k)') \/ record'[k].from \notin Known
  <2> SUFFICES ASSUME stage # "ended", stage = "clean" => at # 0,
                      NEW k \in Kept', k[1] = "transfer"
               PROVE  (stage # "clean" /\ Booked(k)') \/ record'[k].from \notin Known
    OBVIOUS
  <2>1. CASE k = Key(r)
    <3>1. stage = "clean" => r.from \notin Known
      BY <1>1 DEF RowsOK
    <3>2. Booked(k)'
      BY <1>9, <2>1
    <3> QED
      BY <1>3, <2>1, <3>1, <3>2
  <2>2. CASE k \in Kept /\ record'[k] = record[k]
    <3>1. (stage # "clean" /\ Booked(k)) \/ record[k].from \notin Known
      BY <2>2 DEF RowsOK
    <3> QED
      BY <1>8, <2>2, <3>1
  <2> QED
    BY <1>7, <2>1, <2>2
<1>11. stage = "clean" /\ at # 0 => \A s \in inService' : s.kind = "transfer" => s.from \notin Known
  BY <1>2 DEF RowsOK
<1>12. \A u \in transfer' : u.key \in DOMAIN record' /\ \E i \in Plans : u.key = <<"transfer", i>>
  BY <1>1, <1>3, <1>4 DEF RowsOK
<1>13. \A u, v \in transfer' : u.key = v.key => u = v
  <2>1. \A u \in transfer : u.key # Key(r)
    BY <1>1 DEF RowsOK
  <2> QED
    BY <1>1, <1>4, <2>1 DEF RowsOK
<1>14. stage # "clean" => doomed = NothingDoomed
  BY DEF RowsOK
<1> QED
  BY <1>2, <1>5, <1>6, <1>10, <1>11, <1>12, <1>13, <1>14 DEF RowsOK

LEMMA RowsStay ==
  ASSUME IInv, [Next]_vars
  PROVE  RowsOK'
<1> USE DEF IInv
<1>1. CASE UNCHANGED vars
  <2>1. UNCHANGED <<stage, at, account, record, transfer, doomed, pool, inService>>
    BY <1>1 DEF vars, client, tables
  <2> QED
    BY <2>1, RowsKeep, KnownKeeps
<1>2. CASE OpenAccount \/ SendTransfer
  <2>1. stage # "clean" /\ \E r : Send(r)
    BY <1>2 DEF OpenAccount, SendTransfer
  <2>2. UNCHANGED <<stage, at, account, record, transfer, doomed, pool>>
    BY <2>1, SendEffect
  <2> QED
    BY <2>1, <2>2, RowsKeep, KnownKeeps
<1>3. CASE Passes
  <2>1. /\ UNCHANGED <<pool, account, record, transfer, doomed>>
        /\ stage \notin {"clean", "ended"} /\ stage' \in Opened
    BY <1>3, PassEffect
  <2>2. stage' \notin {"clean", "ended"}
    BY <2>1 DEF Opened
  <2>3. Kept' = Kept /\ Known' = Known /\ \A k : Booked(k)' = Booked(k)
    BY <2>1 DEF Known, Kept, Booked
  <2>4. \A k \in Kept : k[1] = "transfer" => Booked(k) \/ record[k].from \notin Known
    BY <2>1 DEF RowsOK
  <2>5. /\ \A t \in transfer : t.key \in DOMAIN record /\ \E i \in Plans : t.key = <<"transfer", i>>
        /\ \A t, u \in transfer : t.key = u.key => t = u
        /\ doomed = NothingDoomed
    BY <2>1 DEF RowsOK
  <2> QED
    BY <2>1, <2>2, <2>3, <2>4, <2>5 DEF RowsOK
<1>4. CASE Ends
  <2>1. /\ UNCHANGED <<record, transfer>> /\ doomed' = NothingDoomed
        /\ at' = 0 /\ stage' \in {"clean", "ended"}
    BY <1>4, EndEffect
  <2> QED
    BY <2>1 DEF RowsOK
<1>5. ASSUME NEW r \in inService, TimeOut(r)
      PROVE  RowsOK'
  BY <1>5, TimeOutEffect, RowsKeep, KnownKeeps
<1>6. ASSUME NEW r \in inService, Refuse(r) \/ Lose(r)
      PROVE  RowsOK'
  <2>1. UNCHANGED <<stage, at, doomed>> /\ inService' \subseteq inService
    BY <1>6, ServeEffect, AnswerEffect DEF Serve
  <2>2. UNCHANGED <<pool, account, record, transfer>>
    BY <1>6 DEF Refuse, Lose, tables
  <2> QED
    BY <2>1, <2>2, RowsKeep, KnownKeeps
<1>7. ASSUME NEW r \in inService, Replay(r)
      PROVE  RowsOK'
  <2>1. UNCHANGED <<stage, at, doomed>> /\ inService' \subseteq inService
    BY <1>7, ServeEffect, AnswerEffect DEF Serve
  <2>2. UNCHANGED <<account, record, transfer>> /\ Key(r) \in DOMAIN record
    BY <1>7 DEF Replay, tables
  <2>3. CASE UNCHANGED pool
    BY <2>1, <2>2, <2>3, RowsKeep, KnownKeeps
  <2>4. CASE r.kind = "account" /\ pool' = Append(pool, record[Key(r)].from) /\ Key(r) \notin doomed.records
    <3>1. PICK e : e = record[Key(r)].from
      OBVIOUS
    <3>2. e \in Known
      BY <2>2, <2>4, <3>1 DEF Known, Kept, Key
    <3>3. level \in Nat /\ pool \in Seq(Nat \X Nat) /\ e \in Nat \X Nat
      <4>1. Taken(e) /\ level \in Nat /\ pool \in Seq(Nat \X Nat)
        BY <2>2, <3>1 DEF ClientOK, IdsOK
      <4> QED
        BY <4>1 DEF Taken, Asked, Positions
    <3>4. Range(pool') = Range(pool) \cup {e}
      BY <2>4, <3>1, <3>3, RangeOfAppend
    <3>5. Known' \subseteq Known
      BY <2>1, <2>2, <3>2, <3>4 DEF Known, Kept
    <3> QED
      BY <2>1, <2>2, <3>5, RowsKeep
  <2> QED
    BY <1>7, <2>3, <2>4 DEF Replay
<1> QED
  BY <1>1, <1>2, <1>3, <1>4, <1>5, <1>6, <1>7, Steps, CleanRows, OpenRows, MoveRows DEF Serve

(***************************************************************************)
(* What is answered, and what a level may conclude from it.                *)
(***************************************************************************)
\* A transfer that is answered from a record is one of the level's own: the records that
\* the clean-up has left behind name accounts that are not in the pool.
LEMMA ReplayIsBooked ==
  ASSUME IInv, NEW r, Waiting(r), r.kind = "transfer", Key(r) \in DOMAIN record,
         record[Key(r)].from = r.from
  PROVE  Booked(Key(r))
<1> USE DEF IInv
<1>1. r \in Sent /\ answer[r] = "waiting"
  BY DEF Waiting
<1>2. stage \in Opened
  <2>1. answer # <<>>
    BY <1>1 DEF Sent
  <2>2. stage \notin {"clean", "ended"}
    BY <2>1 DEF SweepOK
  <2>3. stage # "setup"
    <3>1. stage = "setup" => InTurn({"waiting", "failed"})
      BY DEF SweepOK
    <3> QED
      BY <1>1, <3>1 DEF InTurn, OpenRequest, Request
  <2> QED
    BY <2>2, <2>3 DEF ClientOK, Opened
<1>3. r.from \in Known
  <2>1. r.from \in Range(pool)
    BY <1>1, <1>2 DEF SweepOK
  <2> QED
    BY <2>1 DEF Known
<1>4. Key(r) \in Kept /\ Key(r)[1] = "transfer"
  BY <1>2 DEF RowsOK, Kept, NothingDoomed, Key, Opened
<1>5. Booked(Key(r)) \/ record[Key(r)].from \notin Known
  BY <1>2, <1>4 DEF RowsOK, Opened
<1> QED
  BY <1>3, <1>5

LEMMA BookedStays ==
  ASSUME IInv, [Next]_vars
  PROVE  BookedOK'
<1> USE DEF IInv
<1>1. ASSUME Sent' = Sent, transfer \subseteq transfer',
             \A s \in Sent : answer'[s] = "ok" /\ s.kind = "transfer" =>
                               answer[s] = "ok" \/ Booked(Key(s))'
      PROVE  BookedOK'
  <2>1. \A k : Booked(k) => Booked(k)'
    BY <1>1 DEF Booked
  <2> QED
    BY <1>1, <2>1 DEF BookedOK, Key
<1>2. ASSUME Sent' = {}
      PROVE  BookedOK'
  BY <1>2 DEF BookedOK
<1>3. CASE UNCHANGED vars \/ Passes
  <2>1. UNCHANGED <<answer, transfer>>
    BY <1>3, PassEffect DEF vars, client, tables
  <2> QED
    BY <1>1, <2>1 DEF Sent
<1>4. CASE Clean
  <2>1. answer' = <<>>
    BY <1>4, CleanEffect DEF SweepOK
  <2> QED
    BY <1>2, <2>1 DEF Sent
<1>5. CASE Ends
  BY <1>2, <1>5, EndEffect
<1>6. ASSUME NEW r, Send(r)
      PROVE  BookedOK'
  <2>1. /\ Sent' = Sent \cup {r} /\ answer'[r] = "waiting" /\ UNCHANGED transfer
        /\ \A s \in Sent : s # r => answer'[s] = answer[s]
    BY <1>6, SendEffect
  <2> QED
    BY <2>1 DEF BookedOK, Booked, Key
<1>7. ASSUME NEW r \in inService, TimeOut(r)
      PROVE  BookedOK'
  <2>1. /\ Sent' = Sent /\ UNCHANGED transfer
        /\ \A s \in Sent : answer'[s] = IF s = r THEN "failed" ELSE answer[s]
    BY <1>7, TimeOutEffect
  <2> QED
    BY <1>1, <2>1
<1>8. ASSUME NEW r \in inService, Serve(r) \/ Lose(r)
      PROVE  BookedOK'
  <2>1. transfer \subseteq transfer'
    BY <1>8 DEF Serve, Replay, Open, Move, Refuse, Lose, tables
  <2>2. PICK a \in {"ok", "failed"} : Answered(r, a)
    BY <1>8, ServeEffect
  <2>3. /\ Sent' = Sent
        /\ \A s \in Sent : answer'[s] = IF s = r /\ Waiting(r) THEN a ELSE answer[s]
    BY <2>2, AnswerEffect
  <2>4. ASSUME Waiting(r), r.kind = "transfer", answer'[r] = "ok"
        PROVE  Booked(Key(r))'
    <3>1. answer' = [answer EXCEPT ![r] = a] /\ r \in Sent /\ a = "ok"
      BY <2>2, <2>3, <2>4 DEF Answered, Waiting
    <3>2. \A b : Answered(r, b) => b = "ok"
      <4> TAKE b
      <4> HAVE Answered(r, b)
      <4>1. answer' = [answer EXCEPT ![r] = b]
        BY <2>4 DEF Answered
      <4>2. answer'[r] = b
        BY <3>1, <4>1 DEF Sent
      <4> QED
        BY <2>4, <4>2
    <3>3. ~Answered(r, "failed")
      BY <3>2
    <3>4. CASE Move(r)
      <4>1. PICK t : t = [key |-> Key(r), from |-> r.from, to |-> r.to]
        OBVIOUS
      <4>2. t \in transfer' /\ t.key = Key(r)
        BY <3>4, <4>1 DEF Move
      <4> QED
        BY <4>2 DEF Booked, Key
    <3>5. CASE Replay(r)
      <4>1. Key(r) \in DOMAIN record /\ record[Key(r)] = [from |-> r.from, to |-> r.to]
        BY <2>4, <3>2, <3>5 DEF Replay
      <4>2. Booked(Key(r))
        BY <2>4, <4>1, ReplayIsBooked
      <4> QED
        BY <2>1, <4>2 DEF Booked, Key
    <3> QED
      BY <1>8, <2>4, <3>3, <3>4, <3>5 DEF Serve, Open, Refuse, Lose
  <2> QED
    BY <1>1, <2>1, <2>3, <2>4
<1> QED
  BY <1>3, <1>4, <1>5, <1>6, <1>7, <1>8, Steps DEF OpenAccount, SendTransfer

\* Of a level that is valid every transfer has been sent and answered, and every answer is
\* booked: nothing of it is left in service, and each plan has its one transfer.
LEMMA Judged ==
  ASSUME IInv, Judge, LevelValid
  PROVE  /\ \A r \in inService : r.level # level
         /\ {t.key : t \in transfer} = {<<"transfer", i>> : i \in Plans}
         /\ Cardinality(transfer) = Cardinality(Plans)
<1> USE DEF IInv
<1>0. WarmupOperations \in Nat /\ Operations \in Nat
  BY BenchmarkAssumption DEF BenchmarkAssumption
<1>1. stage = "verify keys" /\ stage \in Opened
  BY DEF Judge, Opened, Stages
<1>2. Plans \subseteq SentPlans
  <2>1. /\ at = WarmupOperations + Operations
        /\ \A i \in Plans : i < at => i \in SentPlans
    BY <1>1 DEF SweepOK
  <2> QED
    BY <1>0, <2>1 DEF Plans
<1>3. \A s \in Sent : s.kind = "transfer" => answer[s] = "ok"
  BY DEF LevelValid, AllValid
<1>4. \A s \in Sent : s.kind = "account" => answer[s] = "ok"
  BY <1>1 DEF SweepOK
<1>5. \A r \in inService : r.level # level
  BY <1>3, <1>4 DEF WorkOK
<1>6. \A i \in Plans : \E t \in transfer : t.key = <<"transfer", i>>
  <2> TAKE i \in Plans
  <2>1. PICK s \in Sent : s.kind = "transfer" /\ s.index = i
    BY <1>2 DEF SentPlans
  <2>2. Booked(Key(s))
    BY <1>3, <2>1 DEF BookedOK
  <2> QED
    BY <2>1, <2>2 DEF Booked, Key
<1>7. \A t \in transfer : \E i \in Plans : t.key = <<"transfer", i>>
  BY DEF RowsOK
<1>8. {t.key : t \in transfer} = {<<"transfer", i>> : i \in Plans}
  BY <1>6, <1>7
<1>9. Cardinality(transfer) = Cardinality(Plans)
  <2> DEFINE of == [i \in Plans |-> CHOOSE t \in transfer : t.key = <<"transfer", i>>]
  <2>1. \A i \in Plans : of[i] \in transfer /\ of[i].key = <<"transfer", i>>
    BY <1>6
  <2>2. \A t \in transfer : \E i \in Plans : of[i] = t
    <3> TAKE t \in transfer
    <3>1. PICK i \in Plans : t.key = <<"transfer", i>>
      BY <1>7
    <3>2. of[i] \in transfer /\ of[i].key = t.key
      BY <2>1, <3>1
    <3> QED
      BY <3>2 DEF RowsOK
  <2>3. of \in [Plans -> transfer]
    <3>1. \A i \in Plans : (CHOOSE t \in transfer : t.key = <<"transfer", i>>) \in transfer
      BY <2>1
    <3> QED
      BY <3>1
  <2> HIDE DEF of
  <2>4. of \in Bijection(Plans, transfer)
    BY <2>1, <2>2, <2>3 DEF Bijection, Injection, Surjection, IsInjective
  <2>5. ExistsBijection(Plans, transfer)
    BY <2>4 DEF ExistsBijection
  <2>6. IsFiniteSet(Plans)
    BY <1>0, FS_Interval DEF Plans
  <2> QED
    BY <2>5, <2>6, FS_Bijection
<1> QED
  BY <1>5, <1>8, <1>9

\* A verdict stands: requests of its level do not come back, and until the next clean-up
\* has begun, whoever is still in service finds the keys used.
LEMMA ExactStays ==
  ASSUME IInv, [Next]_vars
  PROVE  ValidLevelsAreExact'
<1> USE DEF IInv
<1>0. /\ level \in Nat /\ verdict \in Seq({"valid", "invalid", "failed"})
      /\ Len(verdict) = level - 1 /\ DOMAIN verdict = 1 .. level - 1 /\ at \in Nat
  <2>1. verdict \in Seq({"valid", "invalid", "failed"}) /\ Len(verdict) = level - 1
    BY DEF SweepOK
  <2>2. DOMAIN verdict = 1 .. Len(verdict)
    BY <2>1
  <2> QED
    BY <2>1, <2>2 DEF ClientOK
<1>1. ASSUME UNCHANGED <<level, verdict, transfer>>, inService' \subseteq inService,
             stage' \in {"clean", "ended"} /\ at' = 0 => UNCHANGED <<stage, at>>
      PROVE  ValidLevelsAreExact'
  BY <1>1 DEF ValidLevelsAreExact
<1>2. ASSUME UNCHANGED <<level, verdict>>,
             \A s \in inService' : s \in inService \/ s.level = level,
             ~(stage' \in {"clean", "ended"} /\ at' = 0)
      PROVE  ValidLevelsAreExact'
  BY <1>0, <1>2 DEF ValidLevelsAreExact
<1>3. CASE UNCHANGED vars
  BY <1>1, <1>3 DEF vars, client, tables
<1>4. CASE Clean
  <2>1. UNCHANGED <<level, verdict, inService>> /\ at' # 0
    BY <1>0, <1>4, CleanEffect
  <2> QED
    BY <1>2, <2>1
<1>5. CASE Passes
  <2>1. UNCHANGED <<level, verdict, inService>> /\ stage' \notin {"clean", "ended"}
    BY <1>5, PassEffect DEF Opened
  <2> QED
    BY <1>2, <2>1
<1>6. CASE OpenAccount \/ SendTransfer
  <2>1. PICK r : Send(r) /\ r.level = level
    BY <1>6, SendTransferSends DEF OpenAccount, OpenRequest, Request
  <2>2. /\ UNCHANGED <<level, verdict, stage>> /\ inService' = inService \cup {r}
    BY <2>1, SendEffect
  <2>3. stage \notin {"clean", "ended"}
    BY <1>6 DEF OpenAccount, SendTransfer
  <2> QED
    BY <1>2, <2>1, <2>2, <2>3
<1>7. ASSUME NEW r \in inService, TimeOut(r)
      PROVE  ValidLevelsAreExact'
  BY <1>1, <1>7, TimeOutEffect
<1>8. ASSUME NEW r \in inService, Serve(r) \/ Lose(r)
      PROVE  ValidLevelsAreExact'
  <2>1. UNCHANGED <<level, verdict, stage, at>> /\ inService' = inService \ {r}
    BY <1>8, ServeEffect, AnswerEffect
  <2>2. CASE UNCHANGED transfer
    BY <1>1, <2>1, <2>2
  <2>3. CASE Move(r)
    <3>1. r.kind = "transfer" /\ Key(r) \notin DOMAIN record /\ r.index \in Plans
      BY <2>3 DEF Move, Reachable, WorkOK
    <3>2. {t.key : t \in transfer} # {<<"transfer", i>> : i \in Plans}
      <4>1. \A t \in transfer : t.key # <<"transfer", r.index>>
        BY <3>1 DEF RowsOK, Key
      <4> QED
        BY <3>1, <4>1
    <3> QED
      BY <2>1, <3>2 DEF ValidLevelsAreExact
  <2> QED
    BY <1>8, <2>2, <2>3 DEF Serve, Replay, Open, Refuse, Lose, tables
<1>9. CASE Ends
  <2>1. PICK v : verdict' = Append(verdict, v) /\ v \in {"valid", "invalid", "failed"}
    BY <1>9, EndEffect
  <2>2. level' = level + 1 /\ UNCHANGED <<inService, transfer>>
    BY <1>9, EndEffect
  <2>3. /\ DOMAIN verdict' = 1 .. level /\ verdict'[level] = v
        /\ \A l \in 1 .. level - 1 : verdict'[l] = verdict[l]
    BY <1>0, <2>1
  <2>4. ASSUME v = "valid"
        PROVE  Judge /\ LevelValid
    <3>1. \A w : EndLevel(w) => w = "valid"
      <4> TAKE w
      <4> HAVE EndLevel(w)
      <4>1. verdict' = Append(verdict, w)
        BY DEF EndLevel
      <4> QED
        BY <1>0, <2>1, <2>4, <4>1
    <3>2. ~EndLevel("failed") /\ ~EndLevel("invalid")
      BY <3>1
    <3> QED
      BY <1>9, <3>2 DEF Ends, Judge, CleanFails, SetupFails, ConnectionFails
  <2>5. v = "valid" =>
          /\ \A r \in inService : r.level # level
          /\ {t.key : t \in transfer} = {<<"transfer", i>> : i \in Plans}
          /\ Cardinality(transfer) = Cardinality(Plans)
    BY <2>4, Judged
  <2>6. \A l \in DOMAIN verdict' : verdict'[l] = "valid" => \A r \in inService' : r.level # l
    <3> TAKE l \in DOMAIN verdict'
    <3>1. CASE l = level
      BY <2>2, <2>3, <2>5, <3>1
    <3>2. CASE l \in 1 .. level - 1
      BY <1>0, <2>2, <2>3, <3>2 DEF ValidLevelsAreExact
    <3> QED
      BY <1>0, <2>3, <3>1, <3>2
  <2>7. \A l \in DOMAIN verdict' : verdict'[l] = "valid" /\ l = level' - 1 =>
          /\ {t.key : t \in transfer'} = {<<"transfer", i>> : i \in Plans}
          /\ Cardinality(transfer') = Cardinality(Plans)
    BY <1>0, <2>2, <2>3, <2>5
  <2> QED
    BY <2>6, <2>7 DEF ValidLevelsAreExact, Plans
<1> QED
  BY <1>3, <1>4, <1>5, <1>6, <1>7, <1>8, <1>9, Steps

\* What the client, the service and the tables keep to in every sweep, whatever is lost,
\* late or failed in it.
THEOREM SweepIsInvariant == Spec => []IInv
<1>1. Init => IInv
  <2> SUFFICES ASSUME Init
               PROVE  IInv
    OBVIOUS
  <2>1. /\ level = 1 /\ stage = "clean" /\ at = 0 /\ pool = <<>> /\ answer = <<>> /\ Sent = {}
        /\ verdict = <<>> /\ inService = {} /\ record = <<>> /\ transfer = {}
        /\ doomed = NothingDoomed /\ disturbances = 0
    BY DEF Init, Sent
  <2>2. ClientOK
    BY <2>1 DEF ClientOK, Stages
  <2>3. WorkOK
    BY <2>1 DEF WorkOK
  <2>4. SweepOK
    BY <2>1 DEF SweepOK, Opened
  <2>5. IdsOK
    <3>1. pool \in Seq(Nat \X Nat) /\ Range(pool) = {} /\ DOMAIN record = {}
      BY <2>1 DEF Range
    <3> QED
      BY <2>1, <3>1 DEF IdsOK
  <2>6. RowsOK
    BY <2>1 DEF RowsOK
  <2>7. BookedOK
    BY <2>1 DEF BookedOK
  <2>8. ValidLevelsAreExact
    BY <2>1 DEF ValidLevelsAreExact
  <2> QED
    BY <2>2, <2>3, <2>4, <2>5, <2>6, <2>7, <2>8 DEF IInv
<1>2. IInv /\ [Next]_vars => IInv'
  <2> SUFFICES ASSUME IInv, [Next]_vars
               PROVE  IInv'
    OBVIOUS
  <2>1. ClientOK'
    BY ClientStaysOK DEF IInv
  <2> QED
    BY <2>1, WorkStays, SweepStays, IdsStay, RowsStay, BookedStays, ExactStays DEF IInv
<1> QED
  BY <1>1, <1>2, PTL DEF Spec

\* A level that calls itself valid is what it says (evaluate_account_pool), for every pool,
\* workload, sweep of levels and number of answers that are lost, late or failed.
THEOREM ValidLevelsStayExact == Spec => []ValidLevelsAreExact
<1>1. IInv => ValidLevelsAreExact
  BY DEF IInv
<1> QED
  BY <1>1, SweepIsInvariant, PTL

(***************************************************************************)
(* The accounting of a calm sweep: what goes round the ring comes back.    *)
(***************************************************************************)
LEMMA RemainderReached ==
  ASSUME NEW n \in Nat \ {0}, NEW a \in Int, NEW p \in 0 .. n - 1
  PROVE  (p - a) % n \in 0 .. n - 1 /\ (a + ((p - a) % n)) % n = p
<1> DEFINE q == (p - a) \div n
           m == (p - a) % n
<1>1. p - a = n * q + m /\ q \in Int /\ m \in 0 .. n - 1
  OBVIOUS
<1> DEFINE e == a + m
           u == e \div n
           v == e % n
<1>2. e = n * u + v /\ u \in Int /\ v \in 0 .. n - 1 /\ e \in Int
  BY <1>1
<1> SUFFICES m \in 0 .. n - 1 /\ v = p
  OBVIOUS
<1>3. e = a + m
  OBVIOUS
<1> HIDE DEF q, m, e, u, v
<1>4. n * (u + q) = n * u + n * q /\ n * u \in Int /\ n * q \in Int
  BY <1>1, <1>2
<1>5. n * (u + q) = p - v
  BY <1>1, <1>2, <1>3, <1>4
<1>6. CASE u + q >= 1
  <2>1. n * (u + q) >= n
    BY <1>1, <1>2, <1>6
  <2> QED
    BY <1>2, <1>5, <2>1
<1>7. CASE u + q <= -1
  <2>1. n * (u + q) <= -n
    BY <1>1, <1>2, <1>7
  <2> QED
    BY <1>2, <1>5, <2>1
<1>8. CASE u + q = 0
  BY <1>1, <1>2, <1>5, <1>8
<1> QED
  BY <1>1, <1>2, <1>6, <1>7, <1>8

\* Destinations are a fixed distance from their sources, less than once round.
LEMMA Distance ==
  \E c \in 1 .. PoolSize - 1 :
    \A i \in Nat : /\ Source(i) \in Positions /\ Destination(i) \in Positions
                   /\ Source(i) # Destination(i)
                   /\ Destination(i) = (c + Source(i)) % PoolSize
<1>1. PoolSize \in Nat \ {0, 1} /\ Seed \in Nat
  BY BenchmarkAssumption DEF BenchmarkAssumption
<1>2. PICK d \in 0 .. PoolSize - 2 : d = Seed % (PoolSize - 1)
  BY <1>1
<1>3. \A a \in Nat : a % PoolSize \in 0 .. PoolSize - 1
  BY <1>1
<1>4. ASSUME NEW i \in Nat
      PROVE  /\ Source(i) \in Positions /\ Destination(i) \in Positions
             /\ Source(i) # Destination(i)
             /\ Destination(i) = ((d + 1) + Source(i)) % PoolSize
  <2>1. Source(i) \in 0 .. PoolSize - 1
    <3>1. i + Seed \in Nat
      BY <1>1
    <3> QED
      BY <1>3, <3>1 DEF Source
  <2>2. Destination(i) = ((d + 1) + Source(i)) % PoolSize
    <3>1. (Source(i) + d) + 1 = (d + 1) + Source(i)
      BY <1>2, <2>1
    <3> QED
      BY <1>2, <3>1 DEF Destination
  <2>3. (d + 1) + Source(i) \in Nat
    BY <1>1, <1>2, <2>1
  <2>4. Destination(i) \in 0 .. PoolSize - 1
    BY <1>3, <2>2, <2>3
  <2>5. Source(i) % PoolSize = Source(i)
    BY <1>1, <2>1
  <2>6. Source(i) % PoolSize # ((d + 1) + Source(i)) % PoolSize
    <3>1. /\ Source(i) \in Nat /\ Source(i) < (d + 1) + Source(i)
          /\ (d + 1) + Source(i) < Source(i) + PoolSize
      BY <1>1, <1>2, <2>1
    <3> QED
      BY <1>1, <2>3, <3>1, DifferentRemainders
  <2> QED
    BY <2>1, <2>2, <2>4, <2>5, <2>6 DEF Positions
<1>5. d + 1 \in 1 .. PoolSize - 1
  BY <1>1, <1>2
<1> QED
  BY <1>4, <1>5

\* Once round the ring, every position is the source of a plan, and the destination of one.
LEMMA RingReached ==
  ASSUME NEW n \in Nat, NEW p \in Positions
  PROVE  /\ \E i \in n .. n + PoolSize - 1 : Source(i) = p
         /\ \E i \in n .. n + PoolSize - 1 : Destination(i) = p
<1>1. PoolSize \in Nat \ {0, 1} /\ Seed \in Nat
  BY BenchmarkAssumption DEF BenchmarkAssumption
<1>0. \A a \in Int, q \in Positions :
        (q - a) % PoolSize \in Positions /\ (a + ((q - a) % PoolSize)) % PoolSize = q
  BY <1>1, RemainderReached DEF Positions
<1>2. \A q \in Positions : \E i \in n .. n + PoolSize - 1 : Source(i) = q
  <2> TAKE q \in Positions
  <2>1. PICK m : m = (q - (n + Seed)) % PoolSize
    OBVIOUS
  <2>2. m \in 0 .. PoolSize - 1 /\ ((n + Seed) + m) % PoolSize = q
    <3>1. PICK a \in Int : a = n + Seed
      BY <1>1
    <3>2. (q - a) % PoolSize \in Positions /\ (a + ((q - a) % PoolSize)) % PoolSize = q
      BY <1>0
    <3> QED
      BY <2>1, <3>1, <3>2 DEF Positions
  <2>3. (n + Seed) + m = (n + m) + Seed /\ n + m \in n .. n + PoolSize - 1
    BY <1>1, <2>2
  <2>4. Source(n + m) = q
    BY <2>2, <2>3 DEF Source
  <2> QED
    BY <2>3, <2>4
<1>3. PICK c \in 1 .. PoolSize - 1 : \A i \in Nat : Destination(i) = (c + Source(i)) % PoolSize
  BY Distance
<1>4. PICK m : m = (p - c) % PoolSize
  OBVIOUS
<1>5. m \in Positions /\ (c + m) % PoolSize = p
  BY <1>0, <1>4
<1>6. PICK i \in n .. n + PoolSize - 1 : Source(i) = m
  BY <1>2, <1>5
<1>7. Destination(i) = p
  BY <1>3, <1>5, <1>6
<1> QED
  BY <1>2, <1>7

LEMMA FlowsCount ==
  ASSUME NEW S \in SUBSET Plans, NEW p
  PROVE  /\ IsFiniteSet({i \in S : Source(i) = p}) /\ IsFiniteSet({i \in S : Destination(i) = p})
         /\ Out(S, p) \in Nat /\ In(S, p) \in Nat
<1>1. IsFiniteSet(Plans)
  BY BenchmarkAssumption, FS_Interval DEF BenchmarkAssumption, Plans
<1>2. \A T \in SUBSET Plans : IsFiniteSet(T)
  BY <1>1, FS_Subset
<1>3. /\ {i \in S : Source(i) = p} \in SUBSET Plans
      /\ {i \in S : Destination(i) = p} \in SUBSET Plans
  OBVIOUS
<1> QED
  BY <1>2, <1>3, FS_CardinalityType DEF Out, In

LEMMA FlowsGrow ==
  ASSUME NEW T \in SUBSET Plans, NEW S \in SUBSET T, NEW p
  PROVE  Out(S, p) <= Out(T, p) /\ In(S, p) <= In(T, p)
<1>1. /\ {i \in S : Source(i) = p} \in SUBSET {i \in T : Source(i) = p}
      /\ {i \in S : Destination(i) = p} \in SUBSET {i \in T : Destination(i) = p}
  OBVIOUS
<1>2. /\ IsFiniteSet({i \in T : Source(i) = p})
      /\ IsFiniteSet({i \in T : Destination(i) = p})
  BY FlowsCount
<1> QED
  BY <1>1, <1>2, FS_Subset DEF Out, In

LEMMA OneMorePlan ==
  ASSUME NEW S \in SUBSET Plans, NEW i \in Plans, i \notin S, NEW p
  PROVE  /\ Out(S \cup {i}, p) = IF Source(i) = p THEN Out(S, p) + 1 ELSE Out(S, p)
         /\ In(S \cup {i}, p) = IF Destination(i) = p THEN In(S, p) + 1 ELSE In(S, p)
<1> DEFINE A == {j \in S : Source(j) = p}
           B == {j \in S : Destination(j) = p}
<1>1. IsFiniteSet(A) /\ IsFiniteSet(B) /\ i \notin A /\ i \notin B
  BY FlowsCount
<1>2. {j \in S \cup {i} : Source(j) = p} = IF Source(i) = p THEN A \cup {i} ELSE A
  OBVIOUS
<1>3. {j \in S \cup {i} : Destination(j) = p} = IF Destination(i) = p THEN B \cup {i} ELSE B
  OBVIOUS
<1>4. Out(S, p) = Cardinality(A) /\ In(S, p) = Cardinality(B)
  BY DEF Out, In
<1> HIDE DEF A, B
<1>5. Cardinality(A \cup {i}) = Cardinality(A) + 1 /\ Cardinality(B \cup {i}) = Cardinality(B) + 1
  BY <1>1, FS_AddElement
<1> QED
  BY <1>2, <1>3, <1>4, <1>5 DEF Out, In

\* A whole turn takes one from every position and gives it one.
LEMMA FullTurn ==
  ASSUME NEW n \in Nat, n + PoolSize <= WarmupOperations + Operations, NEW p \in Positions
  PROVE  /\ Out(Past(n + PoolSize), p) = Out(Past(n), p) + 1
         /\ In(Past(n + PoolSize), p) = In(Past(n), p) + 1
<1>0. PoolSize \in Nat \ {0, 1} /\ WarmupOperations \in Nat /\ Operations \in Nat
  BY BenchmarkAssumption DEF BenchmarkAssumption
<1> DEFINE turn == n .. n + PoolSize - 1
<1>1. \A i \in turn : i \in Plans /\ i \in Nat /\ i \in Past(n + PoolSize) /\ i \notin Past(n)
  BY <1>0 DEF Plans, Past
<1>2. /\ Past(n) \in SUBSET Plans
      /\ \A i : i \in Past(n + PoolSize) <=> i \in Past(n) \/ i \in turn
  <2>1. \A i \in Plans : i < n + PoolSize <=> i < n \/ i \in turn
    BY <1>0 DEF Plans
  <2> QED
    BY <1>1, <2>1 DEF Past
<1>3. \A i, j \in turn : i # j => Source(i) # Source(j) /\ Destination(i) # Destination(j)
  <2> TAKE i, j \in turn
  <2>1. i \in Nat /\ j \in Nat /\ i < j + PoolSize /\ j < i + PoolSize
    BY <1>0
  <2> QED
    BY <2>1, RingOnce
<1>4. PICK a \in turn : Source(a) = p
  BY RingReached
<1>5. PICK b \in turn : Destination(b) = p
  BY RingReached
<1> HIDE DEF turn
<1>6. /\ Out(Past(n) \cup {a}, p) = Out(Past(n), p) + 1
      /\ In(Past(n) \cup {b}, p) = In(Past(n), p) + 1
  BY <1>1, <1>2, <1>4, <1>5, OneMorePlan
<1>7. {i \in Past(n + PoolSize) : Source(i) = p} = {i \in Past(n) \cup {a} : Source(i) = p}
  BY <1>2, <1>3, <1>4
<1>8. {i \in Past(n + PoolSize) : Destination(i) = p}
        = {i \in Past(n) \cup {b} : Destination(i) = p}
  BY <1>2, <1>3, <1>5
<1> QED
  BY <1>6, <1>7, <1>8 DEF Out, In

\* A part of a turn takes at most one from a position.
LEMMA PartTurn ==
  ASSUME NEW n \in Nat, NEW m \in Nat, n <= m, m <= n + PoolSize, NEW p
  PROVE  Out(Past(m), p) <= Out(Past(n), p) + 1 /\ In(Past(n), p) <= In(Past(m), p)
<1>0. PoolSize \in Nat \ {0, 1} /\ Plans \subseteq Nat
  BY BenchmarkAssumption DEF BenchmarkAssumption, Plans
<1>1. Past(n) \in SUBSET Past(m) /\ Past(m) \in SUBSET Plans /\ Past(n) \in SUBSET Plans
  <2>1. \A i \in Plans : i < n => i < m
    BY <1>0
  <2> QED
    BY <2>1 DEF Past
<1>2. Out(Past(n), p) \in Nat /\ Out(Past(m), p) \in Nat
  BY <1>1, FlowsCount
<1>3. Out(Past(m), p) <= Out(Past(n), p) + 1
  <2>1. CASE \E a \in Past(m) \ Past(n) : Source(a) = p
    <3>1. PICK a \in Past(m) \ Past(n) : Source(a) = p
      BY <2>1
    <3>2. \A i \in Past(m) \ Past(n) : Source(i) = p => i = a
      <4> SUFFICES ASSUME NEW i \in Past(m) \ Past(n), Source(i) = p, i # a
                   PROVE  FALSE
        OBVIOUS
      <4>1. i \in Nat /\ a \in Nat /\ i < a + PoolSize /\ a < i + PoolSize
        BY <1>0, <3>1 DEF Past
      <4> QED
        BY <3>1, <4>1, RingOnce
    <3>3. {i \in Past(m) : Source(i) = p} = {i \in Past(n) \cup {a} : Source(i) = p}
      BY <1>1, <3>1, <3>2
    <3>4. Out(Past(n) \cup {a}, p) = Out(Past(n), p) + 1
      BY <1>1, <3>1, OneMorePlan
    <3>5. Out(Past(m), p) = Out(Past(n) \cup {a}, p)
      BY <3>3 DEF Out
    <3> QED
      BY <1>2, <3>4, <3>5
  <2>2. CASE ~ \E a \in Past(m) \ Past(n) : Source(a) = p
    <3>1. {i \in Past(m) : Source(i) = p} = {i \in Past(n) : Source(i) = p}
      BY <1>1, <2>2
    <3>2. Out(Past(m), p) = Out(Past(n), p)
      BY <3>1 DEF Out
    <3> QED
      BY <1>2, <3>2
  <2> QED
    BY <2>1, <2>2
<1> QED
  BY <1>1, <1>3, FlowsGrow

LEMMA NoPlans == \A p : Out({}, p) = 0 /\ In({}, p) = 0
<1>1. \A p : {i \in {} : Source(i) = p} = {} /\ {i \in {} : Destination(i) = p} = {}
  OBVIOUS
<1> QED
  BY <1>1, FS_EmptySet DEF Out, In

(***************************************************************************)
(* A calm sweep is smooth.                                                 *)
(***************************************************************************)
LEMMA SettledKeeps ==
  ASSUME Settled, UNCHANGED <<level, answer, inService, account, record, transfer>>
  PROVE  Settled'
<1>1. Sent' = Sent /\ SentPlans' = SentPlans /\ Done' = Done
  BY DEF Sent, SentPlans, Done
<1>2. \A i : Row(i)' = Row(i)
  BY DEF Row
<1>3. \A r : Planned(r)' = Planned(r)
  BY DEF Planned, Row
<1> QED
  BY <1>1, <1>2, <1>3 DEF Settled

LEMMA SmoothInPhase ==
  ASSUME Smooth, stage \in {"warmup", "measured"}, UNCHANGED <<stage, at, metricsOK, verdict>>,
         Settled', SentPlans' \subseteq Past(at) \cup Chunk(at)
  PROVE  Smooth'
<1>1. Chunk(at)' = Chunk(at) /\ Past(at)' = Past(at)
  BY DEF Chunk, Past
<1>2. Level'
  BY <1>1 DEF Smooth, Level
<1> QED
  BY <1>2 DEF Smooth

\* The clean-up finds every row it has to.
LEMMA CleanSmooth ==
  ASSUME IInv, Smooth, Clean
  PROVE  Smooth'
<1>1. /\ stage = "clean" /\ at' = at + 1 /\ at \in Nat /\ DOMAIN doomed = DOMAIN NothingDoomed
      /\ UNCHANGED <<pool, verdict, metricsOK>> /\ pool = <<>>
  BY CleanEffect DEF Clean, IInv, ClientOK, SweepOK
<1>2. CASE at < 4 /\ UNCHANGED <<stage, transfer>>
  <2>1. \/ at = 0
        \/ at = 1 /\ doomed' = [doomed EXCEPT !.entries = transfer]
        \/ at = 2 /\ doomed' = [doomed EXCEPT !.transfers = transfer]
        \/ at = 3 /\ doomed' = [doomed EXCEPT !.accounts = DOMAIN account]
    <3>1. at = 0 \/ at = 1 \/ at = 2 \/ at = 3
      BY <1>1, <1>2
    <3> QED
      BY <3>1 DEF Clean
  <2>2. /\ at' >= 2 => transfer \subseteq doomed'.entries
        /\ at' >= 3 => transfer \subseteq doomed'.transfers
    BY <1>1, <2>1 DEF Smooth, NothingDoomed
  <2> QED
    BY <1>1, <1>2, <2>2 DEF Smooth, Level, Opened
<1>3. CASE at = 4 /\ stage' = "setup" /\ transfer' = transfer \ doomed.transfers
  <2>1. transfer' = {}
    BY <1>1, <1>3 DEF IInv, RowsOK
  <2>2. 0 .. Len(pool') - 1 = {}
    BY <1>1
  <2> QED
    BY <1>1, <1>3, <2>1, <2>2 DEF Smooth, Level, Opened
<1> QED
  BY <1>2, <1>3, CleanEffect

\* The setup gives each account its first balance.
LEMMA ServeSetupSmooth ==
  ASSUME IInv, Calm, Smooth, stage = "setup", NEW r \in inService, Serve(r)
  PROVE  Smooth'
<1>1. OpeningOK /\ r \in Sent /\ Waiting(r) /\ pool \in Seq(Nat \X Nat) /\ Len(pool) \in Nat
  BY DEF Calm, Outstanding, Waiting
<1>2. r = OpenRequest(Len(pool))
  BY <1>1 DEF OpeningOK, InTurn, Waiting
<1>3. /\ r.kind = "account" /\ Key(r) = <<"account", Len(pool)>>
      /\ r.from = <<level, Len(pool)>> /\ r.from \in Nat \X Nat
  BY <1>1, <1>2 DEF OpenRequest, Request, Key, IInv, ClientOK
<1>4. Open(r)
  <2>1. Key(r) \notin DOMAIN record
    BY <1>1, <1>3 DEF OpeningOK
  <2> QED
    BY <1>3, <2>1 DEF Serve, Replay, Move, Refuse, Reachable
<1>5. /\ account' = [a \in DOMAIN account \cup {r.from} |->
                       IF a = r.from THEN Initial ELSE account[a]]
      /\ pool' = Append(pool, r.from) /\ UNCHANGED <<level, stage, metricsOK, verdict, transfer>>
  BY <1>1, <1>4 DEF Open, Answered
<1>6. Len(pool') = Len(pool) + 1
  BY <1>1, <1>3, <1>5
<1>7. \A p \in 0 .. Len(pool') - 1 :
        <<level, p>> \in DOMAIN account' /\ account'[<<level, p>>] = Initial
  <2> TAKE p \in 0 .. Len(pool') - 1
  <2>1. CASE p = Len(pool)
    BY <1>3, <1>5, <2>1
  <2>2. CASE p \in 0 .. Len(pool) - 1
    BY <1>5, <2>2 DEF Smooth
  <2> QED
    BY <1>1, <1>6, <2>1, <2>2
<1> QED
  BY <1>5, <1>7 DEF Smooth, Level, Opened

\* When the setup ends, every account has its first balance and no plan is done.
LEMMA SetupEndsSmooth ==
  ASSUME IInv, Calm, Smooth, SetupEnds
  PROVE  Smooth'
<1>1. /\ stage = "setup" /\ stage' = "warmup" /\ at' = 0 /\ Len(pool) = PoolSize
      /\ UNCHANGED <<level, pool, answer, metricsOK, verdict, inService, account, record, transfer>>
  BY DEF SetupEnds, Enter, tables
<1>2. OpeningOK /\ transfer = {}
  BY <1>1 DEF Calm, Smooth
<1>3. \A r \in Sent : r.kind = "account"
  BY <1>2 DEF OpeningOK, InTurn, OpenRequest, Request
<1>4. Sent' = Sent /\ SentPlans' = {}
  BY <1>1, <1>3 DEF Sent, SentPlans
<1>5. Done' = {}
  <2>1. \A i : <<"transfer", i>> \notin DOMAIN record
    BY <1>2 DEF OpeningOK
  <2> QED
    BY <1>1, <2>1 DEF Done
<1>6. \A p \in Positions : /\ <<level, p>> \in DOMAIN account /\ account[<<level, p>>] = Initial
                           /\ Initial \in Nat /\ Initial = Initial - 0 + 0
  BY <1>1, BenchmarkAssumption DEF Smooth, Positions, BenchmarkAssumption
<1>7. Settled'
  BY <1>1, <1>2, <1>3, <1>4, <1>5, <1>6, NoPlans DEF Settled
<1>8. Level'
  <2>1. Past(0) = {}
    BY BenchmarkAssumption DEF Past, Plans, BenchmarkAssumption
  <2> QED
    BY <1>1, <1>4, <2>1, NoPlans DEF Level
<1> QED
  BY <1>1, <1>7, <1>8 DEF Smooth

LEMMA SendTransferSmooth ==
  ASSUME IInv, Calm, Smooth, SendTransfer
  PROVE  Smooth'
<1>0. /\ stage \in {"warmup", "measured"} /\ stage \in Opened /\ at \in Nat
      /\ Settled /\ Level /\ Len(pool) = PoolSize
  BY DEF SendTransfer, Opened, Stages, Smooth, Calm, IInv, ClientOK
<1>1. PICK i \in Chunk(at) : i \notin SentPlans /\ Send(TransferRequest(i))
  BY DEF SendTransfer
<1>2. i \in Plans /\ i \in Nat /\ at <= i
  BY BenchmarkAssumption DEF Chunk, Plans, BenchmarkAssumption
<1> DEFINE r == TransferRequest(i)
<1>3. /\ r.kind = "transfer" /\ r.index = i /\ r.url = (i - at) % Instances
      /\ r.from = pool[Source(i) + 1] /\ r.to = pool[Destination(i) + 1]
  BY DEF TransferRequest, Request
<1>4. Planned(r)
  <2>1. \A p \in Positions : pool[p + 1] = <<level, p>>
    <3>1. PoolSize \in Nat /\ \A p \in 1 .. PoolSize : pool[p] = <<level, p - 1>>
      BY <1>0, BenchmarkAssumption DEF Calm, BenchmarkAssumption
    <3> QED
      BY <3>1 DEF Positions
  <2>2. Source(i) \in Positions /\ Destination(i) \in Positions
    BY <1>2, Distance
  <2>3. i \in WarmupOperations .. WarmupOperations + PoolSize - 1 => at = WarmupOperations
    <3>1. stage = "warmup" => i < WarmupOperations
      BY DEF Chunk
    <3>2. stage = "measured" => at = WarmupOperations \/ at >= WarmupOperations + PoolSize
      BY <1>0 DEF Level
    <3>3. WarmupOperations \in Nat /\ PoolSize \in Nat
      BY BenchmarkAssumption DEF BenchmarkAssumption
    <3> QED
      BY <1>0, <1>2, <3>1, <3>2, <3>3
  <2> HIDE DEF r
  <2>4. r.url \in 0 .. Instances - 1
    <3>1. Instances \in Nat \ {0} /\ i - at \in Nat
      BY <1>0, <1>2, BenchmarkAssumption DEF BenchmarkAssumption
    <3> QED
      BY <1>3, <3>1
  <2> QED
    BY <1>2, <1>3, <2>1, <2>2, <2>3, <2>4 DEF Planned, Row
<1>5. /\ Sent' = Sent \cup {r} /\ answer'[r] = "waiting" /\ inService' = inService \cup {r}
      /\ \A s \in Sent : s # r => answer'[s] = answer[s]
      /\ UNCHANGED <<level, stage, at, pool, verdict, account, record, transfer>>
  BY <1>1, SendEffect
<1>6. UNCHANGED metricsOK
  BY <1>1 DEF Send
<1> HIDE DEF r
<1>7. \A s \in Sent : s.kind = "transfer" => s # r /\ s.index # i
  BY <1>1, <1>3 DEF SentPlans
<1>8. SentPlans' = SentPlans \cup {i}
  BY <1>3, <1>5 DEF SentPlans
<1>9. Done' = Done /\ i \notin Done
  BY <1>0, <1>1, <1>5 DEF Done, Settled
<1>10. (\A j : Row(j)' = Row(j)) /\ \A s : Planned(s)' = Planned(s)
  BY <1>5 DEF Planned, Row
<1>11. \A s \in Sent' : s.kind = "transfer" =>
         /\ Planned(s)
         /\ \A q \in Sent' : q.kind = "transfer" /\ q.index = s.index => q = s
         /\ IF s \in inService' THEN s.index \notin Done
                                ELSE s.index \in Done /\ answer'[s] = "ok"
  <2> TAKE s \in Sent'
  <2> HAVE s.kind = "transfer"
  <2>1. CASE s = r
    BY <1>3, <1>4, <1>5, <1>7, <1>9, <2>1
  <2>2. CASE s # r /\ s \in Sent
    BY <1>0, <1>3, <1>5, <1>7, <2>2 DEF Settled
  <2> QED
    BY <1>5, <2>1, <2>2
<1>12. Settled'
  BY <1>0, <1>5, <1>8, <1>9, <1>10, <1>11 DEF Settled
<1>13. SentPlans' \subseteq Past(at) \cup Chunk(at)
  BY <1>0, <1>8 DEF Level
<1> QED
  BY <1>0, <1>5, <1>6, <1>12, <1>13, SmoothInPhase

\* A source has been drawn on once more than it was given to, at most, and not yet in
\* this phase: with two amounts to begin with, it has one left.
LEMMA Affordable ==
  ASSUME IInv, Calm, Smooth, Initial >= 2, stage \in {"warmup", "measured"},
         NEW i \in Chunk(at), i \notin Done
  PROVE  account[<<level, Source(i)>>] >= 1
<1> DEFINE p == Source(i)
<1>0. /\ stage \in Opened /\ at \in Nat /\ Settled /\ Level
  BY DEF Opened, Stages, Smooth, IInv, ClientOK
<1>1. /\ i \in Plans /\ i \in Nat /\ Done \in SUBSET Plans /\ Past(at) \in SUBSET Plans
      /\ i \notin Past(at)
  BY <1>0, BenchmarkAssumption DEF Chunk, Plans, Done, Past, BenchmarkAssumption
<1>2. p \in Positions
  BY <1>1, Distance
<1>3. Past(at) \subseteq Done
  <2> SUFFICES ASSUME NEW j \in Past(at)
               PROVE  j \in Done
    OBVIOUS
  <2>1. j \in SentPlans /\ j < at
    BY <1>0 DEF IInv, SweepOK, Past
  <2>2. PICK s \in Sent : s.kind = "transfer" /\ s.index = j
    BY <2>1 DEF SentPlans
  <2>3. s \notin inService
    <3>1. \A q \in inService : \E k \in Chunk(at) : q = TransferRequest(k)
      BY DEF Calm
    <3>2. \A k \in Chunk(at) : TransferRequest(k).index = k /\ at <= k /\ k \in Nat
      BY BenchmarkAssumption
      DEF Chunk, TransferRequest, Request, Plans, BenchmarkAssumption
    <3> QED
      BY <1>0, <2>1, <2>2, <3>1, <3>2
  <2> QED
    BY <1>0, <2>2, <2>3 DEF Settled
<1>4. Done \subseteq Past(at) \cup Chunk(at)
  BY <1>0 DEF Settled, Level
<1>5. {j \in Done : Source(j) = p} = {j \in Past(at) : Source(j) = p}
  BY <1>0, <1>3, <1>4, ChunkIsARing
<1> HIDE DEF p
<1>6. Out(Done, p) = Out(Past(at), p)
  BY <1>5 DEF Out
<1>7. In(Past(at), p) <= In(Done, p)
  BY <1>1, <1>3, FlowsGrow
<1>8. /\ Out(Past(at), p) \in Nat /\ In(Past(at), p) \in Nat /\ In(Done, p) \in Nat
      /\ Initial \in Nat
  BY <1>1, FlowsCount, BenchmarkAssumption DEF BenchmarkAssumption
<1>9. Out(Past(at), p) <= In(Past(at), p) + 1
  <2>1. stage = "warmup" => Out(Past(at), p) = In(Past(at), p)
    BY <1>0, <1>2 DEF Level
  <2>2. stage = "measured" => Out(Past(at), p) <= In(Past(at), p) + 1
    BY <1>0, <1>2 DEF Level
  <2> QED
    BY <1>8, <2>1, <2>2
<1>10. account[<<level, p>>] = Initial - Out(Done, p) + In(Done, p)
  BY <1>0, <1>2 DEF Settled
<1>11. account[<<level, p>>] >= 1
  BY <1>6, <1>7, <1>8, <1>9, <1>10
<1> QED
  BY <1>11 DEF p

\* A transfer moves one amount from its source to its destination.
LEMMA MoveBalances ==
  ASSUME Settled, level \in Nat, NEW i \in Plans, i \notin Done,
         account[<<level, Source(i)>>] >= 1,
         account' = [account EXCEPT ![<<level, Source(i)>>] = @ - 1,
                                    ![<<level, Destination(i)>>] = @ + 1]
  PROVE  \A p \in Positions :
           /\ <<level, p>> \in DOMAIN account' /\ account'[<<level, p>>] \in Nat
           /\ account'[<<level, p>>] = Initial - Out(Done \cup {i}, p) + In(Done \cup {i}, p)
<1> TAKE p \in Positions
<1>1. i \in Nat /\ Done \in SUBSET Plans /\ Initial \in Nat
  BY BenchmarkAssumption DEF Plans, Done, BenchmarkAssumption
<1>2. Source(i) \in Positions /\ Destination(i) \in Positions /\ Source(i) # Destination(i)
  BY <1>1, Distance
<1>3. /\ Out(Done \cup {i}, p) = IF Source(i) = p THEN Out(Done, p) + 1 ELSE Out(Done, p)
      /\ In(Done \cup {i}, p) = IF Destination(i) = p THEN In(Done, p) + 1 ELSE In(Done, p)
  BY <1>1, OneMorePlan
<1>4. Out(Done, p) \in Nat /\ In(Done, p) \in Nat
  BY <1>1, FlowsCount
<1>5. /\ <<level, p>> \in DOMAIN account /\ account[<<level, p>>] \in Nat
      /\ account[<<level, p>>] = Initial - Out(Done, p) + In(Done, p)
  BY DEF Settled
<1>6. CASE p = Source(i)
  <2>1. account'[<<level, p>>] = account[<<level, p>>] - 1
    BY <1>2, <1>5, <1>6
  <2>2. account[<<level, p>>] >= 1
    BY <1>6
  <2>3. Out(Done \cup {i}, p) = Out(Done, p) + 1 /\ In(Done \cup {i}, p) = In(Done, p)
    BY <1>2, <1>3, <1>6
  <2> QED
    BY <1>1, <1>4, <1>5, <2>1, <2>2, <2>3
<1>7. CASE p = Destination(i)
  <2>1. account'[<<level, p>>] = account[<<level, p>>] + 1
    BY <1>2, <1>5, <1>7
  <2>2. Out(Done \cup {i}, p) = Out(Done, p) /\ In(Done \cup {i}, p) = In(Done, p) + 1
    BY <1>2, <1>3, <1>7
  <2> QED
    BY <1>1, <1>4, <1>5, <2>1, <2>2
<1>8. CASE p # Source(i) /\ p # Destination(i)
  <2>1. account'[<<level, p>>] = account[<<level, p>>]
    BY <1>5, <1>8
  <2> QED
    BY <1>3, <1>5, <1>8, <2>1
<1> QED
  BY <1>6, <1>7, <1>8

LEMMA ServePhaseSmooth ==
  ASSUME IInv, Calm, Smooth, Initial >= 2, stage \in {"warmup", "measured"},
         NEW r \in inService, Serve(r)
  PROVE  Smooth'
<1>0. /\ stage \in Opened /\ at \in Nat /\ level \in Nat /\ Settled /\ Level
  BY DEF Opened, Stages, Smooth, IInv, ClientOK
<1>1. PICK i \in Chunk(at) : r = TransferRequest(i)
  BY DEF Calm
<1>2. r.kind = "transfer" /\ r.index = i /\ i \in Plans /\ Key(r) = <<"transfer", i>>
  BY <1>1 DEF TransferRequest, Request, Chunk, Key
<1>3. r \in Sent /\ Waiting(r)
  BY DEF Calm, Outstanding, Waiting
<1>4. /\ i \notin Done /\ r.from = <<level, Source(i)>> /\ r.to = <<level, Destination(i)>>
      /\ \A s \in Sent : s.kind = "transfer" /\ s.index = i => s = r
  BY <1>0, <1>2, <1>3 DEF Settled, Planned, Row
<1>5. Key(r) \notin DOMAIN record
  BY <1>2, <1>4 DEF Done
<1>6. account[<<level, Source(i)>>] >= 1
  BY <1>4, Affordable
<1>7. Funded(r)
  <2>1. i \in Nat
    BY <1>2, BenchmarkAssumption DEF Plans, BenchmarkAssumption
  <2>2. Source(i) \in Positions /\ Destination(i) \in Positions
    BY <2>1, Distance
  <2> QED
    BY <1>0, <1>4, <1>6, <2>2 DEF Funded, Settled
<1>8. Move(r)
  BY <1>2, <1>5, <1>7 DEF Serve, Replay, Open, Refuse
<1>9. /\ account' = [account EXCEPT ![<<level, Source(i)>>] = @ - 1,
                                    ![<<level, Destination(i)>>] = @ + 1]
      /\ transfer' = transfer \cup {Row(i)}
      /\ Store(r) /\ Answered(r, "ok")
  BY <1>2, <1>4, <1>8 DEF Move, Row
<1>10. /\ Sent' = Sent /\ inService' = inService \ {r} /\ answer'[r] = "ok"
       /\ \A s \in Sent : s # r => answer'[s] = answer[s]
       /\ UNCHANGED <<level, stage, at, verdict, metricsOK>>
  BY <1>3, <1>9, AnswerEffect DEF Answered
<1>11. Done' = Done \cup {i}
  BY <1>2, <1>9 DEF Store, Done
<1>12. \A j \in Done' : record'[<<"transfer", j>>] = [from |-> Row(j).from, to |-> Row(j).to]
  <2> TAKE j \in Done'
  <2>1. CASE j = i
    BY <1>2, <1>4, <1>9, <2>1 DEF Store, Row
  <2>2. CASE j # i /\ j \in Done
    BY <1>0, <1>2, <1>9, <2>2 DEF Store, Done, Settled
  <2> QED
    BY <1>11, <2>1, <2>2
<1>13. (\A j : Row(j)' = Row(j)) /\ \A s : Planned(s)' = Planned(s)
  BY <1>10 DEF Planned, Row
<1>14. transfer' = {Row(j) : j \in Done'}
  BY <1>0, <1>9, <1>11 DEF Settled
<1>15. SentPlans' = SentPlans /\ i \in SentPlans
  BY <1>2, <1>3, <1>10 DEF SentPlans
<1>16. \A s \in Sent' : s.kind = "transfer" =>
         /\ Planned(s)
         /\ \A q \in Sent' : q.kind = "transfer" /\ q.index = s.index => q = s
         /\ IF s \in inService' THEN s.index \notin Done'
                                ELSE s.index \in Done' /\ answer'[s] = "ok"
  <2> TAKE s \in Sent'
  <2> HAVE s.kind = "transfer"
  <2>1. CASE s = r
    BY <1>0, <1>2, <1>3, <1>4, <1>10, <1>11, <2>1 DEF Settled
  <2>2. CASE s # r
    BY <1>0, <1>4, <1>10, <1>11, <2>2 DEF Settled
  <2> QED
    BY <2>1, <2>2
<1>17. \A p \in Positions :
         /\ <<level, p>> \in DOMAIN account' /\ account'[<<level, p>>] \in Nat
         /\ account'[<<level, p>>] = Initial - Out(Done', p) + In(Done', p)
  BY <1>0, <1>2, <1>4, <1>6, <1>9, <1>11, MoveBalances
<1>18. Settled'
  <2>1. Done' \subseteq SentPlans'
    BY <1>0, <1>11, <1>15 DEF Settled
  <2> QED
    BY <1>10, <1>12, <1>13, <1>14, <1>16, <1>17, <2>1 DEF Settled
<1> QED
  BY <1>0, <1>10, <1>15, <1>18, SmoothInPhase DEF Level

\* A phase that is not the last has gone round the whole ring.
LEMMA PhaseEndsSmooth ==
  ASSUME IInv, Calm, Smooth, PhaseEnds
  PROVE  Smooth'
<1>0. /\ stage \in {"warmup", "measured"} /\ stage \in Opened /\ at \in Nat /\ Settled /\ Level
      /\ WarmupOperations \in Nat /\ Operations \in Nat /\ PoolSize \in Nat
      /\ stage = "warmup" => at <= WarmupOperations
      /\ stage = "measured" => at <= WarmupOperations + Operations
  BY BenchmarkAssumption
  DEF PhaseEnds, Opened, Stages, Smooth, IInv, ClientOK, SweepOK, BenchmarkAssumption
<1>1. at <= WarmupOperations + Operations
  BY <1>0
<1>2. PICK next \in Nat :
        /\ next = at + Cardinality(Chunk(at)) /\ at <= next /\ next <= at + PoolSize
        /\ \A i \in Plans : i < next => i < at \/ i \in Chunk(at)
        /\ next <= IF stage = "warmup" THEN WarmupOperations ELSE WarmupOperations + Operations
        /\ Chunk(next) # {} => next = at + PoolSize
        /\ Chunk(at) = at .. next - 1
  BY <1>0, <1>1, ChunkIsAnInterval
<1>3. /\ at' = next /\ UNCHANGED <<level, answer, metricsOK, verdict, inService, account, record,
                                   transfer>>
      /\ \/ Chunk(next) # {} /\ stage' = stage
         \/ stage = "warmup" /\ stage' = "metrics before"
         \/ stage = "measured" /\ stage' = "metrics after"
  BY <1>2 DEF PhaseEnds, Enter, tables
<1>4. Settled'
  BY <1>0, <1>3, SettledKeeps
<1>5. SentPlans' = SentPlans
  BY <1>3 DEF SentPlans, Sent
<1>6. SentPlans \subseteq Past(next)
  <2>1. Chunk(at) \subseteq Past(next)
    <3>1. \A i \in at .. next - 1 : i < next
      BY <1>0, <1>2
    <3>2. Chunk(at) \subseteq Plans
      BY DEF Chunk
    <3> QED
      BY <1>2, <3>1, <3>2 DEF Past
  <2>2. Past(at) \subseteq Past(next)
    BY <1>0, <1>2 DEF Past, Plans
  <2> QED
    BY <1>0, <2>1, <2>2 DEF Level
<1>7. \A p \in Positions : /\ Out(Past(at), p) \in Nat /\ In(Past(at), p) \in Nat
                           /\ Out(Past(next), p) \in Nat /\ In(Past(next), p) \in Nat
  <2>1. Past(at) \in SUBSET Plans /\ Past(next) \in SUBSET Plans
    BY DEF Past
  <2> QED
    BY <2>1, FlowsCount
<1>8. CASE Chunk(next) # {} /\ stage' = stage
  <2>1. next = at + PoolSize /\ next <= WarmupOperations + Operations
    BY <1>0, <1>2, <1>8
  <2>2. \A p \in Positions : /\ Out(Past(next), p) = Out(Past(at), p) + 1
                             /\ In(Past(next), p) = In(Past(at), p) + 1
    BY <1>0, <2>1, FullTurn
  <2>3. stage = "warmup" => \A p \in Positions : Out(Past(next), p) = In(Past(next), p)
    BY <1>0, <2>2 DEF Level
  <2>4. stage = "measured" => \A p \in Positions : Out(Past(next), p) <= In(Past(next), p) + 1
    <3> SUFFICES ASSUME stage = "measured", NEW p \in Positions
                 PROVE  Out(Past(next), p) <= In(Past(next), p) + 1
      OBVIOUS
    <3>1. Out(Past(at), p) <= In(Past(at), p) + 1
      BY <1>0 DEF Level
    <3> QED
      BY <1>7, <2>2, <3>1
  <2>5. stage = "measured" => next >= WarmupOperations + PoolSize
    <3>1. stage = "measured" => at = WarmupOperations \/ at >= WarmupOperations + PoolSize
      BY <1>0 DEF Level
    <3> QED
      BY <1>0, <2>1, <3>1
  <2>6. Level'
    BY <1>0, <1>3, <1>5, <1>6, <1>8, <2>3, <2>4, <2>5 DEF Level
  <2> QED
    BY <1>0, <1>3, <1>4, <1>8, <2>6 DEF Smooth
<1>9. CASE stage = "warmup" /\ stage' = "metrics before"
  <2>1. \A p \in Positions : Out(Past(next), p) <= In(Past(next), p) + 1
    <3> TAKE p \in Positions
    <3>1. Out(Past(at), p) = In(Past(at), p)
      BY <1>0, <1>9 DEF Level
    <3>2. /\ Out(Past(next), p) <= Out(Past(at), p) + 1
          /\ In(Past(at), p) <= In(Past(next), p)
      BY <1>0, <1>2, PartTurn
    <3> QED
      BY <1>7, <3>1, <3>2
  <2>2. Level'
    BY <1>3, <1>5, <1>6, <1>9, <2>1 DEF Level
  <2> QED
    BY <1>3, <1>4, <1>9, <2>2 DEF Smooth
<1>10. CASE stage = "measured" /\ stage' = "metrics after"
  <2>1. Level'
    BY <1>10 DEF Level
  <2> QED
    BY <1>3, <1>4, <1>10, <2>1 DEF Smooth
<1> QED
  BY <1>3, <1>8, <1>9, <1>10

\* After the last phase all plans are done.
LEMMA AllDone ==
  ASSUME IInv, Calm, Smooth, ReadBalances \/ Judge
  PROVE  /\ inService = {} /\ Done = Plans /\ Settled
         /\ \A i \in Plans : \E r \in Sent : r.kind = "transfer" /\ r.index = i
<1>1. stage \in Opened /\ Settled /\ inService = {}
  BY NothingAtWork DEF ReadBalances, Judge, Opened, Stages, Smooth
<1>2. WarmupOperations \in Nat /\ Operations \in Nat /\ at = WarmupOperations + Operations
  BY BenchmarkAssumption DEF ReadBalances, Judge, BenchmarkAssumption, IInv, SweepOK
<1>3. \A i \in Plans : i \in SentPlans
  <2>1. \A i \in Plans : i < at
    BY <1>2 DEF Plans
  <2> QED
    BY <1>1, <2>1 DEF IInv, SweepOK
<1>4. \A i \in Plans : \E r \in Sent : r.kind = "transfer" /\ r.index = i
  BY <1>3 DEF SentPlans
<1>5. Plans \subseteq Done
  BY <1>1, <1>4 DEF Settled
<1> QED
  BY <1>1, <1>4, <1>5 DEF Done

LEMMA ReadsSmooth ==
  ASSUME IInv, Calm, Smooth, ReadMetrics \/ ReadBalances, disturbances = 0, disturbances' = 0
  PROVE  Smooth'
<1>1. CASE ReadMetrics
  <2>1. /\ metricsOK' = metricsOK /\ at' = at
        /\ UNCHANGED <<level, pool, answer, verdict, inService, account, record, transfer>>
        /\ \/ stage = "metrics before" /\ stage' = "measured"
           \/ stage = "metrics after" /\ stage' = "verify"
    <3>1. metricsOK' = metricsOK
      <4>1. disturbances' # disturbances + 1
        OBVIOUS
      <4> QED
        BY <1>1, <4>1 DEF ReadMetrics
    <3> QED
      BY <1>1, <3>1 DEF ReadMetrics, Enter, tables
  <2>2. Settled'
    BY <2>1, SettledKeeps DEF Smooth, Opened, Stages
  <2>3. SentPlans' = SentPlans
    BY <2>1 DEF SentPlans, Sent
  <2>4. Level'
    BY <2>1, <2>3 DEF Smooth, Level, IInv, SweepOK
  <2> QED
    BY <2>1, <2>2, <2>4 DEF Smooth
<1>2. CASE ReadBalances
  <2>1. /\ stage = "verify" /\ stage' = "verify keys" /\ at' = at
        /\ UNCHANGED <<level, pool, answer, metricsOK, verdict, inService, account, record, transfer>>
        /\ seen' = [p \in Positions |->
                      IF pool[p + 1] \in DOMAIN account THEN account[pool[p + 1]] ELSE None]
    BY <1>2 DEF ReadBalances, Enter, tables
  <2>2. Done = Plans /\ Settled
    BY <1>2, AllDone
  <2>3. Settled'
    BY <2>1, <2>2, SettledKeeps
  <2>4. \A p \in Positions : pool[p + 1] = <<level, p>>
    <3>1. PoolSize \in Nat /\ \A p \in 1 .. PoolSize : pool[p] = <<level, p - 1>>
      BY <2>1, BenchmarkAssumption DEF Calm, Opened, Stages, BenchmarkAssumption
    <3> QED
      BY <3>1 DEF Positions
  <2>5. \A p \in Positions : /\ pool[p + 1] \in DOMAIN account
                             /\ account[pool[p + 1]] = Initial - Out(Plans, p) + In(Plans, p)
    BY <2>2, <2>4 DEF Settled
  <2>6. seen' = ExpectedPoolBalances
    BY <2>1, <2>5 DEF ExpectedPoolBalances, Out, In
  <2>7. Level'
    BY <2>1 DEF Level
  <2> QED
    BY <2>1, <2>3, <2>6, <2>7 DEF Smooth
<1> QED
  BY <1>1, <1>2

\* What a level needs beyond answers: accounts opened with two planned amounts or more, and
\* a phase long enough to reach every instance (or too few operations to ask for it).
Ample ==
  /\ Initial >= 2
  /\ Instances <= PoolSize \/ Operations < Instances

LEMMA SmoothIsValid ==
  ASSUME IInv, Calm, Smooth, Ample, Judge
  PROVE  LevelValid
<1>0. /\ WarmupOperations \in Nat /\ Operations \in Nat /\ Operations > PoolSize
      /\ PoolSize \in Nat /\ Instances \in Nat \ {0}
  BY BenchmarkAssumption DEF BenchmarkAssumption
<1>1. /\ inService = {} /\ Done = Plans /\ Settled
      /\ \A i \in Plans : \E r \in Sent : r.kind = "transfer" /\ r.index = i
  BY AllDone
<1>2. \A r \in Sent : r.kind = "transfer" => answer[r] = "ok" /\ Planned(r)
  BY <1>1 DEF Settled
<1>3. AllValid({r \in Sent \ Measured : r.kind = "transfer"}) /\ AllValid(Measured)
  BY <1>2 DEF AllValid, Measured
<1> DEFINE measured == WarmupOperations .. WarmupOperations + Operations - 1
<1>4. /\ \A r \in Measured : r.index \in measured /\ r.kind = "transfer" /\ Planned(r)
      /\ \A i \in measured : i \in Plans /\ \E r \in Measured : r.index = i
  <2>1. \A i : i \in measured <=> i \in Plans /\ i >= WarmupOperations
    BY <1>0 DEF Plans
  <2> HIDE DEF measured
  <2>2. \A r \in Measured : r.kind = "transfer" /\ r \in Sent /\ r.index >= WarmupOperations
    BY DEF Measured
  <2>3. \A r \in Measured : Planned(r) /\ r.index \in Plans
    BY <1>2, <2>2 DEF Planned
  <2>4. \A i \in measured : \E r \in Measured : r.index = i
    BY <1>1, <2>1 DEF Measured
  <2> QED
    BY <2>1, <2>2, <2>3, <2>4
<1>5. EveryInstanceReceivedMeasuredTraffic
  <2>1. CASE Instances <= PoolSize
    <3>1. \A r \in Measured : r.url \in 0 .. Instances - 1
      BY <1>4 DEF Planned
    <3>2. ASSUME NEW u \in 0 .. Instances - 1
          PROVE  \E r \in Measured : r.url = u
      <4>1. /\ WarmupOperations + u \in measured
            /\ WarmupOperations + u \in WarmupOperations .. WarmupOperations + PoolSize - 1
            /\ (WarmupOperations + u) - WarmupOperations = u
        BY <1>0, <2>1
      <4>2. PICK r \in Measured : r.index = WarmupOperations + u
        BY <1>4, <4>1
      <4>3. r.url = u % Instances
        BY <1>4, <4>1, <4>2 DEF Planned
      <4>4. u % Instances = u
        BY <1>0
      <4> QED
        BY <4>2, <4>3, <4>4
    <3> QED
      BY <3>1, <3>2 DEF EveryInstanceReceivedMeasuredTraffic
  <2>2. CASE Operations < Instances
    BY <2>2 DEF EveryInstanceReceivedMeasuredTraffic
  <2> QED
    BY <2>1, <2>2 DEF Ample
<1> HIDE DEF measured
<1>6. \A r \in Measured : Mapped(r) = {Row(r.index)}
  <2> TAKE r \in Measured
  <2>1. /\ r.index \in Done /\ r.kind = "transfer" /\ Key(r) = <<"transfer", r.index>>
        /\ Row(r.index) \in transfer /\ Row(r.index).key = Key(r) /\ Key(r) \in DOMAIN record
        /\ record[Key(r)] = [from |-> Row(r.index).from, to |-> Row(r.index).to]
    <3>1. r.index \in Done /\ r.kind = "transfer" /\ Key(r) = <<"transfer", r.index>>
      BY <1>1, <1>4 DEF Planned, Key
    <3>2. /\ Key(r) \in DOMAIN record
          /\ record[Key(r)] = [from |-> Row(r.index).from, to |-> Row(r.index).to]
      BY <1>1, <3>1 DEF Done, Settled
    <3>3. Row(r.index) \in transfer
      BY <1>1, <3>1 DEF Settled
    <3> QED
      BY <3>1, <3>2, <3>3 DEF Row
  <2>2. \A t \in transfer : t.key = Key(r) => t = Row(r.index)
    BY <2>1 DEF IInv, RowsOK
  <2> QED
    BY <2>1, <2>2 DEF Mapped
<1>7. \A r \in Measured : Cardinality(Mapped(r)) = 1
  BY <1>6, FS_Singleton
<1>8. Cardinality(UNION {Mapped(r) : r \in Measured}) = Operations
  <2> DEFINE rows == UNION {Mapped(r) : r \in Measured}
             of == [i \in measured |-> Row(i)]
  <2>1. rows = {Row(i) : i \in measured}
    BY <1>4, <1>6
  <2>2. \A i, j \in measured : Row(i) = Row(j) => i = j
    BY DEF Row
  <2>3. of \in [measured -> rows] /\ \A i \in measured : of[i] = Row(i)
    BY <2>1
  <2> HIDE DEF rows, of
  <2>4. of \in Bijection(measured, rows)
    BY <2>1, <2>2, <2>3 DEF Bijection, Injection, Surjection, IsInjective
  <2>5. ExistsBijection(measured, rows)
    BY <2>4 DEF ExistsBijection
  <2>6. IsFiniteSet(measured) /\ Cardinality(measured) = Operations
    BY <1>0, FS_Interval DEF measured
  <2>7. Cardinality(rows) = Operations
    BY <2>5, <2>6, FS_Bijection
  <2> QED
    BY <2>7 DEF rows
<1>9. seen = ExpectedPoolBalances /\ metricsOK
  BY DEF Smooth, Judge
<1>10. \A p \in Positions : seen[p] >= 0
  <2> TAKE p \in Positions
  <2>1. seen[p] = Initial - Out(Plans, p) + In(Plans, p)
    BY <1>9 DEF ExpectedPoolBalances, Out, In
  <2>2. /\ account[<<level, p>>] \in Nat
        /\ account[<<level, p>>] = Initial - Out(Done, p) + In(Done, p)
    BY <1>1 DEF Settled
  <2>3. seen[p] \in Nat
    BY <1>1, <2>1, <2>2
  <2> QED
    BY <2>3
<1> QED
  BY <1>3, <1>5, <1>7, <1>8, <1>9, <1>10 DEF LevelValid, EvaluateAccountPool

LEMMA SmoothStays ==
  ASSUME IInv, Calm, Smooth, Ample, [Next]_vars, disturbances = 0, disturbances' = 0
  PROVE  Smooth'
<1>1. CASE UNCHANGED vars
  <2>1. /\ UNCHANGED <<level, stage, at, pool, answer, metricsOK, seen, verdict>>
        /\ UNCHANGED <<inService, account, record, transfer, doomed>>
    BY <1>1 DEF vars, client, tables
  <2>2. stage \in Opened => Settled'
    BY <2>1, SettledKeeps DEF Smooth
  <2>3. Level'
    <3>1. SentPlans' = SentPlans
      BY <2>1 DEF SentPlans, Sent
    <3>2. Chunk(at)' = Chunk(at) /\ Past(at)' = Past(at)
      BY <2>1 DEF Chunk, Past
    <3> QED
      BY <2>1, <3>1, <3>2 DEF Smooth, Level
  <2> QED
    BY <2>1, <2>2, <2>3 DEF Smooth
<1>2. CASE Clean
  BY <1>2, CleanSmooth
<1>3. CASE OpenAccount
  <2>1. stage = "setup" /\ \E r : Send(r)
    BY <1>3 DEF OpenAccount
  <2>2. UNCHANGED <<level, stage, at, pool, metricsOK, verdict, account, transfer>>
    BY <2>1 DEF Send, tables
  <2> QED
    BY <2>1, <2>2 DEF Smooth, Level, Opened
<1>4. CASE SendTransfer
  BY <1>4, SendTransferSmooth
<1>5. CASE Passes
  BY <1>5, SetupEndsSmooth, PhaseEndsSmooth, ReadsSmooth DEF Passes
<1>6. CASE Ends
  <2>1. ~CleanFails
    <3>1. (at = 2 => at >= 2) /\ (at = 3 => at >= 3)
      OBVIOUS
    <3>2. stage = "clean" => /\ at >= 2 => transfer \subseteq doomed.entries
                             /\ at >= 3 => transfer \subseteq doomed.transfers
      BY DEF Smooth
    <3> QED
      BY <3>1, <3>2 DEF CleanFails, Referenced
  <2>2. ~SetupFails
    BY SetupHolds
  <2>3. ~ConnectionFails
    BY DEF ConnectionFails
  <2>4. Judge
    BY <1>6, <2>1, <2>2, <2>3 DEF Ends
  <2>5. EndLevel("valid")
    BY <2>4, SmoothIsValid DEF Judge
  <2>6. /\ verdict' = Append(verdict, "valid") /\ metricsOK' /\ at' = 0
        /\ stage' \in {"clean", "ended"}
    BY <2>5 DEF EndLevel
  <2>7. \A l \in DOMAIN verdict' : verdict'[l] = "valid"
    <3>1. /\ verdict \in Seq({"valid", "invalid", "failed"})
          /\ \A l \in DOMAIN verdict : verdict[l] = "valid"
      BY DEF IInv, SweepOK, Smooth
    <3>2. PICK n \in Nat : n = Len(verdict) /\ DOMAIN verdict = 1 .. n
      BY <3>1
    <3>3. /\ DOMAIN verdict' = 1 .. n + 1 /\ verdict'[n + 1] = "valid"
          /\ \A l \in 1 .. n : verdict'[l] = verdict[l]
      BY <2>6, <3>1, <3>2
    <3> QED
      BY <3>1, <3>2, <3>3
  <2>8. ~(at' >= 2) /\ ~(at' >= 3)
    BY <2>6
  <2>9. stage' \notin Opened /\ Level'
    BY <2>6 DEF Level, Opened
  <2> QED
    BY <2>6, <2>7, <2>8, <2>9 DEF Smooth
<1>7. ASSUME NEW r \in inService, Serve(r) \/ Lose(r) \/ TimeOut(r)
      PROVE  Smooth'
  <2>1. Waiting(r)
    BY DEF Calm, Outstanding, Waiting
  <2>2. Serve(r)
    BY <1>7, <2>1 DEF Lose, TimeOut
  <2>3. stage \in {"setup", "warmup", "measured"}
    BY NothingAtWork
  <2> QED
    BY <2>2, <2>3, ServeSetupSmooth, ServePhaseSmooth DEF Ample
<1> QED
  BY <1>1, <1>2, <1>3, <1>4, <1>5, <1>6, <1>7, Steps

\* A sweep in which every answer comes is valid at every level (run, judge by judge), if the
\* accounts are opened with two planned amounts and the pool is as large as the number of
\* instances. No level trips over what another has left, and no account runs dry.
THEOREM UndisturbedSweepsAreValid ==
  ASSUME Ample
  PROVE  Spec => []UndisturbedLevelsAreValid
<1> DEFINE Inv == disturbances = 0 => Smooth
<1>1. Init => Inv
  <2> SUFFICES ASSUME Init
               PROVE  Smooth
    OBVIOUS
  <2>1. stage = "clean" /\ at = 0 /\ metricsOK = TRUE /\ verdict = <<>>
    BY DEF Init
  <2> QED
    BY <2>1 DEF Smooth, Level, Opened
<1>2. IInv /\ Undisturbed /\ Inv /\ [Next]_vars => Inv'
  <2> SUFFICES ASSUME IInv, Undisturbed, Inv, [Next]_vars, disturbances' = 0
               PROVE  Smooth'
    OBVIOUS
  <2>1. disturbances = 0
    BY DisturbancesStay DEF Undisturbed
  <2> QED
    BY <2>1, SmoothStays DEF Undisturbed
<1>3. Inv => UndisturbedLevelsAreValid
  BY DEF UndisturbedLevelsAreValid, Smooth
<1> QED
  BY <1>1, <1>2, <1>3, SweepIsInvariant, UndisturbedIsInvariant, PTL DEF Spec

================================================================================
