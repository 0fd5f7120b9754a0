------------------------- MODULE WriteBehindProofs -------------------------
(* What holds of WriteBehind for every number of handles, processes and     *)
(* callers, any length of log, and any budget of failures and crashes.      *)
(*                                                                          *)
(* The inductive invariant IInv is a conjunction of what must hold of one   *)
(* handle's record whatever the others do (HandleOK), of the handles and    *)
(* the claims of their processes (Claimed), of the lock (Owned), of the     *)
(* file (OnDisk) and of the callers of flush (Waiting, Barriers).  A lemma  *)
(* ..OK says that one kind of change to a record keeps HandleOK; a lemma    *)
(* ..Frame what a step that changes one handle owes the other parts; and a  *)
(* lemma ..Step, one for each action, puts the two together.                *)
(*                                                                          *)
(* That the file is the log has an invariant of its own beside IInv, CInv,  *)
(* of the one handle that may still write; its lemmas are named ..Continues.*)
EXTENDS WriteBehind, TLAPS

(* The operation under way, and the places an operation has in the chain. *)
Runs(r, op)   == r.at # "idle" /\ Head(r.chain).op = op
Places(chain, op) == {i \in DOMAIN chain : chain[i].op = op}

(* How far an operation may be without its lease, its repair or its events. *)
Stage(r) ==
  /\ r.at # "idle" => r.chain # <<>>
  /\ r.at = "idle" \/ Runs(r, "flush") => r.batch = <<>>
  /\ r.at \in {"truncate", "rewrite", "persist"} => r.leased
  /\ r.at \in {"truncate", "rewrite"} => r.repair = r.at
  /\ r.at = "persist" => r.repair = "none"
  /\ r.repair # "none" => r.materialized
  /\ r.repair = "none" => r.recovered = <<>>

(* A drain is in the chain exactly while it is queued, once, with events to *)
(* take until it has taken them.                                            *)
OneDrain(r) ==
  /\ Places(r.chain, "drain") # {} <=> r.drain = "queued"
  /\ \A i, j \in Places(r.chain, "drain") : i = j
  /\ r.drain = "queued" => (IF r.at = "idle" \/ Head(r.chain).op # "drain" THEN r.buffered # <<>> ELSE r.batch # <<>>)

(* The append that opens a session is queued once, and close awaits it. *)
OneAppend(r) ==
  /\ \A i, j \in Places(r.chain, "append") : i = j
  /\ \A i \in Places(r.chain, "append") :
       /\ r.life = "appending"
       /\ r.closing \in {"chain", "last"} => i <= r.wait
       /\ r.closing \notin {"release", "released", "done"}

(* What an operation has taken and what is buffered are the seqs after the  *)
(* cursor, in order and with no gap.  The events of the first append are    *)
(* numbered but not yet counted by next.                                    *)
Kept(r) ==
  /\ r.cursor <= r.next
  /\ IF Runs(r, "append") THEN r.batch = <<r.next>> /\ r.buffered = <<>> /\ r.cursor = r.next
     ELSE r.batch \o r.buffered = Seqs(r.cursor, r.next - r.cursor)
  /\ r.life \in {"opened", "appending", "failed"} => r.buffered = <<>> /\ r.cursor = r.next

(* A close that awaits a chain of no operation finds it at rest, and one    *)
(* that has not failed finds nothing left unless a producer logs after it.  *)
Closed(r) ==
  /\ r.closing = "done" <=> r.life = "closed"
  /\ r.life \in {"new", "dead"} => r.closing = "open"
  /\ r.closing \in {"chain", "last"} /\ r.wait = 0 => r.at = "idle"
  /\ /\ r.closing \in {"last", "release", "released", "done"}
     /\ ~r.closeFailed /\ ~LateProducers
     => r.buffered = <<>> /\ r.batch = <<>> /\ r.cursor = r.next

(* All that holds of a handle by itself. *)
HandleOK(r) == Stage(r) /\ OneDrain(r) /\ OneAppend(r) /\ Kept(r) /\ Closed(r)
AllOK == \A h \in Handles : HandleOK(handle[h])

(* The handle in use is the one its process claims. *)
Claimed ==
  /\ \A h \in Handles : Alive(h) /\ handle[h].closing # "done" =>
       handle[h].home \in Procs /\ claim[handle[h].home] = h
  /\ \A p \in Procs : claim[p] # 0 =>
       Alive(claim[p]) /\ handle[claim[p]].closing # "done" /\ handle[claim[p]].home = p

(* Who holds the lease of a session has the lock of its file. *)
Owned ==
  \A h \in Handles :
    handle[h].leased /\ handle[h].closing \notin {"release", "released", "done"} => lock = h

(* A handle is never past what the file has, or keeps in memory for the     *)
(* rewrite.                                                                 *)
OnDisk ==
  /\ ~disk.exists => disk.log = <<>> /\ ~disk.torn
  /\ ~disk.torn => disk.tail = <<>>
  /\ \A h \in Handles :
       /\ handle[h].cursor <= Len(disk.log) + Len(handle[h].recovered)
       /\ handle[h].materialized => disk.exists

(* A caller awaits a handle that is in use; one whose producer logs nothing *)
(* meanwhile has its mark written by the time its drain is over.            *)
Waiting(f) ==
  LET c == flusher[f]  r == handle[flusher[f].on]
  IN c.at \in {"drain", "ready", "barrier"} =>
       /\ c.on # 0 /\ Alive(c.on)
       /\ c.at = "drain" => c.mark <= r.next
       /\ ~c.late /\ (c.at = "drain" => r.drain = "gap") => c.mark <= r.cursor
(* The flushes in a chain are those of the callers that await it, each one  *)
(* once.                                                                    *)
Awaits(f, h) == f \in Flushers /\ flusher[f].at = "barrier" /\ flusher[f].on = h
InChain(h) ==
  LET c == handle[h].chain
  IN /\ \A i \in Places(c, "flush") : Awaits(c[i].by, h)
     /\ \A i, j \in Places(c, "flush") : c[i].by = c[j].by => i = j
Barriers == \A h \in Handles : InChain(h)

(* The inductive invariant. *)
IInv == TypeOK /\ AllOK /\ Claimed /\ Owned /\ OnDisk /\ (\A f \in Flushers : Waiting(f)) /\ Barriers /\ FlushedIsDurable
-----------------------------------------------------------------------------
(* Operations of a chain.                                                  *)

(* An operation queued is the last one.                                    *)
LEMMA PlacedLast ==
  ASSUME NEW s \in Seq(Ops), NEW o \in Ops, NEW op
  PROVE  Places(Append(s, o), op) = Places(s, op) \cup (IF o.op = op THEN {Len(s) + 1} ELSE {})
<1>1. DOMAIN Append(s, o) = DOMAIN s \cup {Len(s) + 1} /\ Len(s) + 1 \notin DOMAIN s
  OBVIOUS
<1>2. \A i \in DOMAIN s : Append(s, o)[i] = s[i]
  OBVIOUS
<1>3. Append(s, o)[Len(s) + 1] = o
  OBVIOUS
<1> QED BY <1>1, <1>2, <1>3 DEF Places

(* The chain moves up by one when its head is over.                        *)
LEMMA PlacedRest ==
  ASSUME NEW s \in Seq(Ops), s # <<>>, NEW op
  PROVE  /\ Tail(s) \in Seq(Ops) /\ Len(Tail(s)) = Len(s) - 1
         /\ \A i \in Places(Tail(s), op) : i \in Nat \ {0} /\ i + 1 \in Places(s, op)
                                          /\ Tail(s)[i] = s[i + 1]
         /\ \A i \in Places(s, op) : i \in Nat \ {0} /\ (i # 1 => i - 1 \in Places(Tail(s), op))
<1>1. Tail(s) \in Seq(Ops) /\ Len(Tail(s)) = Len(s) - 1
  OBVIOUS
<1>2. \A i \in 1 .. Len(s) - 1 : Tail(s)[i] = s[i + 1]
  OBVIOUS
<1>3. DOMAIN Tail(s) = 1 .. Len(s) - 1 /\ DOMAIN s = 1 .. Len(s)
  BY <1>1
<1>4. ASSUME NEW i \in Places(Tail(s), op)
      PROVE  i \in Nat \ {0} /\ i + 1 \in Places(s, op) /\ Tail(s)[i] = s[i + 1]
  BY <1>2, <1>3 DEF Places
<1>5. ASSUME NEW i \in Places(s, op)
      PROVE  i \in Nat \ {0} /\ (i # 1 => i - 1 \in Places(Tail(s), op))
  <2>1. i \in 1 .. Len(s) /\ s[i].op = op
    BY <1>3 DEF Places
  <2>2. CASE i # 1
    <3>1. i - 1 \in 1 .. Len(s) - 1 /\ Tail(s)[i - 1] = s[i]
      BY <2>1, <2>2, <1>2
    <3> QED BY <3>1, <2>1, <1>3 DEF Places
  <2> QED BY <2>1, <2>2
<1> QED BY <1>1, <1>4, <1>5

(* The head is the operation in first place.                               *)
LEMMA PlacedFirst ==
  ASSUME NEW s \in Seq(Ops), s # <<>>, NEW op
  PROVE  1 \in Places(s, op) <=> Head(s).op = op
BY DEF Places

(* An append is never empty. *)
LEMMA Longer ==
  ASSUME NEW S, NEW s \in Seq(S), NEW e \in S
  PROVE  Append(s, e) # <<>>
<1>1. Append(s, e)[Len(s) + 1] = e /\ Len(s) + 1 \in DOMAIN Append(s, e)
  OBVIOUS
<1>2. DOMAIN <<>> = {}
  OBVIOUS
<1> QED BY <1>1, <1>2

(* The arithmetic the steps need, with no sequence in sight of the solver. *)
LEMMA StillWithin ==
  ASSUME NEW c \in Nat, NEW n \in Nat, NEW m \in Nat, NEW k \in Nat, c <= n + k, n <= m
  PROVE  c <= m + k
OBVIOUS

LEMMA AddsUp ==
  ASSUME NEW a \in Nat, NEW b \in Nat
  PROVE  a + b \in Nat /\ 0 <= a + b
OBVIOUS

LEMMA NotPast ==
  ASSUME NEW a \in Nat, NEW b \in Nat, NEW n \in Nat, NEW m \in Nat, a + b = m - n
  PROVE  n + a <= m
OBVIOUS

(* Nothing before a sequence is the sequence. *)
LEMMA NoPrefix ==
  ASSUME NEW S, NEW s \in Seq(S)
  PROVE  <<>> \o s = s
OBVIOUS

(* Runs of seqs.                                                           *)
(* A run of no seqs is empty. *)
LEMMA SeqsNone ==
  ASSUME NEW n \in Nat
  PROVE  Seqs(n, 0) = <<>>
BY DEF Seqs

(* A run has the length it is asked for. *)
LEMMA SeqsRun ==
  ASSUME NEW n \in Nat, NEW m \in Nat
  PROVE  Seqs(n, m) \in Seq(Nat) /\ Len(Seqs(n, m)) = m
BY DEF Seqs

(* What follows a part of a run is the rest of it.                         *)
LEMMA SeqsRest ==
  ASSUME NEW a \in Seq(Nat), NEW b \in Seq(Nat), NEW n \in Nat, NEW m \in Nat,
         a \o b = Seqs(n, m)
  PROVE  /\ Len(a) + Len(b) = m
         /\ <<>> \o b = Seqs(n + Len(a), m - Len(a))
<1>1. Len(a \o b) = Len(a) + Len(b)
  OBVIOUS
<1>2. Len(a) + Len(b) = m
  BY <1>1, SeqsRun
<1>3. \A i \in 1 .. Len(b) : b[i] = n + Len(a) + i - 1
  <2>1. TAKE i \in 1 .. Len(b)
  <2>2. (a \o b)[Len(a) + i] = b[i]
    OBVIOUS
  <2>3. Seqs(n, m)[Len(a) + i] = n + (Len(a) + i) - 1
    BY <1>2 DEF Seqs
  <2> QED BY <2>2, <2>3
<1>4. <<>> \o b = b
  OBVIOUS
<1>5. b = [i \in 1 .. Len(b) |-> b[i]]
  OBVIOUS
<1>6. m - Len(a) = Len(b)
  BY <1>2
<1> QED BY <1>2, <1>3, <1>4, <1>5, <1>6 DEF Seqs

(* The next seq continues a run.                                           *)
LEMMA SeqsNext ==
  ASSUME NEW a \in Seq(Nat), NEW b \in Seq(Nat), NEW n \in Nat, NEW m \in Nat,
         a \o b = Seqs(n, m)
  PROVE  a \o Append(b, n + m) = Seqs(n, m + 1)
<1>1. Len(a \o b) = m /\ a \o b \in Seq(Nat)
  BY SeqsRun
<1>2. a \o Append(b, n + m) = Append(a \o b, n + m)
  BY SMTT(20)
<1>3. Append(Seqs(n, m), n + m) = Seqs(n, m + 1)
  <2> DEFINE c == Seqs(n, m)
  <2>1. c \in Seq(Nat) /\ Len(c) = m
    BY SeqsRun
  <2>2. \A i \in 1 .. m : c[i] = n + i - 1
    BY DEF Seqs
  <2>3. n + m \in Nat /\ m + 1 \in Nat
    OBVIOUS
  <2> HIDE DEF c
  <2>4. Append(c, n + m) = [i \in 1 .. m + 1 |-> IF i \in 1 .. m THEN c[i] ELSE n + m]
    BY <2>1, <2>3
  <2>5. \A i \in 1 .. m + 1 : (IF i \in 1 .. m THEN c[i] ELSE n + m) = n + i - 1
    <3> TAKE i \in 1 .. m + 1
    <3>1. CASE i \in 1 .. m
      BY <3>1, <2>2
    <3>2. CASE i \notin 1 .. m
      <4>1. i = m + 1
        BY <3>2
      <4> QED BY <3>2, <4>1
    <3> QED BY <3>1, <3>2
  <2>6. [i \in 1 .. m + 1 |-> IF i \in 1 .. m THEN c[i] ELSE n + m]
          = [i \in 1 .. m + 1 |-> n + i - 1]
    BY <2>5
  <2> QED BY <2>4, <2>6 DEF Seqs, c
<1> QED BY <1>2, <1>3

-----------------------------------------------------------------------------
(* What an operation does to one handle keeps its part of the invariant.    *)

(* A drain or close that moves on in memory, or a session that is published: *)
(* no operation is queued, begun or ended.                                 *)
LEMMA MovesOK ==
  ASSUME NEW r \in HandleRecord, NEW s \in HandleRecord, HandleOK(r),
         s.leased = r.leased, s.cursor = r.cursor, s.materialized = r.materialized,
         s.repair = r.repair, s.recovered = r.recovered, s.buffered = r.buffered,
         s.batch = r.batch, s.chain = r.chain, s.at = r.at, s.closing = r.closing,
         s.wait = r.wait, s.closeFailed = r.closeFailed, s.next = r.next,
         r.drain # "queued" <=> s.drain # "queued",
         s.life = r.life \/ (r.life = "opened" /\ s.life = "live")
  PROVE  HandleOK(s)
<1>1. Stage(s)
  BY DEF HandleOK, Stage, Runs
<1>2. OneDrain(s)
  BY DEF HandleOK, OneDrain
<1>3. OneAppend(s)
  BY DEF HandleOK, OneAppend
<1>4. Kept(s)
  BY DEF HandleOK, Kept, Runs
<1>5. Closed(s)
  BY DEF HandleOK, Closed
<1> QED BY <1>1, <1>2, <1>3, <1>4, <1>5 DEF HandleOK

(* A drain takes its place in the chain.                                   *)
LEMMA QueuesDrainOK ==
  ASSUME NEW r \in HandleRecord, NEW s \in HandleRecord, HandleOK(r),
         s.life = r.life, s.leased = r.leased, s.cursor = r.cursor,
         s.materialized = r.materialized, s.repair = r.repair, s.recovered = r.recovered,
         s.buffered = r.buffered, s.batch = r.batch, s.at = r.at, s.closing = r.closing,
         s.wait = r.wait, s.closeFailed = r.closeFailed, s.next = r.next,
         r.drain # "queued",
         s.drain = "queued",
         r.buffered # <<>>,
         s.chain = Append(r.chain, Op("drain", "none"))
  PROVE  HandleOK(s)
<1> DEFINE o == Op("drain", "none")
<1>a. r.chain \in Seq(Ops) /\ s.chain \in Seq(Ops) /\ o \in Ops /\ o.op = "drain"
      /\ s.chain = Append(r.chain, o)
  BY DEF Ops, Op, HandleRecord
<1> HIDE DEF o
<1>b. /\ Places(s.chain, "drain") = Places(r.chain, "drain") \cup {Len(r.chain) + 1}
      /\ Places(s.chain, "append") = Places(r.chain, "append")
  <2>1. \A op : Places(Append(r.chain, o), op)
                    = Places(r.chain, op) \cup (IF o.op = op THEN {Len(r.chain) + 1} ELSE {})
    BY <1>a, PlacedLast
  <2> QED BY <1>a, <2>1, "drain" # "append"
<1>c. r.chain # <<>> => Head(s.chain) = Head(r.chain)
  BY <1>a
<1>d. s.chain # <<>>
  BY <1>a, Longer
<1>e. r.at # "idle" => Head(s.chain) = Head(r.chain) /\ r.chain # <<>>
  BY <1>c DEF HandleOK, Stage
<1>f. Places(r.chain, "drain") = {}
  BY DEF HandleOK, OneDrain
<1>g. r.at # "idle" => Head(s.chain).op # "drain"
  BY <1>e, <1>f, <1>a, PlacedFirst
<1>1. Stage(s)
  BY <1>d, <1>e DEF HandleOK, Stage, Runs
<1>2. OneDrain(s)
  BY <1>b, <1>f, <1>g DEF OneDrain
<1>3. OneAppend(s)
  BY <1>b DEF HandleOK, OneAppend
<1>4. Kept(s)
  BY <1>e DEF HandleOK, Kept, Runs
<1>5. Closed(s)
  BY DEF HandleOK, Closed
<1> QED BY <1>1, <1>2, <1>3, <1>4, <1>5 DEF HandleOK

(* So does a flush.                                                       *)
LEMMA QueuesFlushOK ==
  ASSUME NEW r \in HandleRecord, NEW s \in HandleRecord, HandleOK(r),
         s.life = r.life, s.leased = r.leased, s.cursor = r.cursor,
         s.materialized = r.materialized, s.repair = r.repair, s.recovered = r.recovered,
         s.buffered = r.buffered, s.batch = r.batch, s.drain = r.drain, s.at = r.at,
         s.closing = r.closing, s.wait = r.wait, s.closeFailed = r.closeFailed,
         s.next = r.next,
         NEW f \in Flushers,
         s.chain = Append(r.chain, Op("flush", f))
  PROVE  HandleOK(s)
<1> DEFINE o == Op("flush", f)
<1>a. r.chain \in Seq(Ops) /\ s.chain \in Seq(Ops) /\ o \in Ops /\ o.op = "flush"
      /\ s.chain = Append(r.chain, o)
  BY DEF Ops, Op, HandleRecord
<1> HIDE DEF o
<1>b. /\ Places(s.chain, "drain") = Places(r.chain, "drain")
      /\ Places(s.chain, "append") = Places(r.chain, "append")
  <2>1. \A op : Places(Append(r.chain, o), op)
                    = Places(r.chain, op) \cup (IF o.op = op THEN {Len(r.chain) + 1} ELSE {})
    BY <1>a, PlacedLast
  <2>2. o.op # "drain" /\ o.op # "append"
    BY <1>a
  <2> QED BY <1>a, <2>1, <2>2
<1>d. s.chain # <<>>
  BY <1>a, Longer
<1>e. r.at # "idle" => Head(s.chain) = Head(r.chain) /\ r.chain # <<>>
  BY <1>a DEF HandleOK, Stage
<1>1. Stage(s)
  BY <1>d, <1>e DEF HandleOK, Stage, Runs
<1>2. OneDrain(s)
  BY <1>b, <1>e DEF HandleOK, OneDrain
<1>3. OneAppend(s)
  BY <1>b DEF HandleOK, OneAppend
<1>4. Kept(s)
  BY <1>e DEF HandleOK, Kept, Runs
<1>5. Closed(s)
  BY DEF HandleOK, Closed
<1> QED BY <1>1, <1>2, <1>3, <1>4, <1>5 DEF HandleOK

(* So does the append of a session that is opened.                         *)
LEMMA QueuesAppendOK ==
  ASSUME NEW r \in HandleRecord, NEW s \in HandleRecord, HandleOK(r),
         s.leased = r.leased, s.cursor = r.cursor, s.materialized = r.materialized,
         s.repair = r.repair, s.recovered = r.recovered, s.buffered = r.buffered,
         s.batch = r.batch, s.drain = r.drain, s.at = r.at, s.closing = r.closing,
         s.wait = r.wait, s.closeFailed = r.closeFailed, s.next = r.next,
         r.life = "opened",
         s.life = "appending",
         r.closing = "open",
         s.chain = Append(r.chain, Op("append", "none"))
  PROVE  HandleOK(s)
<1> DEFINE o == Op("append", "none")
<1>a. r.chain \in Seq(Ops) /\ s.chain \in Seq(Ops) /\ o \in Ops /\ o.op = "append"
      /\ s.chain = Append(r.chain, o)
  BY DEF Ops, Op, HandleRecord
<1> HIDE DEF o
<1>b. /\ Places(s.chain, "append") = Places(r.chain, "append") \cup {Len(r.chain) + 1}
      /\ Places(s.chain, "drain") = Places(r.chain, "drain")
  <2>1. \A op : Places(Append(r.chain, o), op)
                    = Places(r.chain, op) \cup (IF o.op = op THEN {Len(r.chain) + 1} ELSE {})
    BY <1>a, PlacedLast
  <2> QED BY <1>a, <2>1, "drain" # "append"
<1>d. s.chain # <<>>
  BY <1>a, Longer
<1>e. r.at # "idle" => Head(s.chain) = Head(r.chain) /\ r.chain # <<>>
  BY <1>a DEF HandleOK, Stage
<1>f. Places(r.chain, "append") = {}
  BY DEF HandleOK, OneAppend
<1>1. Stage(s)
  BY <1>d, <1>e DEF HandleOK, Stage, Runs
<1>2. OneDrain(s)
  BY <1>b, <1>e DEF HandleOK, OneDrain
<1>3. OneAppend(s)
  BY <1>b, <1>f DEF OneAppend
<1>4. Kept(s)
  BY <1>e DEF HandleOK, Kept, Runs
<1>5. Closed(s)
  BY DEF HandleOK, Closed
<1> QED BY <1>1, <1>2, <1>3, <1>4, <1>5 DEF HandleOK

(* An event is logged into the buffer.                                    *)
LEMMA LogsOK ==
  ASSUME NEW r \in HandleRecord, NEW s \in HandleRecord, HandleOK(r),
         s.life = r.life, s.leased = r.leased, s.cursor = r.cursor,
         s.materialized = r.materialized, s.repair = r.repair, s.recovered = r.recovered,
         s.batch = r.batch, s.drain = r.drain, s.chain = r.chain, s.at = r.at,
         s.closing = r.closing, s.wait = r.wait, s.closeFailed = r.closeFailed,
         r.life = "live",
         LateProducers \/ r.closing \in {"open", "drain", "chain"},
         s.buffered = Append(r.buffered, r.next),
         s.next = r.next + 1
  PROVE  HandleOK(s)
<1>a. r.chain \in Seq(Ops) /\ r.buffered \in Seq(Nat) /\ r.batch \in Seq(Nat)
      /\ r.cursor \in Nat /\ r.next \in Nat
  BY DEF HandleRecord
<1>b. ~Runs(r, "append")
  BY <1>a, PlacedFirst DEF HandleOK, Stage, OneAppend, Runs
<1>c. r.next - r.cursor \in Nat /\ r.cursor + (r.next - r.cursor) = r.next
      /\ r.next + 1 - r.cursor = r.next - r.cursor + 1
  BY <1>a, SMTT(20) DEF HandleOK, Kept
<1>d. r.batch \o Append(r.buffered, r.next) = Seqs(r.cursor, r.next + 1 - r.cursor)
  BY <1>a, <1>b, <1>c, SeqsNext DEF HandleOK, Kept
<1>e. s.buffered # <<>>
  BY <1>a, Longer
<1>f. ~Runs(s, "append") /\ r.cursor <= r.next
  BY <1>b DEF HandleOK, Kept, Runs
<1>g. s.cursor <= s.next
  BY <1>a, <1>f
<1>h. s.batch \o s.buffered = Seqs(s.cursor, s.next - s.cursor)
  <2>1. s.batch = r.batch /\ s.buffered = Append(r.buffered, r.next)
        /\ s.next = r.next + 1 /\ s.cursor = r.cursor
    OBVIOUS
  <2>2. s.batch \o s.buffered = r.batch \o Append(r.buffered, r.next)
    BY <2>1
  <2>4. s.next - s.cursor = r.next + 1 - r.cursor
    <3>1. r.next \in Nat /\ r.cursor \in Nat /\ s.next = r.next + 1 /\ s.cursor = r.cursor
      BY <2>1, <1>a
    <3> HIDE <2>1
    <3> QED BY <3>1
  <2>3. Seqs(s.cursor, s.next - s.cursor) = Seqs(r.cursor, r.next + 1 - r.cursor)
    BY <2>1, <2>4
  <2> QED BY <1>d, <2>2, <2>3
<1>1. Stage(s)
  BY DEF HandleOK, Stage, Runs
<1>2. OneDrain(s)
  BY <1>e DEF HandleOK, OneDrain
<1>3. OneAppend(s)
  BY DEF HandleOK, OneAppend
<1>4. Kept(s)
  BY <1>f, <1>g, <1>h DEF Kept
<1>5. Closed(s)
  BY DEF HandleOK, Closed
<1> QED BY <1>1, <1>2, <1>3, <1>4, <1>5 DEF HandleOK

(* The close of a handle begins, or looks at the buffer once more.         *)
LEMMA ClosesOK ==
  ASSUME NEW r \in HandleRecord, NEW s \in HandleRecord, HandleOK(r),
         s.life = r.life, s.leased = r.leased, s.cursor = r.cursor,
         s.materialized = r.materialized, s.repair = r.repair, s.recovered = r.recovered,
         s.buffered = r.buffered, s.batch = r.batch, s.drain = r.drain, s.chain = r.chain,
         s.at = r.at, s.wait = r.wait, s.closeFailed = r.closeFailed, s.next = r.next,
         r.life \notin {"new", "dead"},
         r.closing \in {"open", "chain"},
         s.closing = "drain"
  PROVE  HandleOK(s)
<1>1. Stage(s)
  BY DEF HandleOK, Stage, Runs
<1>2. OneDrain(s)
  BY DEF HandleOK, OneDrain
<1>3. OneAppend(s)
  BY DEF HandleOK, OneAppend
<1>4. Kept(s)
  BY DEF HandleOK, Kept, Runs
<1>5. Closed(s)
  BY DEF HandleOK, Closed
<1> QED BY <1>1, <1>2, <1>3, <1>4, <1>5 DEF HandleOK

(* A close whose drain is over. *)
Settles(r, s) ==
  \/ r.closing = "drain" /\ s.closing = "chain"
  \/ r.closing = "drain" /\ s.closing = "last" /\ s.closeFailed

(* The close awaits the chain as it is.                                    *)
LEMMA AwaitsOK ==
  ASSUME NEW r \in HandleRecord, NEW s \in HandleRecord, HandleOK(r),
         s.life = r.life, s.leased = r.leased, s.cursor = r.cursor,
         s.materialized = r.materialized, s.repair = r.repair, s.recovered = r.recovered,
         s.buffered = r.buffered, s.batch = r.batch, s.chain = r.chain, s.at = r.at,
         s.next = r.next,
         r.drain # "queued",
         s.drain # "queued",
         s.wait = Len(r.chain),
         Settles(r, s)
  PROVE  HandleOK(s)
<1> USE DEF Settles
<1>a. r.chain \in Seq(Ops)
  BY DEF HandleRecord
<1>b. \A i \in Places(r.chain, "append") : i <= Len(r.chain)
  BY <1>a DEF Places
<1>c. Len(r.chain) = 0 => r.at = "idle"
  BY <1>a DEF HandleOK, Stage
<1>1. Stage(s)
  BY DEF HandleOK, Stage, Runs
<1>2. OneDrain(s)
  BY DEF HandleOK, OneDrain
<1>3. OneAppend(s)
  BY <1>a, <1>b DEF HandleOK, OneAppend
<1>4. Kept(s)
  BY DEF HandleOK, Kept, Runs
<1>5. Closed(s)
  BY <1>c DEF HandleOK, Closed
<1> QED BY <1>1, <1>2, <1>3, <1>4, <1>5 DEF HandleOK

(* With an empty buffer close awaits the chain for the last time.          *)
LEMMA RechecksOK ==
  ASSUME NEW r \in HandleRecord, NEW s \in HandleRecord, HandleOK(r),
         s.life = r.life, s.leased = r.leased, s.cursor = r.cursor,
         s.materialized = r.materialized, s.repair = r.repair, s.recovered = r.recovered,
         s.buffered = r.buffered, s.batch = r.batch, s.drain = r.drain, s.chain = r.chain,
         s.at = r.at, s.closeFailed = r.closeFailed, s.next = r.next,
         r.closing = "chain",
         r.wait = 0,
         r.buffered = <<>>,
         s.closing = "last",
         s.wait = Len(r.chain)
  PROVE  HandleOK(s)
<1>a. r.chain \in Seq(Ops)
  BY DEF HandleRecord
<1>b. \A i \in Places(r.chain, "append") : i <= Len(r.chain)
  BY <1>a DEF Places
<1>n. r.batch = <<>> /\ r.buffered = <<>> /\ r.cursor = r.next
  <2>1. r.at = "idle" /\ r.batch = <<>>
    BY DEF HandleOK, Stage, Closed
  <2>2. r.batch \o r.buffered = Seqs(r.cursor, r.next - r.cursor)
    BY <2>1 DEF HandleOK, Kept, Runs
  <2>3. r.next - r.cursor \in Nat /\ r.cursor \in Nat /\ r.next \in Nat
    BY DEF HandleOK, Kept, HandleRecord
  <2>4. Len(r.batch \o r.buffered) = 0
    BY <2>1
  <2>5. r.next - r.cursor = 0
    BY <2>2, <2>3, <2>4, SeqsRun
  <2> QED BY <2>1, <2>3, <2>5
<1>1. Stage(s)
  BY DEF HandleOK, Stage, Runs
<1>2. OneDrain(s)
  BY DEF HandleOK, OneDrain
<1>3. OneAppend(s)
  BY <1>a, <1>b DEF HandleOK, OneAppend
<1>4. Kept(s)
  BY DEF HandleOK, Kept, Runs
<1>5. Closed(s)
  BY <1>n DEF HandleOK, Closed, Stage
<1> QED BY <1>1, <1>2, <1>3, <1>4, <1>5 DEF HandleOK

(* A close that has nothing more to await. *)
Goes(r, s) ==
  \/ r.closing = "last" /\ r.wait = 0 /\ s.closing \in {"release", "released"} /\ s.life = r.life
  \/ r.closing = "release" /\ s.closing = "released" /\ s.life = r.life
  \/ r.closing = "released" /\ s.closing = "done" /\ s.life = "closed"

(* The close releases the lock and drops the claim.                        *)
LEMMA ReleasesOK ==
  ASSUME NEW r \in HandleRecord, NEW s \in HandleRecord, HandleOK(r),
         s.leased = r.leased, s.cursor = r.cursor, s.materialized = r.materialized,
         s.repair = r.repair, s.recovered = r.recovered, s.buffered = r.buffered,
         s.batch = r.batch, s.drain = r.drain, s.chain = r.chain, s.at = r.at,
         s.wait = r.wait, s.closeFailed = r.closeFailed, s.next = r.next,
         Goes(r, s)
  PROVE  HandleOK(s)
<1> USE DEF Goes
<1>a. r.chain \in Seq(Ops)
  BY DEF HandleRecord
<1>b. Places(r.chain, "append") = {}
  BY <1>a DEF HandleOK, OneAppend, Places
<1>1. Stage(s)
  BY DEF HandleOK, Stage, Runs
<1>2. OneDrain(s)
  BY DEF HandleOK, OneDrain
<1>3. OneAppend(s)
  BY <1>b DEF OneAppend
<1>4. Kept(s)
  BY DEF HandleOK, Kept, Runs
<1>5. Closed(s)
  BY DEF HandleOK, Closed
<1> QED BY <1>1, <1>2, <1>3, <1>4, <1>5 DEF HandleOK

(* An operation goes on to its next write.                                 *)
LEMMA StepsOK ==
  ASSUME NEW r \in HandleRecord, NEW s \in HandleRecord, HandleOK(r),
         s.life = r.life, s.cursor = r.cursor, s.materialized = r.materialized,
         s.buffered = r.buffered, s.batch = r.batch, s.drain = r.drain, s.chain = r.chain,
         s.closing = r.closing, s.wait = r.wait, s.closeFailed = r.closeFailed,
         s.next = r.next,
         r.at # "idle",
         s.at \in {"truncate", "rewrite", "persist"},
         s.leased,
         s.at \in {"truncate", "rewrite"} => s.repair = s.at,
         s.at = "persist" => s.repair = "none",
         s.repair # "none" => r.repair # "none",
         s.repair = "none" => s.recovered = <<>>
  PROVE  HandleOK(s)
<1>1. Stage(s)
  BY DEF HandleOK, Stage, Runs
<1>2. OneDrain(s)
  BY DEF HandleOK, OneDrain
<1>3. OneAppend(s)
  BY DEF HandleOK, OneAppend
<1>4. Kept(s)
  BY DEF HandleOK, Kept, Runs
<1>5. Closed(s)
  BY DEF HandleOK, Closed
<1> QED BY <1>1, <1>2, <1>3, <1>4, <1>5 DEF HandleOK

(* An operation gets its turn.                                             *)
LEMMA BeginsOK ==
  ASSUME NEW r \in HandleRecord, NEW s \in HandleRecord, HandleOK(r),
         s.life = r.life, s.leased = r.leased, s.cursor = r.cursor,
         s.materialized = r.materialized, s.repair = r.repair, s.recovered = r.recovered,
         s.drain = r.drain, s.chain = r.chain, s.closing = r.closing, s.wait = r.wait,
         s.closeFailed = r.closeFailed, s.next = r.next,
         r.chain # <<>>,
         r.at = "idle",
         ~(r.closing \in {"chain", "last"} /\ r.wait = 0),
         Head(r.chain).op = "drain" \/ r.closing = "open",
         s.at = NextWrite(r),
         s.batch = CASE Head(r.chain).op = "drain" -> r.buffered
                     [] Head(r.chain).op = "append" -> <<r.next>>
                     [] OTHER -> <<>>,
         s.buffered = IF Head(r.chain).op = "drain" THEN <<>> ELSE r.buffered
  PROVE  HandleOK(s)
<1>a. r.chain \in Seq(Ops) /\ r.buffered \in Seq(Nat) /\ r.cursor \in Nat /\ r.next \in Nat
  BY DEF HandleRecord
<1>b. Head(r.chain).op \in {"drain", "append", "flush"}
  <2>1. Head(r.chain) \in Ops
    BY <1>a
  <2> QED BY <2>1 DEF Ops
<1>c. r.batch = <<>>
  BY DEF HandleOK, Stage
<1>d. s.at # "idle" /\ (s.at \in {"truncate", "rewrite", "persist"} => r.leased)
      /\ (s.at \in {"truncate", "rewrite"} => r.repair = s.at) /\ (s.at = "persist" => r.repair = "none")
  BY DEF NextWrite, HandleRecord
<1>e. Head(r.chain).op = "append" => r.life = "appending" /\ r.buffered = <<>> /\ r.cursor = r.next
                                     /\ r.closing = "open"
  BY <1>a, PlacedFirst, "append" # "drain" DEF HandleOK, OneAppend, Kept
<1>f. r.buffered \o <<>> = r.buffered /\ <<>> \o r.buffered = r.buffered
  BY <1>a
<1>g. <<>> \o r.buffered = Seqs(r.cursor, r.next - r.cursor)
  BY <1>c DEF HandleOK, Kept, Runs
<1>h. Head(r.chain).op = "drain" => r.drain = "queued" /\ r.buffered # <<>>
  BY <1>a, PlacedFirst DEF HandleOK, OneDrain
<1>i. Places(r.chain, "drain") # {} /\ Head(r.chain).op # "drain" => r.buffered # <<>>
  BY DEF HandleOK, OneDrain
<1>1. Stage(s)
  BY <1>b, <1>d DEF HandleOK, Stage, Runs
<1>2. OneDrain(s)
  BY <1>d, <1>h, <1>i DEF HandleOK, OneDrain
<1>3. OneAppend(s)
  BY DEF HandleOK, OneAppend
<1>4. Kept(s)
  <2>1. CASE Head(r.chain).op = "append"
    BY <2>1, <1>d, <1>e, "append" # "drain" DEF HandleOK, Kept, Runs
  <2>2. CASE Head(r.chain).op = "drain"
    BY <2>2, <1>f, <1>g, "append" # "drain" DEF HandleOK, Kept, Runs
  <2>3. CASE Head(r.chain).op = "flush"
    BY <2>3, <1>f, <1>g DEF HandleOK, Kept, Runs
  <2> QED BY <2>1, <2>2, <2>3, <1>b
<1>5. Closed(s)
  BY <1>b, <1>e DEF HandleOK, Closed
<1> QED BY <1>1, <1>2, <1>3, <1>4, <1>5 DEF HandleOK

(* An operation succeeds.                                                  *)
LEMMA SucceedsOK ==
  ASSUME NEW r \in HandleRecord, NEW s \in HandleRecord, HandleOK(r),
         s.leased = r.leased, s.repair = r.repair, s.recovered = r.recovered,
         s.buffered = r.buffered, s.closing = r.closing, s.closeFailed = r.closeFailed,
         r.chain # <<>>,
         s.chain = Tail(r.chain),
         s.at = "idle",
         s.batch = <<>>,
         s.wait = IF r.wait = 0 THEN 0 ELSE r.wait - 1,
         r.at = "persist" \/ (r.at = "idle" /\ Head(r.chain).op = "flush"),
         s.cursor = r.cursor + Len(r.batch),
         s.materialized,
         s.drain = IF Head(r.chain).op = "drain" THEN "check" ELSE r.drain,
         s.life = IF Head(r.chain).op = "append" THEN "live" ELSE r.life,
         s.next = IF Head(r.chain).op = "append" THEN r.next + 1 ELSE r.next
  PROVE  HandleOK(s)
<1>a. r.chain \in Seq(Ops) /\ r.batch \in Seq(Nat) /\ r.buffered \in Seq(Nat)
      /\ r.cursor \in Nat /\ r.next \in Nat /\ r.wait \in Nat
  BY DEF HandleRecord
<1>b. Head(r.chain).op \in {"drain", "append", "flush"}
  <2>1. Head(r.chain) \in Ops
    BY <1>a
  <2> QED BY <2>1 DEF Ops
<1>c. \A op : \A i \in Places(s.chain, op) : i \in Nat \ {0} /\ i + 1 \in Places(r.chain, op)
  BY <1>a, PlacedRest
<1>d. \A op : \A i \in Places(r.chain, op) : i \in Nat \ {0} /\ (i # 1 => i - 1 \in Places(s.chain, op))
  BY <1>a, PlacedRest
<1>e. \A op : 1 \in Places(r.chain, op) <=> Head(r.chain).op = op
  BY <1>a, PlacedFirst
<1>f. Head(r.chain).op = "append" => Places(s.chain, "append") = {} /\ r.life = "appending"
                                     /\ r.closing \notin {"release", "released", "done"}
  BY <1>c, <1>e DEF HandleOK, OneAppend
<1>g. Head(r.chain).op = "drain" => Places(s.chain, "drain") = {} /\ r.drain = "queued"
  BY <1>c, <1>e DEF HandleOK, OneDrain
<1>h. Head(r.chain).op # "drain" => (Places(s.chain, "drain") # {} <=> r.drain = "queued")
  BY <1>c, <1>d, <1>e DEF HandleOK, OneDrain
<1>i. Head(r.chain).op = "append" => /\ r.batch = <<r.next>> /\ r.buffered = <<>>
                                     /\ r.cursor = r.next /\ Len(r.batch) = 1
  <2>1. Head(r.chain).op = "append" => Runs(r, "append")
    BY "append" # "flush", "persist" # "idle" DEF Runs
  <2>2. Len(<<r.next>>) = 1
    OBVIOUS
  <2> QED BY <2>1, <2>2 DEF HandleOK, Kept
<1>j. Head(r.chain).op # "append" =>
        r.batch \o r.buffered = Seqs(r.cursor, r.next - r.cursor) /\ r.next - r.cursor \in Nat
  <2>1. r.next - r.cursor \in Nat
    BY <1>a DEF HandleOK, Kept
  <2> QED BY <2>1 DEF HandleOK, Kept, Runs
<1>k. Head(r.chain).op # "drain" /\ r.drain = "queued" => r.buffered # <<>>
  BY DEF HandleOK, OneDrain
<1>l. Head(r.chain).op = "flush" => r.batch = <<>>
  BY DEF HandleOK, Stage, Runs
<1>m. Head(r.chain).op # "append" => /\ Len(r.batch) + Len(r.buffered) = r.next - r.cursor
         /\ <<>> \o r.buffered = Seqs(r.cursor + Len(r.batch), (r.next - r.cursor) - Len(r.batch))
  BY <1>a, <1>j, SeqsRest, ZenonT(60)
<1>n. Len(r.batch) \in Nat /\ Len(r.buffered) \in Nat
  BY <1>a
<1>1. Stage(s)
  BY DEF HandleOK, Stage, Runs
<1>2. OneDrain(s)
  <2>1. \A i, j \in Places(s.chain, "drain") : i = j
    BY <1>c DEF HandleOK, OneDrain
  <2>2. CASE Head(r.chain).op = "drain"
    BY <2>1, <2>2, <1>g DEF OneDrain
  <2>3. CASE Head(r.chain).op # "drain"
    BY <2>1, <2>3, <1>h, <1>k DEF HandleOK, OneDrain
  <2> QED BY <2>2, <2>3
<1>3. OneAppend(s)
  <2>1. \A i, j \in Places(s.chain, "append") : i = j
    BY <1>c DEF HandleOK, OneAppend
  <2>2. ASSUME NEW i \in Places(s.chain, "append")
        PROVE  /\ s.life = "appending"
               /\ s.closing \in {"chain", "last"} => i <= s.wait
               /\ s.closing \notin {"release", "released", "done"}
    <3>1. i \in Nat \ {0} /\ i + 1 \in Places(r.chain, "append") /\ Head(r.chain).op # "append"
      BY <1>c, <1>f
    <3>2. r.life = "appending" /\ r.closing \notin {"release", "released", "done"}
          /\ (r.closing \in {"chain", "last"} => i + 1 <= r.wait)
      BY <3>1 DEF HandleOK, OneAppend
    <3> QED BY <3>1, <3>2, <1>a
  <2> QED BY <2>1, <2>2 DEF OneAppend
<1>4. Kept(s)
  <2>1. CASE Head(r.chain).op = "append"
    <3>1. s.cursor = s.next /\ s.buffered = <<>> /\ s.batch = <<>> /\ s.next \in Nat
      <4>1. s.next = r.next + 1 /\ s.cursor = r.next + 1
        BY <2>1, <1>i
      <4> QED BY <2>1, <4>1, <1>a, <1>i
    <3>2. s.batch \o s.buffered = Seqs(s.cursor, s.next - s.cursor)
      <4>1. s.next - s.cursor = 0 /\ <<>> \o <<>> = <<>>
        BY <3>1
      <4> QED BY <3>1, <4>1, SeqsNone
    <3> QED BY <3>1, <3>2 DEF Kept, Runs
  <2>2. CASE Head(r.chain).op # "append"
    <3>1. s.cursor = r.cursor + Len(r.batch) /\ s.next = r.next /\ s.cursor <= s.next
      <4>1. Len(r.batch) + Len(r.buffered) = r.next - r.cursor
        BY <2>2, <1>m
      <4>2. r.cursor + Len(r.batch) <= r.next
        <5>1. r.cursor \in Nat /\ r.next \in Nat
          BY <1>a
        <5> QED BY <4>1, <5>1, <1>n, NotPast, ZenonT(60)
      <4>3. s.next = r.next
        BY <2>2
      <4> QED BY <4>2, <4>3
    <3>2. (r.next - r.cursor) - Len(r.batch) = s.next - s.cursor
      BY <3>1, <1>a, <1>n
    <3>3. s.batch \o s.buffered = Seqs(s.cursor, s.next - s.cursor)
      BY <2>2, <3>1, <3>2, <1>m
    <3>4. s.life \in {"opened", "appending", "failed"} => s.buffered = <<>> /\ s.cursor = s.next
      <4> SUFFICES ASSUME s.life \in {"opened", "appending", "failed"}
                   PROVE  s.buffered = <<>> /\ s.cursor = s.next
        OBVIOUS
      <4>1. r.buffered = <<>> /\ r.cursor = r.next
        BY <2>2 DEF HandleOK, Kept
      <4>2. Len(r.buffered) = 0 /\ Len(r.batch) = 0
        BY <4>1, <2>2, <1>a, <1>m, <1>n
      <4> QED BY <4>1, <4>2, <3>1, <1>a
    <3> QED BY <3>1, <3>3, <3>4 DEF Kept, Runs
  <2> QED BY <2>1, <2>2
<1>5. Closed(s)
  <2>1. s.closing \in {"last", "release", "released", "done"} /\ ~s.closeFailed /\ ~LateProducers
        => s.buffered = <<>> /\ s.batch = <<>> /\ s.cursor = s.next
    <3> SUFFICES ASSUME s.closing \in {"last", "release", "released", "done"},
                        ~s.closeFailed, ~LateProducers
                 PROVE  s.buffered = <<>> /\ s.cursor = s.next
      OBVIOUS
    <3>1. r.buffered = <<>> /\ r.batch = <<>> /\ r.cursor = r.next
      BY DEF HandleOK, Closed
    <3>2. Head(r.chain).op # "append" /\ Len(r.batch) = 0
      BY <3>1, <1>i
    <3> QED BY <3>1, <3>2, <1>a
  <2>2. /\ s.closing = "done" <=> s.life = "closed"
        /\ s.life \in {"new", "dead"} => s.closing = "open"
    BY <1>f DEF HandleOK, Closed
  <2> QED BY <2>1, <2>2 DEF Closed
<1> QED BY <1>1, <1>2, <1>3, <1>4, <1>5 DEF HandleOK

(* An operation fails or is refused.  A drain puts its batch back.          *)
LEMMA FailsOK ==
  ASSUME NEW r \in HandleRecord, NEW s \in HandleRecord, HandleOK(r),
         s.leased = r.leased, s.cursor = r.cursor, s.materialized = r.materialized,
         s.repair = r.repair, s.recovered = r.recovered, s.closing = r.closing,
         s.closeFailed = r.closeFailed, s.next = r.next,
         r.chain # <<>>,
         s.chain = Tail(r.chain),
         s.at = "idle",
         s.batch = <<>>,
         s.wait = IF r.wait = 0 THEN 0 ELSE r.wait - 1,
         r.at # "idle" \/ Head(r.chain).op # "drain",
         s.drain = IF Head(r.chain).op = "drain" THEN "failed" ELSE r.drain,
         s.buffered = IF Head(r.chain).op = "drain" THEN r.batch \o r.buffered ELSE r.buffered,
         s.life = IF Head(r.chain).op = "append" THEN "failed" ELSE r.life
  PROVE  HandleOK(s)
<1>a. r.chain \in Seq(Ops) /\ r.batch \in Seq(Nat) /\ r.buffered \in Seq(Nat)
      /\ r.cursor \in Nat /\ r.next \in Nat /\ r.wait \in Nat
  BY DEF HandleRecord
<1>b. Head(r.chain).op \in {"drain", "append", "flush"}
  <2>1. Head(r.chain) \in Ops
    BY <1>a
  <2> QED BY <2>1 DEF Ops
<1>c. \A op : \A i \in Places(s.chain, op) : i \in Nat \ {0} /\ i + 1 \in Places(r.chain, op)
  BY <1>a, PlacedRest
<1>d. \A op : \A i \in Places(r.chain, op) : i \in Nat \ {0} /\ (i # 1 => i - 1 \in Places(s.chain, op))
  BY <1>a, PlacedRest
<1>e. \A op : 1 \in Places(r.chain, op) <=> Head(r.chain).op = op
  BY <1>a, PlacedFirst
<1>f. Head(r.chain).op = "append" => Places(s.chain, "append") = {} /\ r.life = "appending"
                                     /\ r.closing \notin {"release", "released", "done"}
  BY <1>c, <1>e DEF HandleOK, OneAppend
<1>g. Head(r.chain).op = "drain" => Places(s.chain, "drain") = {} /\ r.drain = "queued"
  BY <1>c, <1>e DEF HandleOK, OneDrain
<1>h. Head(r.chain).op # "drain" => (Places(s.chain, "drain") # {} <=> r.drain = "queued")
  BY <1>c, <1>d, <1>e DEF HandleOK, OneDrain
<1>i. Head(r.chain).op = "append" => r.buffered = <<>> /\ r.cursor = r.next
  BY <1>f DEF HandleOK, Kept
<1>j. Head(r.chain).op # "append" => r.batch \o r.buffered = Seqs(r.cursor, r.next - r.cursor)
  BY DEF HandleOK, Kept, Runs
<1>k. Head(r.chain).op # "drain" /\ r.drain = "queued" => r.buffered # <<>>
  BY DEF HandleOK, OneDrain
<1>l. Head(r.chain).op = "flush" => r.batch = <<>>
  BY DEF HandleOK, Stage, Runs
<1>m. /\ <<>> \o (r.batch \o r.buffered) = r.batch \o r.buffered
      /\ r.batch = <<>> => r.batch \o r.buffered = r.buffered /\ <<>> \o r.buffered = r.buffered
  <2>1. r.batch \o r.buffered \in Seq(Nat) /\ <<>> \o r.buffered = r.buffered
    BY <1>a
  <2>2. <<>> \o (r.batch \o r.buffered) = r.batch \o r.buffered
    BY <2>1, NoPrefix
  <2> QED BY <2>1, <2>2
<1>n. Head(r.chain).op = "drain" => r.life \notin {"opened", "appending", "failed"} \/ r.batch = <<>>
  <2> SUFFICES ASSUME Head(r.chain).op = "drain", r.life \in {"opened", "appending", "failed"}
               PROVE  r.batch = <<>>
    OBVIOUS
  <2>1. r.buffered = <<>> /\ r.cursor = r.next
    BY DEF HandleOK, Kept
  <2>2. r.next - r.cursor = 0 /\ r.batch \o r.buffered = Seqs(r.cursor, 0)
    BY <2>1, <1>a, <1>j, "append" # "drain"
  <2>3. Len(r.batch \o r.buffered) = 0
    BY <2>2, <1>a, SeqsRun
  <2> QED BY <2>1, <2>3, <1>a
<1>1. Stage(s)
  BY DEF HandleOK, Stage, Runs
<1>2. OneDrain(s)
  <2>1. \A i, j \in Places(s.chain, "drain") : i = j
    BY <1>c DEF HandleOK, OneDrain
  <2>2. CASE Head(r.chain).op = "drain"
    BY <2>1, <2>2, <1>g DEF OneDrain
  <2>3. CASE Head(r.chain).op # "drain"
    BY <2>1, <2>3, <1>h, <1>k DEF HandleOK, OneDrain
  <2> QED BY <2>2, <2>3
<1>3. OneAppend(s)
  <2>1. \A i, j \in Places(s.chain, "append") : i = j
    BY <1>c DEF HandleOK, OneAppend
  <2>2. ASSUME NEW i \in Places(s.chain, "append")
        PROVE  /\ s.life = "appending"
               /\ s.closing \in {"chain", "last"} => i <= s.wait
               /\ s.closing \notin {"release", "released", "done"}
    <3>1. i \in Nat \ {0} /\ i + 1 \in Places(r.chain, "append") /\ Head(r.chain).op # "append"
      BY <1>c, <1>f
    <3>2. r.life = "appending" /\ r.closing \notin {"release", "released", "done"}
          /\ (r.closing \in {"chain", "last"} => i + 1 <= r.wait)
      BY <3>1 DEF HandleOK, OneAppend
    <3> QED BY <3>1, <3>2, <1>a
  <2> QED BY <2>1, <2>2 DEF OneAppend
<1>4. Kept(s)
  <2>1. s.cursor = r.cursor /\ s.next = r.next /\ s.cursor <= s.next
    BY DEF HandleOK, Kept
  <2>2. s.batch \o s.buffered = Seqs(s.cursor, s.next - s.cursor)
    <3>1. CASE Head(r.chain).op = "append"
      <4>1. s.next - s.cursor = 0 /\ s.batch \o s.buffered = <<>>
        BY <3>1, <1>a, <1>i, <2>1, "append" # "drain"
      <4> QED BY <4>1, <2>1, <1>a, SeqsNone
    <3>2. CASE Head(r.chain).op = "drain"
      BY <3>2, <1>j, <1>m, <2>1, "append" # "drain"
    <3>3. CASE Head(r.chain).op = "flush"
      BY <3>3, <1>j, <1>l, <1>m, <2>1
    <3> QED BY <3>1, <3>2, <3>3, <1>b
  <2>3. s.life \in {"opened", "appending", "failed"} => s.buffered = <<>> /\ s.cursor = s.next
    <3>1. CASE Head(r.chain).op = "append"
      BY <3>1, <1>i, <2>1, "append" # "drain"
    <3>2. CASE Head(r.chain).op = "drain"
      BY <3>2, <1>m, <1>n, <2>1, "append" # "drain" DEF HandleOK, Kept
    <3>3. CASE Head(r.chain).op = "flush"
      BY <3>3, <2>1 DEF HandleOK, Kept
    <3> QED BY <3>1, <3>2, <3>3, <1>b
  <2> QED BY <2>1, <2>2, <2>3 DEF Kept, Runs
<1>5. Closed(s)
  <2>1. s.closing \in {"last", "release", "released", "done"} /\ ~s.closeFailed /\ ~LateProducers
        => s.buffered = <<>> /\ s.batch = <<>> /\ s.cursor = s.next
    BY <1>m DEF HandleOK, Closed
  <2>2. /\ s.closing = "done" <=> s.life = "closed"
        /\ s.life \in {"new", "dead"} => s.closing = "open"
    BY <1>f DEF HandleOK, Closed
  <2> QED BY <2>1, <2>2 DEF Closed
<1> QED BY <1>1, <1>2, <1>3, <1>4, <1>5 DEF HandleOK
-----------------------------------------------------------------------------
(* A step that changes one handle, and what it must leave true of it for    *)
(* each part of the invariant.                                              *)

(* AllOK, from the record of the one handle that changes. *)
LEMMA HandleFrame ==
  ASSUME TypeOK, AllOK, NEW h \in Handles, NEW s \in HandleRecord, HandleOK(s),
         handle' = [handle EXCEPT ![h] = s]
  PROVE  /\ handle' \in [Handles -> HandleRecord]
         /\ AllOK'
         /\ handle'[h] = s
         /\ \A g \in Handles : g # h => handle'[g] = handle[g]
<1>1. /\ handle' \in [Handles -> HandleRecord] /\ handle'[h] = s
      /\ \A g \in Handles : g # h => handle'[g] = handle[g]
  BY DEF TypeOK
<1>2. \A g \in Handles : HandleOK(handle'[g])
  BY <1>1 DEF AllOK
<1> QED BY <1>1, <1>2 DEF AllOK

(* The claims stay: the handle keeps its home, and is in use as long as     *)
(* before.                                                                  *)
LEMMA ClaimFrame ==
  ASSUME TypeOK, Claimed, NEW h \in Handles, NEW s \in HandleRecord,
         handle' \in [Handles -> HandleRecord], handle'[h] = s,
         \A g \in Handles : g # h => handle'[g] = handle[g],
         UNCHANGED claim, s.home = handle[h].home,
         s.life \in {"new", "dead"} <=> handle[h].life \in {"new", "dead"},
         s.closing = "done" <=> handle[h].closing = "done"
  PROVE  Claimed'
<1>1. \A p \in Procs : claim[p] \in 0 .. NumHandles
  BY DEF TypeOK
<1>2. \A n \in 0 .. NumHandles : n # 0 => n \in Handles
  BY StorageAssumption DEF Handles
<1>3. \A g \in Handles : /\ handle'[g].home = handle[g].home
                         /\ Alive(g)' <=> Alive(g)
                         /\ handle'[g].closing = "done" <=> handle[g].closing = "done"
  BY DEF Alive
<1> QED BY <1>1, <1>2, <1>3 DEF Claimed

(* The lock stays: who has the lease next had it, or takes the lock. *)
LEMMA OwnFrame ==
  ASSUME Owned, NEW h \in Handles, NEW s,
         handle'[h] = s, \A g \in Handles : g # h => handle'[g] = handle[g],
         UNCHANGED lock,
         s.leased /\ s.closing \notin {"release", "released", "done"} =>
           handle[h].leased /\ handle[h].closing \notin {"release", "released", "done"}
  PROVE  Owned'
BY DEF Owned

(* The file only ever gets longer. *)
Grows ==
  /\ Len(disk.log) <= Len(disk'.log)
  /\ disk.exists => disk'.exists
  /\ ~disk'.exists => disk'.log = <<>> /\ ~disk'.torn
  /\ ~disk'.torn => disk'.tail = <<>>

(* A file that only grows has what every handle has written. *)
LEMMA DiskFrame ==
  ASSUME TypeOK, OnDisk, Grows, NEW h \in Handles, NEW s \in HandleRecord,
         disk' \in [exists : BOOLEAN, log : Seq(Nat), torn : BOOLEAN, tail : Seq(Nat)],
         handle'[h] = s, \A g \in Handles : g # h => handle'[g] = handle[g],
         s.cursor <= Len(disk'.log) + Len(s.recovered),
         s.materialized => disk'.exists
  PROVE  OnDisk'
<1>1. Len(disk.log) \in Nat /\ Len(disk'.log) \in Nat
  BY DEF TypeOK
<1>2. ASSUME NEW g \in Handles
      PROVE  /\ handle'[g].cursor <= Len(disk'.log) + Len(handle'[g].recovered)
             /\ handle'[g].materialized => disk'.exists
  <2>1. CASE g = h
    BY <2>1
  <2>2. CASE g # h
    <3>1. /\ handle[g].cursor \in Nat /\ Len(handle[g].recovered) \in Nat
          /\ handle[g].cursor <= Len(disk.log) + Len(handle[g].recovered)
          /\ handle[g].materialized => disk.exists
      <4>1. handle[g] \in HandleRecord
        BY DEF TypeOK
      <4>2. handle[g].cursor \in Nat /\ handle[g].recovered \in Seq(Nat)
        BY <4>1 DEF HandleRecord
      <4>3. Len(handle[g].recovered) \in Nat
        BY <4>2
      <4> QED BY <4>2, <4>3 DEF OnDisk
    <3>2. handle'[g] = handle[g]
      BY <2>2
    <3>3. Len(disk.log) <= Len(disk'.log)
      BY DEF Grows
    <3>4. handle[g].cursor <= Len(disk'.log) + Len(handle[g].recovered)
      BY <1>1, <3>1, <3>3, StillWithin
    <3> QED BY <3>1, <3>2, <3>4 DEF Grows
  <2> QED BY <2>1, <2>2
<1> QED BY <1>2 DEF OnDisk, Grows

(* The same file does. *)
LEMMA SameDisk ==
  ASSUME TypeOK, OnDisk, UNCHANGED disk
  PROVE  Grows /\ disk' \in [exists : BOOLEAN, log : Seq(Nat), torn : BOOLEAN, tail : Seq(Nat)]
<1>1. Len(disk.log) \in Nat
  BY DEF TypeOK
<1> QED BY <1>1 DEF TypeOK, OnDisk, Grows

(* A caller stays as it is or is at rest. *)
LEMMA WaitOne ==
  ASSUME TypeOK, NEW f \in Flushers, Waiting(f), NEW h \in Handles, NEW s \in HandleRecord,
         handle'[h] = s, \A g \in Handles : g # h => handle'[g] = handle[g],
         flusher'[f] = flusher[f] \/ flusher'[f].at \notin {"drain", "ready", "barrier"},
         handle[h].life \notin {"new", "dead"} => s.life \notin {"new", "dead"},
         handle[h].next <= s.next, handle[h].cursor <= s.cursor,
         s.drain = "gap" => handle[h].drain = "gap" \/ s.cursor = s.next
  PROVE  Waiting(f)'
<1>1. CASE flusher'[f].at \notin {"drain", "ready", "barrier"}
  BY <1>1 DEF Waiting
<1>2. CASE flusher'[f] = flusher[f] /\ flusher[f].at \in {"drain", "ready", "barrier"}
  <2>1. flusher[f].on \in Handles /\ flusher[f].mark \in Nat
    BY <1>2, StorageAssumption DEF TypeOK, Waiting, Handles
  <2>2. CASE flusher[f].on # h
    <3>1. handle'[flusher[f].on] = handle[flusher[f].on]
      BY <2>1, <2>2
    <3> QED BY <1>2, <2>1, <3>1 DEF Waiting, Alive
  <2>3. CASE flusher[f].on = h
    <3> DEFINE c == flusher[f]
    <3>1. /\ handle[h].next \in Nat /\ handle[h].cursor \in Nat /\ s.next \in Nat /\ s.cursor \in Nat
      BY DEF TypeOK, HandleRecord
    <3>2. /\ c.on # 0 /\ Alive(h)
          /\ c.at = "drain" => c.mark <= handle[h].next
          /\ ~c.late /\ (c.at = "drain" => handle[h].drain = "gap") => c.mark <= handle[h].cursor
      BY <1>2, <2>3 DEF Waiting
    <3>3. c.at = "drain" => c.mark <= s.next
      BY <2>1, <3>1, <3>2
    <3>4. ~c.late /\ (c.at = "drain" => s.drain = "gap") => c.mark <= s.cursor
      <4>1. CASE c.at # "drain"
        BY <4>1, <2>1, <3>1, <3>2
      <4>2. CASE s.drain = "gap" /\ handle[h].drain = "gap"
        BY <4>2, <2>1, <3>1, <3>2
      <4>3. CASE c.at = "drain" /\ s.cursor = s.next
        BY <4>3, <3>3
      <4> QED BY <4>1, <4>2, <4>3
    <3> QED BY <1>2, <2>3, <3>2, <3>3, <3>4 DEF Waiting, Alive
  <2> QED BY <2>2, <2>3
<1> QED BY <1>1, <1>2

(* So do all callers. *)
LEMMA WaitFrame ==
  ASSUME TypeOK, \A f \in Flushers : Waiting(f), NEW h \in Handles, NEW s \in HandleRecord,
         handle'[h] = s, \A g \in Handles : g # h => handle'[g] = handle[g],
         \A f \in Flushers : flusher'[f] = flusher[f]
                             \/ flusher'[f].at \notin {"drain", "ready", "barrier"},
         handle[h].life \notin {"new", "dead"} => s.life \notin {"new", "dead"},
         handle[h].next <= s.next, handle[h].cursor <= s.cursor,
         s.drain = "gap" => handle[h].drain = "gap" \/ s.cursor = s.next
  PROVE  \A f \in Flushers : Waiting(f)'
BY WaitOne

(* The flushes queued stay queued. *)
LEMMA BarrierFrame ==
  ASSUME Barriers, NEW h \in Handles, NEW s,
         handle'[h] = s, \A g \in Handles : g # h => handle'[g] = handle[g],
         UNCHANGED flusher,
         Places(s.chain, "flush") = Places(handle[h].chain, "flush"),
         \A i \in Places(s.chain, "flush") : s.chain[i].by = handle[h].chain[i].by
  PROVE  Barriers'
<1>1. ASSUME NEW g \in Handles
      PROVE  InChain(g)'
  <2>1. InChain(g)
    BY DEF Barriers
  <2>2. CASE g = h
    BY <2>1, <2>2 DEF InChain, Awaits
  <2>3. CASE g # h
    BY <2>1, <2>3 DEF InChain, Awaits
  <2> QED BY <2>2, <2>3
<1> QED BY <1>1 DEF Barriers

(* What a flush has answered for is still in a file that grows. *)
LEMMA DurableFrame ==
  ASSUME TypeOK, FlushedIsDurable, Grows, disk'.log \in Seq(Nat),
         \A f \in Flushers : flusher'[f] = flusher[f] \/ flusher'[f].at # "returned"
  PROVE  FlushedIsDurable'
<1> SUFFICES ASSUME NEW f \in Flushers, flusher'[f].at = "returned", ~flusher'[f].late
             PROVE  flusher'[f].mark <= Len(disk'.log)
  BY DEF FlushedIsDurable
<1>1. flusher[f].mark \in Nat /\ Len(disk.log) \in Nat /\ Len(disk'.log) \in Nat
  BY DEF TypeOK
<1>2. flusher[f].mark <= Len(disk.log) /\ flusher'[f] = flusher[f]
  BY DEF FlushedIsDurable
<1> QED BY <1>1, <1>2 DEF Grows

(* The step of one handle in memory. *)
LEMMA MemoryStep ==
  ASSUME IInv, NEW h \in Handles, NEW s \in HandleRecord, HandleOK(s),
         handle' = [handle EXCEPT ![h] = s],
         UNCHANGED <<disk, lock, claim, flusher, failures, crashes>>,
         s.home = handle[h].home, s.leased = handle[h].leased,
         s.cursor = handle[h].cursor, s.materialized = handle[h].materialized,
         s.recovered = handle[h].recovered, handle[h].next <= s.next,
         s.life \in {"new", "dead"} <=> handle[h].life \in {"new", "dead"},
         s.closing = "done" <=> handle[h].closing = "done",
         s.closing \in {"release", "released", "done"} \/
           handle[h].closing \notin {"release", "released", "done"},
         s.drain = "gap" => handle[h].drain = "gap" \/ s.cursor = s.next,
         Places(s.chain, "flush") = Places(handle[h].chain, "flush"),
         \A i \in Places(s.chain, "flush") : s.chain[i].by = handle[h].chain[i].by
  PROVE  IInv'
<1> USE DEF IInv
<1>1. /\ handle' \in [Handles -> HandleRecord] /\ AllOK' /\ handle'[h] = s
      /\ \A g \in Handles : g # h => handle'[g] = handle[g]
  BY HandleFrame
<1>2. TypeOK'
  BY <1>1 DEF TypeOK
<1>3. Claimed'
  BY <1>1, ClaimFrame
<1>4. Owned'
  BY <1>1, OwnFrame
<1>5. Grows /\ disk' \in [exists : BOOLEAN, log : Seq(Nat), torn : BOOLEAN, tail : Seq(Nat)]
  BY SameDisk
<1>6. OnDisk'
  <2>1. s.cursor <= Len(disk'.log) + Len(s.recovered) /\ (s.materialized => disk'.exists)
    BY DEF OnDisk
  <2> QED BY <1>1, <1>5, <2>1, DiskFrame
<1>7. \A f \in Flushers : Waiting(f)'
  <2>1. handle[h].cursor <= s.cursor
    BY DEF HandleRecord
  <2> QED BY <1>1, <2>1, WaitFrame
<1>8. Barriers'
  BY <1>1, BarrierFrame
<1>9. FlushedIsDurable'
  <2>1. disk'.log \in Seq(Nat)
    BY DEF TypeOK
  <2> QED BY <1>5, <2>1, DurableFrame
<1> QED BY <1>1, <1>2, <1>3, <1>4, <1>6, <1>7, <1>8, <1>9

-----------------------------------------------------------------------------
(* Steps in memory.                                                        *)

(* With no drain under way and nothing buffered, all that was logged is    *)
(* written.                                                                *)
LEMMA NothingLeft ==
  ASSUME NEW r \in HandleRecord, HandleOK(r), r.drain # "queued", r.buffered = <<>>
  PROVE  r.cursor = r.next
<1>1. r.chain \in Seq(Ops) /\ r.cursor \in Nat /\ r.next \in Nat /\ r.batch \in Seq(Nat)
  BY DEF HandleRecord
<1>2. CASE Runs(r, "append")
  BY <1>2 DEF HandleOK, Kept
<1>3. CASE ~Runs(r, "append")
  <2>1. r.batch = <<>>
    <3>1. CASE r.at = "idle"
      BY <3>1 DEF HandleOK, Stage
    <3>2. CASE r.at # "idle"
      <4>1. r.chain # <<>>
        BY <3>2 DEF HandleOK, Stage
      <4>2. Head(r.chain) \in Ops
        BY <1>1, <4>1
      <4>3. Head(r.chain).op \in {"drain", "append", "flush"}
        BY <4>2 DEF Ops
      <4>4. Head(r.chain).op # "drain"
        BY <1>1, <4>1, PlacedFirst DEF HandleOK, OneDrain
      <4> QED BY <1>3, <3>2, <4>3, <4>4 DEF HandleOK, Stage, Runs
    <3> QED BY <3>1, <3>2
  <2>2. Len(r.batch \o r.buffered) = 0
    BY <2>1
  <2>3. r.next - r.cursor \in Nat /\ r.batch \o r.buffered = Seqs(r.cursor, r.next - r.cursor)
    BY <1>1, <1>3 DEF HandleOK, Kept
  <2>4. r.next - r.cursor = 0
    BY <1>1, <2>2, <2>3, SeqsRun
  <2> QED BY <1>1, <2>4
<1> QED BY <1>2, <1>3

(* A chain with the same flushes has them in the same places. *)
LEMMA FlushesStay ==
  ASSUME NEW c \in Seq(Ops), NEW o \in Ops, o.op # "flush"
  PROVE  /\ Places(Append(c, o), "flush") = Places(c, "flush")
         /\ \A i \in Places(c, "flush") : Append(c, o)[i].by = c[i].by
<1>1. Places(Append(c, o), "flush") = Places(c, "flush") \cup {}
  BY PlacedLast
<1>2. \A i \in DOMAIN c : Append(c, o)[i] = c[i]
  OBVIOUS
<1> QED BY <1>1, <1>2 DEF Places

OpsTyped == \A op \in {"drain", "append"} : Op(op, "none") \in Ops /\ Op(op, "none").op = op
LEMMA OpsAreTyped == OpsTyped
BY DEF OpsTyped, Op, Ops

(* What a step in memory leaves alone. *)
SameFields(r, s) ==
  /\ s.home = r.home /\ s.leased = r.leased /\ s.cursor = r.cursor
  /\ s.materialized = r.materialized /\ s.recovered = r.recovered
  /\ s.next = r.next /\ s.life = r.life /\ s.closing = r.closing
SameFlushes(r, s) ==
  /\ Places(s.chain, "flush") = Places(r.chain, "flush")
  /\ \A i \in Places(s.chain, "flush") : s.chain[i].by = r.chain[i].by

(* A drain takes its place in the chain. *)
LEMMA DrainQueued ==
  ASSUME NEW r \in HandleRecord, HandleOK(r), r.drain # "queued", r.buffered # <<>>,
         NEW s, s = [r EXCEPT !.drain = "queued", !.chain = Append(@, Op("drain", "none"))]
  PROVE  s \in HandleRecord /\ HandleOK(s) /\ SameFields(r, s) /\ SameFlushes(r, s)
<1> DEFINE o == Op("drain", "none")
<1>1. o \in Ops /\ o.op = "drain" /\ r.chain \in Seq(Ops)
  BY OpsAreTyped DEF OpsTyped, HandleRecord
<1>2. Append(r.chain, o) \in Seq(Ops)
  BY <1>1
<1>3. s \in HandleRecord
  BY <1>2 DEF HandleRecord, Drains
<1>4. /\ SameFields(r, s) /\ s.chain = Append(r.chain, o) /\ s.drain = "queued"
      /\ s.repair = r.repair /\ s.buffered = r.buffered /\ s.batch = r.batch /\ s.at = r.at
      /\ s.wait = r.wait /\ s.closeFailed = r.closeFailed
  BY DEF HandleRecord, SameFields
<1> HIDE DEF o
<1>5. SameFlushes(r, s)
  <2>1. /\ Places(Append(r.chain, o), "flush") = Places(r.chain, "flush")
        /\ \A i \in Places(r.chain, "flush") : Append(r.chain, o)[i].by = r.chain[i].by
    BY <1>1, FlushesStay
  <2> QED BY <1>4, <2>1 DEF SameFlushes
<1>6. HandleOK(s)
  BY <1>3, <1>4, QueuesDrainOK DEF SameFields, o
<1> QED BY <1>3, <1>4, <1>5, <1>6

(* drainLive. *)
LEMMA DrainLives ==
  ASSUME NEW r \in HandleRecord, HandleOK(r), NEW s, s = DrainLive(r)
  PROVE  /\ s \in HandleRecord /\ HandleOK(s) /\ SameFields(r, s) /\ SameFlushes(r, s)
         /\ s.drain = "gap" => r.drain = "gap" \/ s.cursor = s.next
<1>1. CASE r.drain # "none"
  BY <1>1 DEF DrainLive, SameFields, SameFlushes
<1>2. CASE r.drain = "none"
  <2> DEFINE t == [r EXCEPT !.timer = FALSE, !.paused = FALSE]
  <2>1. t \in HandleRecord
    BY DEF HandleRecord
  <2>2. /\ SameFields(r, t) /\ t.chain = r.chain /\ t.drain = r.drain
        /\ t.repair = r.repair /\ t.buffered = r.buffered /\ t.batch = r.batch /\ t.at = r.at
        /\ t.wait = r.wait /\ t.closeFailed = r.closeFailed
    BY DEF HandleRecord, SameFields
  <2>3. s = IF t.buffered = <<>> THEN [t EXCEPT !.drain = "gap"]
            ELSE [t EXCEPT !.drain = "queued", !.chain = Append(@, Op("drain", "none"))]
    BY <1>2, <2>2 DEF DrainLive, DrainStarted
  <2> HIDE DEF t
  <2>4. HandleOK(t)
    BY <2>1, <2>2, MovesOK DEF SameFields
  <2>5. CASE t.buffered # <<>>
    <3>1. s \in HandleRecord /\ HandleOK(s) /\ SameFields(t, s) /\ SameFlushes(t, s)
      BY <1>2, <2>1, <2>2, <2>3, <2>4, <2>5, DrainQueued
    <3>2. s.drain = "queued"
      BY <2>1, <2>3, <2>5 DEF HandleRecord
    <3> QED BY <2>2, <3>1, <3>2 DEF SameFields, SameFlushes
  <2>6. CASE t.buffered = <<>>
    <3>1. s = [t EXCEPT !.drain = "gap"]
      BY <2>3, <2>6
    <3>2. s \in HandleRecord
      BY <2>1, <3>1 DEF HandleRecord, Drains
    <3>3. /\ SameFields(t, s) /\ s.chain = t.chain /\ s.drain = "gap"
          /\ s.repair = t.repair /\ s.buffered = t.buffered /\ s.batch = t.batch /\ s.at = t.at
          /\ s.wait = t.wait /\ s.closeFailed = t.closeFailed
      BY <2>1, <3>1 DEF HandleRecord, SameFields
    <3>4. HandleOK(s)
      BY <1>2, <2>1, <2>2, <2>4, <3>2, <3>3, MovesOK DEF SameFields
    <3>5. s.cursor = s.next
      BY <3>2, <3>3, <3>4, <2>6, NothingLeft
    <3> QED BY <2>2, <3>2, <3>3, <3>4, <3>5 DEF SameFields, SameFlushes
  <2> QED BY <2>5, <2>6
<1> QED BY <1>1, <1>2

(* The session is published. *)
LEMMA PublishSessionStep ==
  ASSUME IInv, NEW h \in Handles, PublishSession(h)
  PROVE  IInv'
<1> DEFINE r == handle[h]
           s == [r EXCEPT !.life = "live"]
<1>1. r \in HandleRecord /\ HandleOK(r)
  BY DEF IInv, TypeOK, AllOK
<1>2. s \in HandleRecord
  BY <1>1 DEF HandleRecord, Lives, Drains, Closes, Stages, PublishSession
<1>3. /\ s.home = r.home /\ s.leased = r.leased /\ s.cursor = r.cursor /\ s.materialized = r.materialized
      /\ s.repair = r.repair /\ s.recovered = r.recovered /\ s.buffered = r.buffered /\ s.batch = r.batch
      /\ s.drain = r.drain /\ s.chain = r.chain /\ s.at = r.at /\ s.closing = r.closing
      /\ s.wait = r.wait /\ s.closeFailed = r.closeFailed /\ s.next = r.next /\ s.life = "live"
  BY <1>1 DEF HandleRecord, PublishSession
<1>4. handle' = [handle EXCEPT ![h] = s] /\ UNCHANGED <<disk, lock, claim, flusher, failures, crashes>>
  BY DEF PublishSession
<1>5. r.life = "opened"
  BY <1>3 DEF PublishSession
<1> HIDE DEF r, s
<1>6. HandleOK(s)
  BY <1>1, <1>2, <1>3, <1>5, MovesOK
<1>7. r.next <= s.next
  BY <1>1, <1>3 DEF HandleRecord
<1>8. SameFlushes(r, s)
  BY <1>3 DEF SameFlushes
<1>9. /\ s.closing = "done" <=> r.closing = "done"
      /\ s.closing \in {"release", "released", "done"} \/ r.closing \notin {"release", "released", "done"}
      /\ s.life \in {"new", "dead"} <=> r.life \in {"new", "dead"}
  BY <1>3, <1>5
<1> QED BY <1>1, <1>2, <1>3, <1>4, <1>6, <1>7, <1>8, <1>9, MemoryStep DEF r, SameFlushes

(* The close has awaited the chain. *)
LEMMA CloseReleasesStep ==
  ASSUME IInv, NEW h \in Handles, CloseReleases(h)
  PROVE  IInv'
<1> DEFINE r == handle[h]
           s == [r EXCEPT !.closing = IF r.leased THEN "release" ELSE "released"]
<1>1. r \in HandleRecord /\ HandleOK(r)
  BY DEF IInv, TypeOK, AllOK
<1>2. s \in HandleRecord
  BY <1>1 DEF HandleRecord, Lives, Drains, Closes, Stages, CloseReleases, Goes
<1>3. /\ s.life = r.life /\ s.home = r.home /\ s.leased = r.leased /\ s.cursor = r.cursor
      /\ s.materialized = r.materialized /\ s.repair = r.repair /\ s.recovered = r.recovered /\ s.buffered = r.buffered
      /\ s.batch = r.batch /\ s.drain = r.drain /\ s.chain = r.chain /\ s.at = r.at
      /\ s.wait = r.wait /\ s.closeFailed = r.closeFailed /\ s.next = r.next /\ s.closing \in {"release", "released"}
  BY <1>1 DEF HandleRecord, CloseReleases, Goes
<1>4. handle' = [handle EXCEPT ![h] = s] /\ UNCHANGED <<disk, lock, claim, flusher, failures, crashes>>
  BY DEF CloseReleases, Goes
<1>5. Goes(r, s) /\ r.closing = "last"
  BY <1>3 DEF CloseReleases, Goes
<1> HIDE DEF r, s
<1>6. HandleOK(s)
  BY <1>1, <1>2, <1>3, <1>5, ReleasesOK
<1>7. r.next <= s.next
  BY <1>1, <1>3 DEF HandleRecord
<1>8. SameFlushes(r, s)
  BY <1>3 DEF SameFlushes
<1>9. /\ s.closing = "done" <=> r.closing = "done"
      /\ s.closing \in {"release", "released", "done"} \/ r.closing \notin {"release", "released", "done"}
      /\ s.life \in {"new", "dead"} <=> r.life \in {"new", "dead"}
  BY <1>3, <1>5
<1> QED BY <1>1, <1>2, <1>3, <1>4, <1>6, <1>7, <1>8, <1>9, MemoryStep DEF r, SameFlushes

(* It learns that the lock is free. *)
LEMMA LockReleasedStep ==
  ASSUME IInv, NEW h \in Handles, LockReleased(h)
  PROVE  IInv'
<1> DEFINE r == handle[h]
           s == [r EXCEPT !.closing = "released"]
<1>1. r \in HandleRecord /\ HandleOK(r)
  BY DEF IInv, TypeOK, AllOK
<1>2. s \in HandleRecord
  BY <1>1 DEF HandleRecord, Lives, Drains, Closes, Stages, LockReleased, Goes
<1>3. /\ s.life = r.life /\ s.home = r.home /\ s.leased = r.leased /\ s.cursor = r.cursor
      /\ s.materialized = r.materialized /\ s.repair = r.repair /\ s.recovered = r.recovered /\ s.buffered = r.buffered
      /\ s.batch = r.batch /\ s.drain = r.drain /\ s.chain = r.chain /\ s.at = r.at
      /\ s.wait = r.wait /\ s.closeFailed = r.closeFailed /\ s.next = r.next /\ s.closing = "released"
  BY <1>1 DEF HandleRecord, LockReleased, Goes
<1>4. handle' = [handle EXCEPT ![h] = s] /\ UNCHANGED <<disk, lock, claim, flusher, failures, crashes>>
  BY DEF LockReleased, Goes
<1>5. Goes(r, s) /\ r.closing = "release"
  BY <1>3 DEF LockReleased, Goes
<1> HIDE DEF r, s
<1>6. HandleOK(s)
  BY <1>1, <1>2, <1>3, <1>5, ReleasesOK
<1>7. r.next <= s.next
  BY <1>1, <1>3 DEF HandleRecord
<1>8. SameFlushes(r, s)
  BY <1>3 DEF SameFlushes
<1>9. /\ s.closing = "done" <=> r.closing = "done"
      /\ s.closing \in {"release", "released", "done"} \/ r.closing \notin {"release", "released", "done"}
      /\ s.life \in {"new", "dead"} <=> r.life \in {"new", "dead"}
  BY <1>3, <1>5
<1> QED BY <1>1, <1>2, <1>3, <1>4, <1>6, <1>7, <1>8, <1>9, MemoryStep DEF r, SameFlushes

(* The owner appends before it publishes. *)
LEMMA AppendClosersStep ==
  ASSUME IInv, NEW h \in Handles, AppendClosers(h)
  PROVE  IInv'
<1> DEFINE r == handle[h]
           o == Op("append", "none")
           s == [r EXCEPT !.life = "appending", !.chain = Append(@, o)]
<1>1. r \in HandleRecord /\ HandleOK(r)
  BY DEF IInv, TypeOK, AllOK
<1>a. o \in Ops /\ o.op = "append" /\ r.chain \in Seq(Ops)
  BY <1>1, OpsAreTyped DEF OpsTyped, HandleRecord
<1>b. Append(r.chain, o) \in Seq(Ops)
  BY <1>a
<1>2. s \in HandleRecord
  BY <1>1, <1>b DEF HandleRecord, Lives
<1>3. /\ SameFields(r, [s EXCEPT !.life = r.life]) /\ s.life = "appending" /\ s.chain = Append(r.chain, o)
      /\ s.home = r.home /\ s.leased = r.leased /\ s.cursor = r.cursor /\ s.next = r.next
      /\ s.materialized = r.materialized /\ s.recovered = r.recovered /\ s.closing = r.closing
      /\ s.drain = r.drain /\ s.repair = r.repair /\ s.buffered = r.buffered /\ s.batch = r.batch
      /\ s.at = r.at /\ s.wait = r.wait /\ s.closeFailed = r.closeFailed
  BY <1>1 DEF HandleRecord, SameFields
<1>4. handle' = [handle EXCEPT ![h] = s] /\ UNCHANGED <<disk, lock, claim, flusher, failures, crashes>>
  BY DEF AppendClosers
<1>5. r.life = "opened" /\ r.closing = "open"
  BY DEF AppendClosers
<1> HIDE DEF r, s
<1>6. HandleOK(s)
  BY <1>1, <1>2, <1>3, <1>5, QueuesAppendOK
<1> HIDE DEF o
<1>7. SameFlushes(r, s)
  <2>1. /\ Places(Append(r.chain, o), "flush") = Places(r.chain, "flush")
        /\ \A i \in Places(r.chain, "flush") : Append(r.chain, o)[i].by = r.chain[i].by
    BY <1>a, FlushesStay
  <2> QED BY <1>3, <2>1 DEF SameFlushes
<1>8. r.next <= s.next
  BY <1>1, <1>3 DEF HandleRecord
<1> QED BY <1>1, <1>2, <1>3, <1>4, <1>5, <1>6, <1>7, <1>8, MemoryStep DEF r, SameFlushes

(* An event is logged: the writer of a live handle's process is itself. *)
LEMMA PublishStep ==
  ASSUME IInv, NEW h \in Handles, Publish(h)
  PROVE  IInv'
<1> DEFINE r == handle[h]
           s == Enqueued([r EXCEPT !.next = @ + 1], r.next)
<1>1. r \in HandleRecord /\ HandleOK(r)
  BY DEF IInv, TypeOK, AllOK
<1>2. r.life = "live" /\ (LateProducers \/ r.closing \in {"open", "drain", "chain"})
  BY DEF Publish
<1>3. claim[r.home] = h /\ h # 0
  <2>1. r.closing # "done"
    BY <1>1, <1>2 DEF HandleOK, Closed
  <2> QED BY <1>2, <2>1 DEF IInv, Claimed, Alive, Handles
<1>4. handle' = [handle EXCEPT ![h] = s] /\ UNCHANGED <<disk, lock, claim, flusher, failures, crashes>>
  BY <1>3, ZenonT(60) DEF Publish, Enqueued, IInv, TypeOK
<1>5. r.buffered \in Seq(Nat) /\ r.next \in Nat
  BY <1>1 DEF HandleRecord
<1>6. Append(r.buffered, r.next) \in Seq(Nat) /\ r.next + 1 \in Nat
  BY <1>5
<1>7. s \in HandleRecord
  BY <1>1, <1>6 DEF HandleRecord, Enqueued
<1>8. /\ s.home = r.home /\ s.leased = r.leased /\ s.cursor = r.cursor /\ s.next = r.next + 1
      /\ s.materialized = r.materialized /\ s.recovered = r.recovered /\ s.closing = r.closing
      /\ s.drain = r.drain /\ s.repair = r.repair /\ s.buffered = Append(r.buffered, r.next)
      /\ s.batch = r.batch /\ s.life = r.life /\ s.chain = r.chain
      /\ s.at = r.at /\ s.wait = r.wait /\ s.closeFailed = r.closeFailed
  BY <1>1 DEF HandleRecord, Enqueued
<1> HIDE DEF r, s
<1>9. HandleOK(s)
  BY <1>1, <1>2, <1>7, <1>8, LogsOK
<1>10. r.next <= s.next
  BY <1>5, <1>8
<1> QED BY <1>1, <1>2, <1>4, <1>7, <1>8, <1>9, <1>10, MemoryStep DEF r

(* The timer fires, or close begins, and a drain is joined or started. *)
LEMMA DrainStep ==
  ASSUME IInv, NEW h \in Handles, NEW t \in HandleRecord, HandleOK(t),
         SameFields([handle[h] EXCEPT !.closing = t.closing], t), SameFlushes(handle[h], t),
         t.drain = handle[h].drain,
         t.closing = handle[h].closing
           \/ (t.closing = "drain" /\ handle[h].closing \in {"open", "chain"}),
         handle' = [handle EXCEPT ![h] = DrainLive(t)],
         UNCHANGED <<disk, lock, claim, flusher, failures, crashes>>
  PROVE  IInv'
<1> DEFINE r == handle[h]
           s == DrainLive(t)
<1>1. r \in HandleRecord /\ HandleOK(r)
  BY DEF IInv, TypeOK, AllOK
<1>2. /\ t.home = r.home /\ t.leased = r.leased /\ t.cursor = r.cursor /\ t.next = r.next
      /\ t.materialized = r.materialized /\ t.recovered = r.recovered /\ t.life = r.life
  BY <1>1 DEF SameFields, HandleRecord
<1> HIDE DEF s
<1>3. /\ s \in HandleRecord /\ HandleOK(s) /\ SameFields(t, s) /\ SameFlushes(t, s)
      /\ s.drain = "gap" => t.drain = "gap" \/ s.cursor = s.next
  BY DrainLives DEF s
<1>4. handle' = [handle EXCEPT ![h] = s]
  BY DEF s
<1> HIDE DEF r
<1>5. /\ s.home = r.home /\ s.leased = r.leased /\ s.cursor = r.cursor /\ s.next = r.next
      /\ s.materialized = r.materialized /\ s.recovered = r.recovered /\ s.life = r.life
      /\ s.closing = t.closing
  BY <1>2, <1>3 DEF SameFields
<1>6. SameFlushes(r, s)
  BY <1>3 DEF SameFlushes, r
<1>7. /\ s.closing = "done" <=> r.closing = "done"
      /\ s.closing \in {"release", "released", "done"} \/ r.closing \notin {"release", "released", "done"}
  BY <1>5 DEF r
<1>8. s.drain = "gap" => r.drain = "gap" \/ s.cursor = s.next
  BY <1>3 DEF r
<1>9. r.next <= s.next
  BY <1>1, <1>5 DEF HandleRecord
<1> QED BY <1>3, <1>4, <1>5, <1>6, <1>7, <1>8, <1>9, MemoryStep DEF r, SameFlushes

(* The delay is over. *)
LEMMA TimerFiresStep ==
  ASSUME IInv, NEW h \in Handles, TimerFires(h)
  PROVE  IInv'
<1> DEFINE r == handle[h]
           t == [r EXCEPT !.timer = FALSE]
<1>1. r \in HandleRecord /\ HandleOK(r)
  BY DEF IInv, TypeOK, AllOK
<1>2. t \in HandleRecord
  BY <1>1 DEF HandleRecord
<1>3. /\ SameFields(r, t) /\ t.chain = r.chain /\ t.drain = r.drain /\ t.repair = r.repair
      /\ t.buffered = r.buffered /\ t.batch = r.batch /\ t.at = r.at
      /\ t.wait = r.wait /\ t.closeFailed = r.closeFailed
      /\ SameFields([r EXCEPT !.closing = t.closing], t)
  BY <1>1 DEF HandleRecord, SameFields
<1>4. /\ handle' = [handle EXCEPT ![h] = DrainLive(t)]
      /\ UNCHANGED <<disk, lock, claim, flusher, failures, crashes>>
  BY DEF TimerFires
<1> HIDE DEF r, t
<1>5. HandleOK(t)
  BY <1>1, <1>2, <1>3, MovesOK DEF SameFields
<1>6. SameFlushes(r, t) /\ t.closing = r.closing
  BY <1>3 DEF SameFlushes, SameFields
<1> QED BY <1>2, <1>3, <1>4, <1>5, <1>6, DrainStep DEF r

(* Close begins with a drain. *)
LEMMA DrainForClose ==
  ASSUME IInv, NEW h \in Handles, Alive(h), handle[h].closing \in {"open", "chain"},
         handle' = [handle EXCEPT ![h] = DrainLive([handle[h] EXCEPT !.closing = "drain"])],
         UNCHANGED <<disk, lock, claim, flusher, failures, crashes>>
  PROVE  IInv'
<1> DEFINE r == handle[h]
           t == [r EXCEPT !.closing = "drain"]
<1>1. r \in HandleRecord /\ HandleOK(r)
  BY DEF IInv, TypeOK, AllOK
<1>2. t \in HandleRecord
  BY <1>1 DEF HandleRecord, Closes
<1>3. /\ t.closing = "drain" /\ t.chain = r.chain /\ t.drain = r.drain /\ t.repair = r.repair
      /\ t.buffered = r.buffered /\ t.batch = r.batch /\ t.at = r.at
      /\ t.wait = r.wait /\ t.closeFailed = r.closeFailed
      /\ t.home = r.home /\ t.leased = r.leased /\ t.cursor = r.cursor /\ t.next = r.next
      /\ t.materialized = r.materialized /\ t.recovered = r.recovered /\ t.life = r.life
      /\ SameFields([r EXCEPT !.closing = t.closing], t)
  BY <1>1 DEF HandleRecord, SameFields
<1>4. handle' = [handle EXCEPT ![h] = DrainLive(t)]
  OBVIOUS
<1> HIDE DEF t
<1>5. HandleOK(t)
  BY <1>1, <1>2, <1>3, ClosesOK DEF Alive
<1>6. SameFlushes(r, t)
  BY <1>3 DEF SameFlushes
<1> QED BY <1>2, <1>3, <1>4, <1>5, <1>6, DrainStep

(* Close is asked for. *)
LEMMA CloseStep ==
  ASSUME IInv, NEW h \in Handles, Close(h)
  PROVE  IInv'
BY DrainForClose DEF Close

(* Close has awaited a drain or the chain and looks at the buffer. *)
LEMMA CloseChecksStep ==
  ASSUME IInv, NEW h \in Handles, CloseChecks(h)
  PROVE  IInv'
<1>1. CASE ~CloseDone(handle[h])
  <2>1. Alive(h)
    BY DEF IInv, AllOK, HandleOK, Closed, CloseChecks, Alive
  <2> QED BY <1>1, <2>1, DrainForClose DEF CloseChecks
<1>2. CASE CloseDone(handle[h])
  <2> DEFINE r == handle[h]
             s == [r EXCEPT !.closing = "last", !.wait = Len(r.chain)]
  <2>1. r \in HandleRecord /\ HandleOK(r)
    BY DEF IInv, TypeOK, AllOK
  <2>2. Len(r.chain) \in Nat
    BY <2>1 DEF HandleRecord
  <2>3. s \in HandleRecord
    BY <2>1, <2>2 DEF HandleRecord, Closes
  <2>4. /\ s.closing = "last" /\ s.chain = r.chain /\ s.drain = r.drain /\ s.repair = r.repair
        /\ s.buffered = r.buffered /\ s.batch = r.batch /\ s.at = r.at
        /\ s.wait = Len(r.chain) /\ s.closeFailed = r.closeFailed
        /\ s.home = r.home /\ s.leased = r.leased /\ s.cursor = r.cursor /\ s.next = r.next
        /\ s.materialized = r.materialized /\ s.recovered = r.recovered /\ s.life = r.life
    BY <2>1 DEF HandleRecord
  <2>5. handle' = [handle EXCEPT ![h] = s] /\ UNCHANGED <<disk, lock, claim, flusher, failures, crashes>>
    BY <1>2 DEF CloseChecks
  <2>6. r.closing = "chain" /\ r.wait = 0 /\ r.buffered = <<>>
    BY <1>2 DEF CloseChecks, CloseDone
  <2> HIDE DEF r, s
  <2>7. HandleOK(s)
    BY <2>1, <2>3, <2>4, <2>6, RechecksOK
  <2>8. r.next <= s.next
    BY <2>1, <2>4 DEF HandleRecord
  <2> QED BY <2>3, <2>4, <2>5, <2>6, <2>7, <2>8, MemoryStep DEF r
<1> QED BY <1>1, <1>2

(* The loop of a drain looks at the buffer. *)
LEMMA DrainChecksStep ==
  ASSUME IInv, NEW h \in Handles, DrainChecks(h)
  PROVE  IInv'
<1> DEFINE r == handle[h]
<1>1. r \in HandleRecord /\ HandleOK(r) /\ r.drain = "check"
  BY DEF IInv, TypeOK, AllOK, DrainChecks
<1>2. r.next <= r.next
  BY <1>1 DEF HandleRecord
<1>3. CASE r.buffered = <<>>
  <2> DEFINE s == [r EXCEPT !.drain = "gap"]
  <2>1. handle' = [handle EXCEPT ![h] = s] /\ UNCHANGED <<disk, lock, claim, flusher, failures, crashes>>
    BY <1>3 DEF DrainChecks
  <2>2. s \in HandleRecord
    BY <1>1 DEF HandleRecord, Drains
  <2>3. /\ SameFields(r, s) /\ s.chain = r.chain /\ s.drain = "gap"
        /\ s.repair = r.repair /\ s.buffered = r.buffered /\ s.batch = r.batch /\ s.at = r.at
        /\ s.wait = r.wait /\ s.closeFailed = r.closeFailed
    BY <1>1 DEF HandleRecord, SameFields
  <2> HIDE DEF s, r
  <2>4. HandleOK(s)
    BY <1>1, <2>2, <2>3, MovesOK DEF SameFields
  <2>5. s.cursor = s.next
    BY <1>3, <2>2, <2>3, <2>4, NothingLeft
  <2> QED BY <1>2, <2>1, <2>2, <2>3, <2>4, <2>5, MemoryStep DEF r, SameFields
<1>4. CASE r.buffered # <<>>
  <2> DEFINE s == [r EXCEPT !.drain = "queued", !.chain = Append(@, Op("drain", "none"))]
  <2>1. handle' = [handle EXCEPT ![h] = s] /\ UNCHANGED <<disk, lock, claim, flusher, failures, crashes>>
    BY <1>4 DEF DrainChecks
  <2>2. s.drain = "queued"
    BY <1>1 DEF HandleRecord
  <2> HIDE DEF r
  <2>3. s \in HandleRecord /\ HandleOK(s) /\ SameFields(r, s) /\ SameFlushes(r, s)
    BY <1>1, <1>4, DrainQueued
  <2> HIDE DEF s
  <2> QED BY <1>2, <2>1, <2>2, <2>3, MemoryStep DEF r, SameFields, SameFlushes
<1> QED BY <1>3, <1>4

-----------------------------------------------------------------------------
(* Operations of the chain.                                                *)

(* A step of one handle that may write, answer a flush or take the lock: what *)
(* it must leave true of each part.                                        *)
LEMMA ChainStep ==
  ASSUME IInv, NEW h \in Handles, NEW s \in HandleRecord, HandleOK(s),
         handle' = [handle EXCEPT ![h] = s], UNCHANGED <<claim, crashes>>,
         disk' \in [exists : BOOLEAN, log : Seq(Nat), torn : BOOLEAN, tail : Seq(Nat)], Grows,
         lock' \in 0 .. NumHandles, Owned', failures' \in 0 .. MaxFailures,
         flusher' \in [Flushers -> [at : Asked, on : 0 .. NumHandles, mark : Nat, late : BOOLEAN]],
         \A f \in Flushers : flusher'[f] = flusher[f]
                             \/ flusher'[f].at \notin {"drain", "ready", "barrier"},
         Barriers', FlushedIsDurable',
         s.home = handle[h].home, handle[h].next <= s.next, handle[h].cursor <= s.cursor,
         s.cursor <= Len(disk'.log) + Len(s.recovered), s.materialized => disk'.exists,
         s.life \in {"new", "dead"} <=> handle[h].life \in {"new", "dead"},
         s.closing = "done" <=> handle[h].closing = "done",
         s.drain = "gap" => handle[h].drain = "gap" \/ s.cursor = s.next
  PROVE  IInv'
<1> USE DEF IInv
<1>1. /\ handle' \in [Handles -> HandleRecord] /\ AllOK' /\ handle'[h] = s
      /\ \A g \in Handles : g # h => handle'[g] = handle[g]
  BY HandleFrame
<1>2. TypeOK'
  BY <1>1 DEF TypeOK
<1>3. Claimed'
  BY <1>1, ClaimFrame
<1>4. OnDisk'
  BY <1>1, DiskFrame
<1>5. \A f \in Flushers : Waiting(f)'
  BY <1>1, WaitFrame
<1> QED BY <1>1, <1>2, <1>3, <1>4, <1>5

(* The step of a handle whose flushes stay queued and whose callers wait. *)
LEMMA WriteStep ==
  ASSUME IInv, NEW h \in Handles, NEW s \in HandleRecord, HandleOK(s),
         handle' = [handle EXCEPT ![h] = s], UNCHANGED <<claim, flusher, failures, crashes>>,
         disk' \in [exists : BOOLEAN, log : Seq(Nat), torn : BOOLEAN, tail : Seq(Nat)], Grows,
         lock' \in 0 .. NumHandles, Owned',
         s.home = handle[h].home, s.next = handle[h].next, s.cursor = handle[h].cursor,
         s.cursor <= Len(disk'.log) + Len(s.recovered), s.materialized => disk'.exists,
         s.life = handle[h].life, s.closing = handle[h].closing, s.drain = handle[h].drain,
         s.chain = handle[h].chain
  PROVE  IInv'
<1> DEFINE r == handle[h]
<1>1. /\ handle'[h] = s /\ \A g \in Handles : g # h => handle'[g] = handle[g]
  BY HandleFrame DEF IInv
<1>2. Barriers'
  BY <1>1, BarrierFrame DEF IInv
<1>3. FlushedIsDurable'
  <2>1. disk'.log \in Seq(Nat)
    OBVIOUS
  <2> QED BY <2>1, DurableFrame DEF IInv
<1>4. s.next \in Nat /\ s.cursor \in Nat
  BY DEF HandleRecord
<1>5. r.next <= s.next /\ r.cursor <= s.cursor
  BY <1>4
<1>6. failures' \in 0 .. MaxFailures
  BY DEF IInv, TypeOK
<1>7. flusher' \in [Flushers -> [at : Asked, on : 0 .. NumHandles, mark : Nat, late : BOOLEAN]]
  BY DEF IInv, TypeOK
<1> QED BY <1>2, <1>3, <1>5, <1>6, <1>7, ChainStep

(* The flush whose turn is over is answered, and no other caller is. *)
LEMMA Answers ==
  ASSUME IInv, NEW h \in Handles, NEW s \in HandleRecord,
         handle[h].chain # <<>>, s.chain = Tail(handle[h].chain),
         handle' = [handle EXCEPT ![h] = s],
         disk'.log \in Seq(Nat), Grows,
         NEW ok \in BOOLEAN, flusher' = Answered(h, ok)
  PROVE  /\ flusher' \in [Flushers -> [at : Asked, on : 0 .. NumHandles, mark : Nat, late : BOOLEAN]]
         /\ \A f \in Flushers : flusher'[f] = flusher[f]
                                \/ flusher'[f].at \notin {"drain", "ready", "barrier"}
         /\ Barriers' /\ FlushedIsDurable'
<1> DEFINE r == handle[h]
           op == Head(r.chain)
           F == [at : Asked, on : 0 .. NumHandles, mark : Nat, late : BOOLEAN]
<1>1. /\ r \in HandleRecord /\ r.chain \in Seq(Ops) /\ op \in Ops /\ flusher \in [Flushers -> F]
  <2>1. r \in HandleRecord /\ flusher \in [Flushers -> F]
    BY DEF IInv, TypeOK
  <2>2. r.chain \in Seq(Ops)
    BY <2>1 DEF HandleRecord
  <2> QED BY <2>1, <2>2
<1>2. handle'[h] = s /\ \A g \in Handles : g # h => handle'[g] = handle[g]
  BY DEF IInv, TypeOK
<1>3. \A i \in Places(s.chain, "flush") : i \in Nat \ {0} /\ i + 1 \in Places(r.chain, "flush")
                                          /\ s.chain[i] = r.chain[i + 1]
  BY <1>1, PlacedRest
<1>4. 1 \in Places(r.chain, "flush") <=> op.op = "flush"
  BY <1>1, PlacedFirst
<1>5. op = r.chain[1]
  BY <1>1
<1>6. \A g \in Handles : InChain(g)
  BY DEF IInv, Barriers
<1>9. /\ \A i \in Places(r.chain, "flush") : Awaits(r.chain[i].by, h)
      /\ \A i, j \in Places(r.chain, "flush") : r.chain[i].by = r.chain[j].by => i = j
  BY <1>6 DEF InChain
<1>10. \A i, j \in Places(s.chain, "flush") : s.chain[i].by = s.chain[j].by => i = j
  <2> SUFFICES ASSUME NEW i \in Places(s.chain, "flush"), NEW j \in Places(s.chain, "flush"),
                      s.chain[i].by = s.chain[j].by
               PROVE  i = j
    OBVIOUS
  <2>1. i + 1 \in Places(r.chain, "flush") /\ j + 1 \in Places(r.chain, "flush")
        /\ r.chain[i + 1].by = r.chain[j + 1].by /\ i \in Nat /\ j \in Nat
    BY <1>3
  <2>2. i + 1 = j + 1
    BY <2>1, <1>9
  <2> QED BY <2>1, <2>2
<1>7. CASE op.op # "flush"
  <2>1. flusher' = flusher
    BY <1>7 DEF Answered
  <2>2. ASSUME NEW g \in Handles PROVE InChain(g)'
    <3>1. CASE g # h
      BY <3>1, <2>1, <1>2, <1>6 DEF InChain, Awaits
    <3>2. CASE g = h
      <4>1. ASSUME NEW i \in Places(s.chain, "flush")
            PROVE  /\ s.chain[i].by \in Flushers /\ flusher'[s.chain[i].by].at = "barrier"
                   /\ flusher'[s.chain[i].by].on = h
        <5>1. i + 1 \in Places(r.chain, "flush") /\ s.chain[i] = r.chain[i + 1]
          BY <1>3
        <5>2. Awaits(r.chain[i + 1].by, h)
          BY <1>9, <5>1
        <5> QED BY <5>1, <5>2, <2>1 DEF Awaits
      <4>2. handle'[g].chain = s.chain
        BY <1>2, <3>2
      <4> QED BY <3>2, <4>1, <4>2, <1>10 DEF InChain, Awaits
    <3> QED BY <3>1, <3>2
  <2>3. Barriers'
    BY <2>2 DEF Barriers
  <2>4. FlushedIsDurable'
    BY <2>1, DurableFrame DEF IInv
  <2> QED BY <1>1, <2>1, <2>3, <2>4
<1>8. CASE op.op = "flush"
  <2> DEFINE f0 == op.by
  <2>1. f0 \in Flushers /\ flusher[f0].at = "barrier" /\ flusher[f0].on = h
    BY <1>4, <1>5, <1>9, <1>8 DEF Awaits
  <2>2. flusher' = [flusher EXCEPT ![f0].at = IF ok THEN "returned" ELSE "rejected",
                                   ![f0].mark = IF r.repair = "none" THEN @ ELSE 0]
    BY <1>8 DEF Answered
  <2> DEFINE keep == r.repair = "none"
  <2>a. flusher' = [flusher EXCEPT ![f0].at = IF ok THEN "returned" ELSE "rejected",
                                   ![f0].mark = IF keep THEN @ ELSE 0]
    BY <2>2
  <2>b. f0 = r.chain[1].by
    BY <1>5
  <2> HIDE DEF f0, keep
  <2>3. /\ flusher' \in [Flushers -> F]
        /\ \A f \in Flushers : f # f0 => flusher'[f] = flusher[f]
        /\ flusher'[f0].at \in {"returned", "rejected"}
        /\ flusher'[f0].mark = IF keep THEN flusher[f0].mark ELSE 0
        /\ flusher'[f0].late = flusher[f0].late
    <3> DEFINE at == IF ok THEN "returned" ELSE "rejected"
               mark == IF keep THEN flusher[f0].mark ELSE 0
               c == [flusher[f0] EXCEPT !.at = at, !.mark = mark]
    <3>1. flusher[f0] \in F
      BY <1>1, <2>1
    <3>2. mark \in Nat /\ at \in {"returned", "rejected"} /\ at \in Asked
      BY <3>1 DEF Asked
    <3>3. flusher' = [flusher EXCEPT ![f0] = c]
      BY <1>1, <2>a, <2>1
    <3> HIDE DEF at, mark
    <3>4. c \in F /\ c.at = at /\ c.mark = mark /\ c.late = flusher[f0].late
      BY <3>1, <3>2
    <3>5. mark = IF keep THEN flusher[f0].mark ELSE 0
      BY DEF mark
    <3> HIDE DEF c
    <3> QED BY <1>1, <2>1, <3>2, <3>3, <3>4, <3>5
  <2>4. ASSUME NEW g \in Handles PROVE InChain(g)'
    <3>1. CASE g # h
      <4>1. \A i \in Places(handle[g].chain, "flush") : Awaits(handle[g].chain[i].by, g)'
        BY <1>6, <2>1, <2>3, <3>1, SMTT(20) DEF InChain, Awaits
      <4> QED BY <3>1, <4>1, <1>2, <1>6 DEF InChain, Awaits
    <3>2. CASE g = h
      <4>1. ASSUME NEW i \in Places(s.chain, "flush")
            PROVE  /\ s.chain[i].by \in Flushers /\ flusher'[s.chain[i].by].at = "barrier"
                   /\ flusher'[s.chain[i].by].on = h
        <5>1. i \in Nat \ {0} /\ i + 1 \in Places(r.chain, "flush") /\ s.chain[i].by = r.chain[i + 1].by
          BY <1>3
        <5>2. Awaits(r.chain[i + 1].by, h) /\ r.chain[i + 1].by # f0
          BY <1>4, <1>8, <1>9, <2>b, <5>1
        <5> QED BY <5>1, <5>2, <2>3 DEF Awaits
      <4>2. handle'[g].chain = s.chain
        BY <1>2, <3>2
      <4> QED BY <3>2, <4>1, <4>2, <1>10 DEF InChain, Awaits
    <3> QED BY <3>1, <3>2
  <2>5. Barriers'
    BY <2>4 DEF Barriers
  <2>6. FlushedIsDurable'
    <3> SUFFICES ASSUME NEW f \in Flushers, flusher'[f].at = "returned", ~flusher'[f].late
                 PROVE  flusher'[f].mark <= Len(disk'.log)
      BY DEF FlushedIsDurable
    <3>1. flusher[f].mark \in Nat /\ Len(disk.log) \in Nat /\ Len(disk'.log) \in Nat
          /\ Len(disk.log) <= Len(disk'.log)
      <4>1. disk.log \in Seq(Nat)
        BY DEF IInv, TypeOK
      <4> QED BY <4>1, <1>1 DEF Grows
    <3>2. CASE f # f0
      <4>1. flusher[f].mark <= Len(disk.log) /\ flusher'[f] = flusher[f]
        BY <2>3, <3>2 DEF IInv, FlushedIsDurable
      <4> QED BY <3>1, <4>1
    <3>3. CASE f = f0 /\ ~keep
      BY <2>3, <3>1, <3>3
    <3>4. CASE f = f0 /\ keep
      <4>1. r.cursor <= Len(disk.log) + Len(r.recovered) /\ r.recovered = <<>>
        BY <3>4 DEF IInv, OnDisk, AllOK, HandleOK, Stage, keep
      <4>2. flusher[f].mark <= r.cursor
        BY <2>1, <2>3, <3>4 DEF IInv, Waiting
      <4>3. r.cursor \in Nat /\ Len(r.recovered) = 0
        BY <1>1, <4>1 DEF HandleRecord
      <4>4. flusher'[f].mark = flusher[f].mark
        BY <2>3, <3>4
      <4> HIDE DEF r
      <4> QED BY <3>1, <4>1, <4>2, <4>3, <4>4
    <3> QED BY <3>2, <3>3, <3>4
  <2> QED BY <2>3, <2>5, <2>6
<1> QED BY <1>7, <1>8
-----------------------------------------------------------------------------
(* An operation leaves the chain. *)
LEMMA PoppedFields ==
  ASSUME NEW r \in HandleRecord, r.chain # <<>>, NEW s, s = Popped(r)
  PROVE  /\ s \in HandleRecord
         /\ s.chain = Tail(r.chain) /\ s.at = "idle" /\ s.batch = <<>>
         /\ s.wait = IF r.wait = 0 THEN 0 ELSE r.wait - 1
         /\ s.life = r.life /\ s.home = r.home /\ s.leased = r.leased /\ s.cursor = r.cursor
         /\ s.materialized = r.materialized /\ s.repair = r.repair /\ s.recovered = r.recovered
         /\ s.buffered = r.buffered /\ s.drain = r.drain /\ s.closing = r.closing
         /\ s.closeFailed = r.closeFailed /\ s.next = r.next
<1>1. r.chain \in Seq(Ops) /\ r.wait \in Nat
  BY DEF HandleRecord
<1>2. Tail(r.chain) \in Seq(Ops)
  BY <1>1
<1> DEFINE chain == Tail(r.chain)
           wait == IF r.wait = 0 THEN 0 ELSE r.wait - 1
<1>3. wait \in Nat
  BY <1>1
<1>4. s = [r EXCEPT !.chain = chain, !.at = "idle", !.batch = <<>>, !.wait = wait]
  BY DEF Popped
<1>5. chain \in Seq(Ops) /\ <<>> \in Seq(Nat) /\ "idle" \in Stages
  BY <1>2 DEF Stages
<1>6. chain = Tail(r.chain) /\ wait = IF r.wait = 0 THEN 0 ELSE r.wait - 1
  OBVIOUS
<1> HIDE DEF chain, wait
<1>7. s \in HandleRecord
  BY <1>3, <1>4, <1>5, ZenonT(60) DEF HandleRecord
<1>8. s.chain = chain /\ s.at = "idle" /\ s.batch = <<>> /\ s.wait = wait
  BY <1>4 DEF HandleRecord
<1>9. /\ s.life = r.life /\ s.home = r.home /\ s.leased = r.leased /\ s.cursor = r.cursor
      /\ s.materialized = r.materialized /\ s.repair = r.repair /\ s.recovered = r.recovered
      /\ s.buffered = r.buffered /\ s.drain = r.drain /\ s.closing = r.closing
      /\ s.closeFailed = r.closeFailed /\ s.next = r.next
  BY <1>4 DEF HandleRecord
<1> QED BY <1>6, <1>7, <1>8, <1>9

(* The fields of a record whose operation failed. *)
LEMMA FailedFields ==
  ASSUME NEW r \in HandleRecord, r.chain # <<>>, NEW s, s = Failed(r)
  PROVE  /\ s \in HandleRecord
         /\ s.chain = Tail(r.chain) /\ s.at = "idle" /\ s.batch = <<>>
         /\ s.wait = IF r.wait = 0 THEN 0 ELSE r.wait - 1
         /\ s.home = r.home /\ s.leased = r.leased /\ s.cursor = r.cursor
         /\ s.materialized = r.materialized /\ s.repair = r.repair /\ s.recovered = r.recovered
         /\ s.closing = r.closing /\ s.closeFailed = r.closeFailed /\ s.next = r.next
         /\ s.drain = IF Head(r.chain).op = "drain" THEN "failed" ELSE r.drain
         /\ s.buffered = IF Head(r.chain).op = "drain" THEN r.batch \o r.buffered ELSE r.buffered
         /\ s.life = IF Head(r.chain).op = "append" THEN "failed" ELSE r.life
<1> DEFINE p == Popped(r)
           op == Head(r.chain).op
           back == r.batch \o r.buffered
<1>1. /\ p \in HandleRecord
      /\ p.chain = Tail(r.chain) /\ p.at = "idle" /\ p.batch = <<>>
      /\ p.wait = IF r.wait = 0 THEN 0 ELSE r.wait - 1
      /\ p.life = r.life /\ p.home = r.home /\ p.leased = r.leased /\ p.cursor = r.cursor
      /\ p.materialized = r.materialized /\ p.repair = r.repair /\ p.recovered = r.recovered
      /\ p.buffered = r.buffered /\ p.drain = r.drain /\ p.closing = r.closing
      /\ p.closeFailed = r.closeFailed /\ p.next = r.next
  BY PoppedFields
<1>2. back \in Seq(Nat)
  <2>1. r.batch \in Seq(Nat) /\ r.buffered \in Seq(Nat)
    BY DEF HandleRecord
  <2> QED BY <2>1
<1>3. s = IF op = "drain"
          THEN [p EXCEPT !.drain = "failed", !.paused = TRUE, !.buffered = back]
          ELSE [p EXCEPT !.life = IF op = "append" THEN "failed" ELSE p.life]
  BY DEF Failed, Rebuffered
<1>4. back = r.batch \o r.buffered /\ op = Head(r.chain).op
  OBVIOUS
<1> HIDE DEF p, op, back
<1>5. CASE op = "drain"
  <2>1. s = [p EXCEPT !.drain = "failed", !.paused = TRUE, !.buffered = back]
    BY <1>3, <1>5
  <2>2. s \in HandleRecord
    BY <1>1, <1>2, <2>1, ZenonT(60) DEF HandleRecord, Drains
  <2>3. /\ s.chain = p.chain /\ s.at = p.at /\ s.batch = p.batch /\ s.wait = p.wait
        /\ s.home = p.home /\ s.leased = p.leased /\ s.cursor = p.cursor
        /\ s.materialized = p.materialized /\ s.repair = p.repair /\ s.recovered = p.recovered
        /\ s.closing = p.closing /\ s.closeFailed = p.closeFailed /\ s.next = p.next
        /\ s.drain = "failed" /\ s.buffered = back /\ s.life = p.life
    BY <1>1, <2>1 DEF HandleRecord
  <2> QED BY <1>1, <1>4, <1>5, <2>2, <2>3, "drain" # "append"
<1>6. CASE op # "drain"
  <2> DEFINE life == IF op = "append" THEN "failed" ELSE p.life
  <2>1. s = [p EXCEPT !.life = life]
    BY <1>3, <1>6
  <2>2. life \in Lives
    BY <1>1 DEF HandleRecord, Lives
  <2>3. life = IF op = "append" THEN "failed" ELSE p.life
    OBVIOUS
  <2> HIDE DEF life
  <2>4. s \in HandleRecord
    BY <1>1, <2>1, <2>2 DEF HandleRecord
  <2>5. /\ s.chain = p.chain /\ s.at = p.at /\ s.batch = p.batch /\ s.wait = p.wait
        /\ s.home = p.home /\ s.leased = p.leased /\ s.cursor = p.cursor
        /\ s.materialized = p.materialized /\ s.repair = p.repair /\ s.recovered = p.recovered
        /\ s.closing = p.closing /\ s.closeFailed = p.closeFailed /\ s.next = p.next
        /\ s.drain = p.drain /\ s.buffered = p.buffered /\ s.life = life
    BY <1>1, <2>1 DEF HandleRecord
  <2> QED BY <1>1, <1>4, <1>6, <2>3, <2>4, <2>5
<1> QED BY <1>5, <1>6

(* The fields of a record whose operation succeeded. *)
LEMMA SucceededFields ==
  ASSUME NEW r \in HandleRecord, r.chain # <<>>, NEW s, s = Succeeded(r)
  PROVE  /\ s \in HandleRecord
         /\ s.chain = Tail(r.chain) /\ s.at = "idle" /\ s.batch = <<>>
         /\ s.wait = IF r.wait = 0 THEN 0 ELSE r.wait - 1
         /\ s.home = r.home /\ s.leased = r.leased /\ s.cursor = r.cursor
         /\ s.materialized = r.materialized /\ s.repair = r.repair /\ s.recovered = r.recovered
         /\ s.closing = r.closing /\ s.closeFailed = r.closeFailed /\ s.buffered = r.buffered
         /\ s.drain = IF Head(r.chain).op = "drain" THEN "check" ELSE r.drain
         /\ s.life = IF Head(r.chain).op = "append" THEN "live" ELSE r.life
         /\ s.next = IF Head(r.chain).op = "append" THEN r.next + 1 ELSE r.next
<1> DEFINE p == Popped(r)
           op == Head(r.chain).op
           drain == IF op = "drain" THEN "check" ELSE p.drain
           life == IF op = "append" THEN "live" ELSE p.life
           next == IF op = "append" THEN p.next + 1 ELSE p.next
<1>1. /\ p \in HandleRecord
      /\ p.chain = Tail(r.chain) /\ p.at = "idle" /\ p.batch = <<>>
      /\ p.wait = IF r.wait = 0 THEN 0 ELSE r.wait - 1
      /\ p.life = r.life /\ p.home = r.home /\ p.leased = r.leased /\ p.cursor = r.cursor
      /\ p.materialized = r.materialized /\ p.repair = r.repair /\ p.recovered = r.recovered
      /\ p.buffered = r.buffered /\ p.drain = r.drain /\ p.closing = r.closing
      /\ p.closeFailed = r.closeFailed /\ p.next = r.next
  BY PoppedFields
<1>2. s = [p EXCEPT !.drain = drain, !.life = life, !.next = next]
  BY DEF Succeeded
<1> HIDE DEF p
<1>3. drain \in Drains /\ life \in Lives /\ next \in Nat
  BY <1>1 DEF HandleRecord, Drains, Lives
<1>4. /\ drain = IF op = "drain" THEN "check" ELSE p.drain
      /\ life = IF op = "append" THEN "live" ELSE p.life
      /\ next = IF op = "append" THEN p.next + 1 ELSE p.next
      /\ op = Head(r.chain).op
  OBVIOUS
<1> HIDE DEF op, drain, life, next
<1>5. s \in HandleRecord
  BY <1>1, <1>2, <1>3, ZenonT(60) DEF HandleRecord
<1>6. /\ s.chain = p.chain /\ s.at = p.at /\ s.batch = p.batch /\ s.wait = p.wait
      /\ s.home = p.home /\ s.leased = p.leased /\ s.cursor = p.cursor
      /\ s.materialized = p.materialized /\ s.repair = p.repair /\ s.recovered = p.recovered
      /\ s.closing = p.closing /\ s.closeFailed = p.closeFailed /\ s.buffered = p.buffered
      /\ s.drain = drain /\ s.life = life /\ s.next = next
  BY <1>1, <1>2 DEF HandleRecord
<1> QED BY <1>1, <1>4, <1>5, <1>6

(* An operation fails or is refused, the file as it was or published. *)
LEMMA OpFails ==
  ASSUME IInv, NEW h \in Handles, handle[h].chain # <<>>,
         handle[h].at # "idle" \/ Head(handle[h].chain).op # "drain",
         handle' = [handle EXCEPT ![h] = Failed(handle[h])], flusher' = Answered(h, FALSE),
         UNCHANGED <<lock, claim, crashes>>, failures' \in 0 .. MaxFailures,
         disk' \in [exists : BOOLEAN, log : Seq(Nat), torn : BOOLEAN, tail : Seq(Nat)], Grows
  PROVE  IInv'
<1> DEFINE r == handle[h]
           s == Failed(r)
<1>1. r \in HandleRecord /\ HandleOK(r)
  BY DEF IInv, TypeOK, AllOK
<1>2. handle' = [handle EXCEPT ![h] = s]
  OBVIOUS
<1> HIDE DEF s
<1>3. /\ s \in HandleRecord
      /\ s.chain = Tail(r.chain) /\ s.at = "idle" /\ s.batch = <<>>
      /\ s.wait = IF r.wait = 0 THEN 0 ELSE r.wait - 1
      /\ s.home = r.home /\ s.leased = r.leased /\ s.cursor = r.cursor
      /\ s.materialized = r.materialized /\ s.repair = r.repair /\ s.recovered = r.recovered
      /\ s.closing = r.closing /\ s.closeFailed = r.closeFailed /\ s.next = r.next
      /\ s.drain = IF Head(r.chain).op = "drain" THEN "failed" ELSE r.drain
      /\ s.buffered = IF Head(r.chain).op = "drain" THEN r.batch \o r.buffered ELSE r.buffered
      /\ s.life = IF Head(r.chain).op = "append" THEN "failed" ELSE r.life
  BY <1>1, FailedFields DEF s
<1>4. HandleOK(s)
  BY <1>1, <1>3, FailsOK
<1>5. /\ flusher' \in [Flushers -> [at : Asked, on : 0 .. NumHandles, mark : Nat, late : BOOLEAN]]
      /\ \A f \in Flushers : flusher'[f] = flusher[f]
                             \/ flusher'[f].at \notin {"drain", "ready", "barrier"}
      /\ Barriers' /\ FlushedIsDurable'
  <2>1. disk'.log \in Seq(Nat)
    OBVIOUS
  <2> QED BY <1>2, <1>3, <2>1, Answers
<1>6. Owned'
  <2>1. handle'[h] = s /\ \A g \in Handles : g # h => handle'[g] = handle[g]
    BY <1>2, <1>3, <1>4, HandleFrame DEF IInv
  <2> QED BY <1>3, <2>1, OwnFrame DEF IInv
<1>7. lock' \in 0 .. NumHandles
  BY DEF IInv, TypeOK
<1>8. /\ r.next <= s.next /\ r.cursor <= s.cursor
      /\ s.cursor <= Len(disk'.log) + Len(s.recovered)
      /\ s.materialized => disk'.exists
  <2>1. r.cursor <= Len(disk.log) + Len(r.recovered) /\ (r.materialized => disk.exists)
    BY DEF IInv, OnDisk
  <2>2. Len(disk.log) \in Nat /\ Len(disk'.log) \in Nat /\ Len(disk.log) <= Len(disk'.log)
    <3>1. disk.log \in Seq(Nat) /\ disk'.log \in Seq(Nat)
      BY DEF IInv, TypeOK
    <3> QED BY <3>1 DEF Grows
  <2>3. r.next \in Nat /\ r.cursor \in Nat /\ Len(r.recovered) \in Nat
    <3>1. r.recovered \in Seq(Nat)
      BY <1>1 DEF HandleRecord
    <3> QED BY <1>1, <3>1 DEF HandleRecord
  <2>4. r.cursor <= Len(disk'.log) + Len(r.recovered)
    BY <2>1, <2>2, <2>3, StillWithin
  <2>5. r.next <= r.next /\ r.cursor <= r.cursor
    BY <2>3
  <2>6. disk.exists => disk'.exists
    BY DEF Grows
  <2> HIDE DEF r
  <2> QED BY <1>3, <2>1, <2>4, <2>5, <2>6
<1>9. /\ s.life \in {"new", "dead"} <=> r.life \in {"new", "dead"}
      /\ s.closing = "done" <=> r.closing = "done"
      /\ s.drain = "gap" => r.drain = "gap"
  <2>1. Head(r.chain).op = "append" => r.life = "appending"
    <3>1. r.chain \in Seq(Ops)
      BY <1>1 DEF HandleRecord
    <3> QED BY <1>1, <3>1, PlacedFirst DEF HandleOK, OneAppend
  <2> QED BY <1>3, <2>1
<1> QED BY <1>2, <1>3, <1>4, <1>5, <1>6, <1>7, <1>8, <1>9, ChainStep

(* What an operation has written is counted. *)
Written(r, t) ==
  /\ t.materialized /\ t.cursor = r.cursor + Len(r.batch)
  /\ t.chain = r.chain /\ t.at = r.at /\ t.batch = r.batch /\ t.wait = r.wait
  /\ t.home = r.home /\ t.leased = r.leased /\ t.repair = r.repair /\ t.recovered = r.recovered
  /\ t.closing = r.closing /\ t.closeFailed = r.closeFailed /\ t.buffered = r.buffered
  /\ t.drain = r.drain /\ t.life = r.life /\ t.next = r.next

(* An operation succeeds: its batch is in the file. *)
LEMMA OpSucceeds ==
  ASSUME IInv, NEW h \in Handles, handle[h].chain # <<>>,
         handle[h].at = "persist" \/ (handle[h].at = "idle" /\ Head(handle[h].chain).op = "flush"),
         NEW t \in HandleRecord, Written(handle[h], t),
         handle' = [handle EXCEPT ![h] = Succeeded(t)], flusher' = Answered(h, TRUE),
         UNCHANGED <<lock, claim, failures, crashes>>,
         disk' \in [exists : BOOLEAN, log : Seq(Nat), torn : BOOLEAN, tail : Seq(Nat)], Grows,
         t.cursor <= Len(disk'.log) + Len(t.recovered), disk'.exists
  PROVE  IInv'
<1> DEFINE r == handle[h]
           s == Succeeded(t)
<1>1. r \in HandleRecord /\ HandleOK(r)
  BY DEF IInv, TypeOK, AllOK
<1>2. handle' = [handle EXCEPT ![h] = s]
  OBVIOUS
<1>3. /\ t.materialized /\ t.cursor = r.cursor + Len(r.batch)
      /\ t.chain = r.chain /\ t.at = r.at /\ t.batch = r.batch /\ t.wait = r.wait
      /\ t.home = r.home /\ t.leased = r.leased /\ t.repair = r.repair /\ t.recovered = r.recovered
      /\ t.closing = r.closing /\ t.closeFailed = r.closeFailed /\ t.buffered = r.buffered
      /\ t.drain = r.drain /\ t.life = r.life /\ t.next = r.next
  BY DEF Written
<1> HIDE DEF s
<1>4. /\ s \in HandleRecord
      /\ s.chain = Tail(t.chain) /\ s.at = "idle" /\ s.batch = <<>>
      /\ s.wait = IF t.wait = 0 THEN 0 ELSE t.wait - 1
      /\ s.home = t.home /\ s.leased = t.leased /\ s.cursor = t.cursor
      /\ s.materialized = t.materialized /\ s.repair = t.repair /\ s.recovered = t.recovered
      /\ s.closing = t.closing /\ s.closeFailed = t.closeFailed /\ s.buffered = t.buffered
      /\ s.drain = IF Head(t.chain).op = "drain" THEN "check" ELSE t.drain
      /\ s.life = IF Head(t.chain).op = "append" THEN "live" ELSE t.life
      /\ s.next = IF Head(t.chain).op = "append" THEN t.next + 1 ELSE t.next
  <2>1. t.chain # <<>>
    BY <1>3
  <2> QED BY <2>1, SucceededFields DEF s
<1>5. HandleOK(s)
  <2>1. (r.at = "persist" \/ (r.at = "idle" /\ Head(r.chain).op = "flush")) /\ r.chain # <<>>
    OBVIOUS
  <2>2. /\ s.leased = r.leased /\ s.repair = r.repair /\ s.recovered = r.recovered
        /\ s.buffered = r.buffered /\ s.closing = r.closing /\ s.closeFailed = r.closeFailed
        /\ s.chain = Tail(r.chain) /\ s.wait = IF r.wait = 0 THEN 0 ELSE r.wait - 1
        /\ s.cursor = r.cursor + Len(r.batch) /\ s.materialized
        /\ s.drain = IF Head(r.chain).op = "drain" THEN "check" ELSE r.drain
        /\ s.life = IF Head(r.chain).op = "append" THEN "live" ELSE r.life
        /\ s.next = IF Head(r.chain).op = "append" THEN r.next + 1 ELSE r.next
    BY <1>3, <1>4
  <2> HIDE DEF r
  <2> QED BY <1>1, <1>4, <2>1, <2>2, SucceedsOK
<1>6. /\ flusher' \in [Flushers -> [at : Asked, on : 0 .. NumHandles, mark : Nat, late : BOOLEAN]]
      /\ \A f \in Flushers : flusher'[f] = flusher[f]
                             \/ flusher'[f].at \notin {"drain", "ready", "barrier"}
      /\ Barriers' /\ FlushedIsDurable'
  <2>1. disk'.log \in Seq(Nat)
    OBVIOUS
  <2> QED BY <1>2, <1>3, <1>4, <2>1, Answers, ZenonT(60)
<1>7. Owned'
  <2>1. handle'[h] = s /\ \A g \in Handles : g # h => handle'[g] = handle[g]
    BY <1>2, <1>4, <1>5, HandleFrame DEF IInv
  <2> QED BY <1>3, <1>4, <2>1, OwnFrame DEF IInv
<1>8. lock' \in 0 .. NumHandles /\ failures' \in 0 .. MaxFailures
  BY DEF IInv, TypeOK
<1>9. r.next <= s.next /\ r.cursor <= s.cursor
  <2>1. r.next \in Nat /\ r.cursor \in Nat /\ Len(r.batch) \in Nat
    <3>1. r.batch \in Seq(Nat) /\ r.next \in Nat /\ r.cursor \in Nat
      BY <1>1 DEF HandleRecord
    <3> HIDE DEF r
    <3> QED BY <3>1
  <2>2. s.cursor = r.cursor + Len(r.batch) /\ (s.next = r.next \/ s.next = r.next + 1)
    BY <1>3, <1>4
  <2> HIDE DEF r
  <2> QED BY <2>1, <2>2
<1>10. /\ s.life \in {"new", "dead"} <=> r.life \in {"new", "dead"}
       /\ s.closing = "done" <=> r.closing = "done"
       /\ s.drain = "gap" => r.drain = "gap"
  <2>1. Head(r.chain).op = "append" => r.life = "appending"
    <3>1. r.chain \in Seq(Ops)
      BY <1>1 DEF HandleRecord
    <3> QED BY <1>1, <3>1, PlacedFirst DEF HandleOK, OneAppend
  <2> QED BY <1>3, <1>4, <2>1
<1>11. s.cursor <= Len(disk'.log) + Len(s.recovered) /\ s.home = r.home
  BY <1>3, <1>4
<1> QED BY <1>2, <1>4, <1>5, <1>6, <1>7, <1>8, <1>9, <1>10, <1>11, ChainStep

(* A turn begins: refused, over at once, or on its way to its first write. *)
LEMMA TurnBeginsStep ==
  ASSUME IInv, NEW h \in Handles, TurnBegins(h)
  PROVE  IInv'
<1> DEFINE r == handle[h]
           op == Head(r.chain).op
           refused  == op # "drain" /\ r.closing # "open"
           finished == op = "flush" /\ r.materialized
<1>1. r \in HandleRecord /\ HandleOK(r) /\ r.chain \in Seq(Ops)
  <2>1. r \in HandleRecord /\ HandleOK(r)
    BY DEF IInv, TypeOK, AllOK
  <2>2. r.chain \in Seq(Ops)
    BY <2>1 DEF HandleRecord
  <2> QED BY <2>1, <2>2
<1>2. r.chain # <<>> /\ r.at = "idle" /\ ~(r.closing \in {"chain", "last"} /\ r.wait = 0)
  BY DEF TurnBegins
<1>3. /\ disk' \in [exists : BOOLEAN, log : Seq(Nat), torn : BOOLEAN, tail : Seq(Nat)] /\ Grows
      /\ UNCHANGED <<disk, lock, claim, failures, crashes>> /\ failures' \in 0 .. MaxFailures
  <2>1. UNCHANGED disk /\ UNCHANGED <<disk, lock, claim, failures, crashes>>
    BY DEF TurnBegins
  <2> QED BY <2>1, SameDisk DEF IInv, TypeOK
<1>4. CASE refused
  <2>1. handle' = [handle EXCEPT ![h] = Failed(handle[h])] /\ flusher' = Answered(h, FALSE)
    BY <1>4 DEF TurnBegins
  <2> QED BY <1>2, <1>3, <1>4, <2>1, OpFails
<1>5. CASE ~refused /\ finished
  <2> DEFINE t == [r EXCEPT !.materialized = TRUE, !.cursor = @ + Len(r.batch)]
  <2>1. handle' = [handle EXCEPT ![h] = Succeeded(r)] /\ flusher' = Answered(h, TRUE)
    BY <1>5 DEF TurnBegins
  <2>2. r.batch = <<>> /\ r.cursor \in Nat
    BY <1>1, <1>2 DEF HandleOK, Stage, HandleRecord
  <2>3. r.cursor + Len(r.batch) = r.cursor
    BY <2>2
  <2>4. t = r
    BY <1>1, <1>5, <2>3 DEF HandleRecord
  <2>5. t.cursor <= Len(disk'.log) + Len(t.recovered) /\ disk'.exists
    BY <1>3, <1>5, <2>4 DEF IInv, OnDisk
  <2>6. handle' = [handle EXCEPT ![h] = Succeeded(t)] /\ t \in HandleRecord
    BY <1>1, <2>1, <2>4
  <2>7. Written(handle[h], t)
    BY <1>1, <1>5, <2>3, <2>4 DEF Written
  <2>8. handle[h].at = "idle" /\ Head(handle[h].chain).op = "flush"
    BY <1>2, <1>5
  <2> HIDE DEF t
  <2> QED BY <1>2, <1>3, <2>1, <2>5, <2>6, <2>7, <2>8, OpSucceeds
<1>6. CASE ~refused /\ ~finished
  <2> DEFINE batch == CASE op = "drain" -> r.buffered
                        [] op = "append" -> <<r.next>>
                        [] OTHER -> <<>>
             buffered == IF op = "drain" THEN <<>> ELSE r.buffered
             taken == [r EXCEPT !.batch = batch, !.buffered = buffered]
             s == [taken EXCEPT !.at = NextWrite(r)]
  <2>1. handle' = [handle EXCEPT ![h] = s] /\ UNCHANGED flusher
    BY <1>6 DEF TurnBegins
  <2>2. batch \in Seq(Nat) /\ buffered \in Seq(Nat)
    <3>1. r.buffered \in Seq(Nat) /\ r.next \in Nat
      BY <1>1 DEF HandleRecord
    <3>2. <<r.next>> \in Seq(Nat) /\ <<>> \in Seq(Nat)
      BY <3>1
    <3> QED BY <3>1, <3>2
  <2>3. /\ batch = CASE op = "drain" -> r.buffered
                     [] op = "append" -> <<r.next>>
                     [] OTHER -> <<>>
        /\ buffered = IF op = "drain" THEN <<>> ELSE r.buffered
    OBVIOUS
  <2>4. NextWrite(r) \in Stages
    BY <1>1 DEF HandleRecord, NextWrite, Stages
  <2> HIDE DEF batch, buffered
  <2>5. s \in HandleRecord
    BY <1>1, <2>2, <2>4 DEF HandleRecord
  <2>6. /\ s.home = r.home /\ s.leased = r.leased /\ s.cursor = r.cursor /\ s.next = r.next
        /\ s.materialized = r.materialized /\ s.recovered = r.recovered /\ s.closing = r.closing
        /\ s.drain = r.drain /\ s.repair = r.repair /\ s.life = r.life /\ s.chain = r.chain
        /\ s.wait = r.wait /\ s.closeFailed = r.closeFailed
        /\ s.at = NextWrite(r) /\ s.batch = batch /\ s.buffered = buffered
    BY <1>1 DEF HandleRecord
  <2>7. op = "drain" \/ r.closing = "open"
    BY <1>6
  <2> HIDE DEF r, s
  <2>8. HandleOK(s)
    BY <1>1, <1>2, <2>3, <2>5, <2>6, <2>7, BeginsOK
  <2>9. r.next <= s.next
    BY <1>1, <2>6 DEF HandleRecord
  <2>10. UNCHANGED <<disk, lock, claim, flusher, failures, crashes>>
    BY <1>3, <2>1
  <2>11. s.closing \in {"release", "released", "done"} \/ r.closing \notin {"release", "released", "done"}
    BY <2>6
  <2> QED BY <2>1, <2>5, <2>6, <2>8, <2>9, <2>10, <2>11, MemoryStep DEF r
<1> QED BY <1>4, <1>5, <1>6
-----------------------------------------------------------------------------
(* The writes of an operation.                                             *)

(* An operation writes only what it has the lease for: the repair first. *)
LEMMA NextWriteIs ==
  ASSUME NEW r \in HandleRecord, r.leased
  PROVE  /\ NextWrite(r) \in {"truncate", "rewrite", "persist"}
         /\ NextWrite(r) \in {"truncate", "rewrite"} => r.repair = NextWrite(r)
         /\ NextWrite(r) = "persist" => r.repair = "none"
BY DEF NextWrite, HandleRecord

(* The lease is taken: the lock of the file is free. *)
LEMMA LeaseTakenStep ==
  ASSUME IInv, NEW h \in Handles, LeaseTaken(h)
  PROVE  IInv'
<1> DEFINE r == handle[h]
           t == [r EXCEPT !.leased = TRUE]
           at == NextWrite(t)
           s == [t EXCEPT !.at = at]
<1>1. r \in HandleRecord /\ HandleOK(r) /\ r.at = "lease" /\ lock = 0
  BY DEF IInv, TypeOK, AllOK, LeaseTaken
<1>2. handle' = [handle EXCEPT ![h] = s] /\ lock' = h
      /\ UNCHANGED <<disk, claim, flusher, failures, crashes>>
  BY DEF LeaseTaken
<1>3. t \in HandleRecord /\ t.leased /\ t.repair = r.repair
  BY <1>1 DEF HandleRecord
<1> HIDE DEF t
<1>4. /\ at \in {"truncate", "rewrite", "persist"}
      /\ at \in {"truncate", "rewrite"} => t.repair = at
      /\ at = "persist" => t.repair = "none"
  BY <1>3, NextWriteIs
<1> HIDE DEF at
<1>5. s \in HandleRecord
  BY <1>3, <1>4 DEF HandleRecord, Stages
<1>6. /\ s.life = t.life /\ s.cursor = t.cursor /\ s.materialized = t.materialized
      /\ s.buffered = t.buffered /\ s.batch = t.batch /\ s.drain = t.drain /\ s.chain = t.chain
      /\ s.closing = t.closing /\ s.wait = t.wait /\ s.closeFailed = t.closeFailed
      /\ s.next = t.next /\ s.home = t.home /\ s.repair = t.repair /\ s.recovered = t.recovered
      /\ s.leased = t.leased /\ s.at = at
  BY <1>3 DEF HandleRecord
<1>7. /\ t.life = r.life /\ t.cursor = r.cursor /\ t.materialized = r.materialized
      /\ t.buffered = r.buffered /\ t.batch = r.batch /\ t.drain = r.drain /\ t.chain = r.chain
      /\ t.closing = r.closing /\ t.wait = r.wait /\ t.closeFailed = r.closeFailed
      /\ t.next = r.next /\ t.home = r.home /\ t.repair = r.repair /\ t.recovered = r.recovered
  BY <1>1 DEF HandleRecord, t
<1> HIDE DEF s
<1>8. s.repair = "none" => s.recovered = <<>>
  BY <1>1, <1>6, <1>7 DEF HandleOK, Stage
<1>9. HandleOK(s)
  <2> HIDE DEF r
  <2>1. /\ s.life = r.life /\ s.cursor = r.cursor /\ s.materialized = r.materialized
        /\ s.buffered = r.buffered /\ s.batch = r.batch /\ s.drain = r.drain /\ s.chain = r.chain
        /\ s.closing = r.closing /\ s.wait = r.wait /\ s.closeFailed = r.closeFailed
        /\ s.next = r.next /\ s.leased
    BY <1>3, <1>6, <1>7
  <2>2. /\ s.at \in {"truncate", "rewrite", "persist"}
        /\ s.at \in {"truncate", "rewrite"} => s.repair = s.at
        /\ s.at = "persist" => s.repair = "none"
    BY <1>4, <1>6
  <2>3. s.repair # "none" => r.repair # "none"
    BY <1>6, <1>7
  <2> QED BY <1>1, <1>5, <1>8, <2>1, <2>2, <2>3, StepsOK
<1>10. Owned'
  <2>1. handle'[h] = s /\ \A g \in Handles : g # h => handle'[g] = handle[g]
    BY <1>2, <1>5, <1>9, HandleFrame DEF IInv
  <2>2. \A g \in Handles : g # 0
    BY DEF Handles
  <2> QED BY <1>1, <1>2, <2>1, <2>2 DEF IInv, Owned
<1>11. lock' \in 0 .. NumHandles
  BY <1>2 DEF Handles
<1>12. disk' \in [exists : BOOLEAN, log : Seq(Nat), torn : BOOLEAN, tail : Seq(Nat)] /\ Grows
  BY <1>2, SameDisk DEF IInv
<1>13. s.cursor <= Len(disk'.log) + Len(s.recovered) /\ (s.materialized => disk'.exists)
  BY <1>2, <1>6, <1>7 DEF IInv, OnDisk
<1> QED BY <1>2, <1>5, <1>6, <1>7, <1>9, <1>10, <1>11, <1>12, <1>13, WriteStep

(* The torn tail is cut off. *)
LEMMA TruncatedStep ==
  ASSUME IInv, NEW h \in Handles, Truncated(h)
  PROVE  IInv'
<1> DEFINE r == handle[h]
           repair == IF r.recovered = <<>> THEN "none" ELSE "rewrite"
           t == [r EXCEPT !.repair = repair]
           at == NextWrite(t)
           s == [t EXCEPT !.at = at]
<1>1. r \in HandleRecord /\ HandleOK(r) /\ r.at = "truncate"
  BY DEF IInv, TypeOK, AllOK, Truncated
<1>2. /\ handle' = [handle EXCEPT ![h] = s] /\ disk' = [disk EXCEPT !.torn = FALSE, !.tail = <<>>]
      /\ UNCHANGED <<lock, claim, flusher, failures, crashes>>
  BY DEF Truncated
<1>3. repair \in {"none", "rewrite"} /\ (repair = "none" => r.recovered = <<>>)
  OBVIOUS
<1> HIDE DEF repair
<1>4. t \in HandleRecord /\ t.leased /\ t.repair = repair
  BY <1>1, <1>3 DEF HandleRecord, HandleOK, Stage
<1>5. /\ t.life = r.life /\ t.cursor = r.cursor /\ t.materialized = r.materialized
      /\ t.buffered = r.buffered /\ t.batch = r.batch /\ t.drain = r.drain /\ t.chain = r.chain
      /\ t.closing = r.closing /\ t.wait = r.wait /\ t.closeFailed = r.closeFailed
      /\ t.next = r.next /\ t.home = r.home /\ t.leased = r.leased /\ t.recovered = r.recovered
  BY <1>1 DEF HandleRecord
<1> HIDE DEF t
<1>6. /\ at \in {"truncate", "rewrite", "persist"}
      /\ at \in {"truncate", "rewrite"} => t.repair = at
      /\ at = "persist" => t.repair = "none"
  BY <1>4, NextWriteIs
<1> HIDE DEF at
<1>7. s \in HandleRecord
  BY <1>4, <1>6 DEF HandleRecord, Stages
<1>8. /\ s.life = t.life /\ s.cursor = t.cursor /\ s.materialized = t.materialized
      /\ s.buffered = t.buffered /\ s.batch = t.batch /\ s.drain = t.drain /\ s.chain = t.chain
      /\ s.closing = t.closing /\ s.wait = t.wait /\ s.closeFailed = t.closeFailed
      /\ s.next = t.next /\ s.home = t.home /\ s.repair = t.repair /\ s.recovered = t.recovered
      /\ s.leased = t.leased /\ s.at = at
  BY <1>4 DEF HandleRecord
<1> HIDE DEF s
<1>9. r.repair = "truncate"
  BY <1>1 DEF HandleOK, Stage
<1>10. HandleOK(s)
  <2> HIDE DEF r
  <2>1. /\ s.life = r.life /\ s.cursor = r.cursor /\ s.materialized = r.materialized
        /\ s.buffered = r.buffered /\ s.batch = r.batch /\ s.drain = r.drain /\ s.chain = r.chain
        /\ s.closing = r.closing /\ s.wait = r.wait /\ s.closeFailed = r.closeFailed
        /\ s.next = r.next /\ s.leased
    BY <1>4, <1>5, <1>8
  <2>2. /\ s.at \in {"truncate", "rewrite", "persist"}
        /\ s.at \in {"truncate", "rewrite"} => s.repair = s.at
        /\ s.at = "persist" => s.repair = "none"
    BY <1>4, <1>6, <1>8
  <2>3. (s.repair # "none" => r.repair # "none") /\ (s.repair = "none" => s.recovered = <<>>)
    BY <1>3, <1>4, <1>5, <1>8, <1>9
  <2> QED BY <1>1, <1>7, <2>1, <2>2, <2>3, StepsOK
<1>11. Owned'
  <2>1. handle'[h] = s /\ \A g \in Handles : g # h => handle'[g] = handle[g]
    BY <1>2, <1>7, <1>10, HandleFrame DEF IInv
  <2> QED BY <1>2, <1>5, <1>8, <2>1, OwnFrame DEF IInv
<1>12. lock' \in 0 .. NumHandles
  BY <1>2 DEF IInv, TypeOK
<1>13. /\ disk' \in [exists : BOOLEAN, log : Seq(Nat), torn : BOOLEAN, tail : Seq(Nat)]
       /\ disk'.log = disk.log /\ disk'.exists = disk.exists /\ ~disk'.torn /\ disk'.tail = <<>>
  <2>1. disk \in [exists : BOOLEAN, log : Seq(Nat), torn : BOOLEAN, tail : Seq(Nat)]
    BY DEF IInv, TypeOK
  <2>2. <<>> \in Seq(Nat) /\ disk' = [disk EXCEPT !.torn = FALSE, !.tail = <<>>]
    BY <1>2
  <2> QED BY <2>1, <2>2
<1>14. Grows
  <2>1. Len(disk.log) \in Nat
    BY DEF IInv, TypeOK
  <2> QED BY <1>13, <2>1 DEF IInv, OnDisk, Grows
<1>15. s.cursor <= Len(disk'.log) + Len(s.recovered) /\ (s.materialized => disk'.exists)
  BY <1>5, <1>8, <1>13 DEF IInv, OnDisk
<1> QED BY <1>2, <1>5, <1>7, <1>8, <1>10, <1>11, <1>12, <1>13, <1>14, <1>15, WriteStep

(* The file with events after what it has. *)
LEMMA Longer2 ==
  ASSUME NEW a \in Seq(Nat), NEW b \in Seq(Nat)
  PROVE  /\ a \o b \in Seq(Nat) /\ Len(a \o b) = Len(a) + Len(b)
         /\ Len(a) \in Nat /\ Len(b) \in Nat /\ Len(a) <= Len(a \o b)
<1>1. /\ a \o b \in Seq(Nat) /\ Len(a \o b) = Len(a) + Len(b) /\ Len(a) \in Nat /\ Len(b) \in Nat
  OBVIOUS
<1> QED BY <1>1

(* The torn tail is cut off and what was read of it is written again. *)
LEMMA RewrittenStep ==
  ASSUME IInv, NEW h \in Handles, Rewritten(h)
  PROVE  IInv'
<1> DEFINE r == handle[h]
           s == [r EXCEPT !.repair = "none", !.recovered = <<>>, !.at = "persist"]
<1>1. r \in HandleRecord /\ HandleOK(r) /\ r.at = "rewrite"
  BY DEF IInv, TypeOK, AllOK, Rewritten
<1>2. /\ handle' = [handle EXCEPT ![h] = s] /\ disk' = [disk EXCEPT !.log = @ \o r.recovered]
      /\ UNCHANGED <<lock, claim, flusher, failures, crashes>>
  <2>1. handle \in [Handles -> HandleRecord] /\ handle[h] = r
    BY DEF IInv, TypeOK
  <2>2. /\ disk' = [disk EXCEPT !.log = @ \o r.recovered]
        /\ UNCHANGED <<lock, claim, flusher, failures, crashes>>
        /\ handle' = [handle EXCEPT ![h].repair = "none", ![h].recovered = <<>>, ![h].at = "persist"]
    BY DEF Rewritten
  <2> HIDE DEF r
  <2>3. handle' = [handle EXCEPT ![h] = s]
    <3>1. \A g \in Handles : handle'[g] = IF g = h THEN s ELSE handle[g]
      BY <1>1, <2>1, <2>2 DEF HandleRecord
    <3> QED BY <2>1, <2>2, <3>1
  <2> QED BY <2>2, <2>3
<1>3. s \in HandleRecord
  <2>1. <<>> \in Seq(Nat) /\ "persist" \in Stages
    BY DEF Stages
  <2>2. r \in HandleRecord
    BY <1>1
  <2> HIDE DEF r
  <2> QED BY <2>1, <2>2 DEF HandleRecord
<1>4. /\ s.life = r.life /\ s.cursor = r.cursor /\ s.materialized = r.materialized
      /\ s.buffered = r.buffered /\ s.batch = r.batch /\ s.drain = r.drain /\ s.chain = r.chain
      /\ s.closing = r.closing /\ s.wait = r.wait /\ s.closeFailed = r.closeFailed
      /\ s.next = r.next /\ s.home = r.home /\ s.leased = r.leased
      /\ s.repair = "none" /\ s.recovered = <<>> /\ s.at = "persist"
  BY <1>1 DEF HandleRecord
<1>5. r.leased /\ r.materialized /\ r.recovered \in Seq(Nat) /\ r.cursor \in Nat
  BY <1>1 DEF HandleOK, Stage, HandleRecord
<1> HIDE DEF s
<1>6. HandleOK(s)
  <2> HIDE DEF r
  <2> QED BY <1>1, <1>3, <1>4, <1>5, StepsOK
<1>7. Owned'
  <2>1. handle'[h] = s /\ \A g \in Handles : g # h => handle'[g] = handle[g]
    BY <1>2, <1>3, <1>6, HandleFrame DEF IInv
  <2> QED BY <1>2, <1>4, <2>1, OwnFrame DEF IInv
<1>8. lock' \in 0 .. NumHandles
  BY <1>2 DEF IInv, TypeOK
<1>9. /\ disk.log \in Seq(Nat) /\ disk.exists
      /\ r.cursor <= Len(disk.log) + Len(r.recovered)
  BY <1>5 DEF IInv, TypeOK, OnDisk
<1>10. /\ disk.log \o r.recovered \in Seq(Nat)
       /\ Len(disk.log \o r.recovered) = Len(disk.log) + Len(r.recovered)
       /\ Len(disk.log) <= Len(disk.log \o r.recovered) /\ Len(disk.log) \in Nat /\ Len(r.recovered) \in Nat
  BY <1>5, <1>9, Longer2
<1>11. /\ disk' \in [exists : BOOLEAN, log : Seq(Nat), torn : BOOLEAN, tail : Seq(Nat)]
       /\ disk'.log = disk.log \o r.recovered /\ disk'.exists = disk.exists
       /\ disk'.torn = disk.torn /\ disk'.tail = disk.tail
  <2> DEFINE log == disk.log \o r.recovered
  <2>1. log \in Seq(Nat)
    BY <1>10
  <2>2. disk' = [disk EXCEPT !.log = log]
    BY <1>2
  <2> HIDE DEF log
  <2>3. /\ disk' \in [exists : BOOLEAN, log : Seq(Nat), torn : BOOLEAN, tail : Seq(Nat)]
        /\ disk'.log = log /\ disk'.exists = disk.exists
        /\ disk'.torn = disk.torn /\ disk'.tail = disk.tail
    BY <2>1, <2>2 DEF IInv, TypeOK
  <2> QED BY <2>3 DEF log
<1>12. Grows
  BY <1>9, <1>10, <1>11 DEF IInv, OnDisk, Grows
<1>13. s.cursor <= Len(disk'.log) + Len(s.recovered) /\ (s.materialized => disk'.exists)
  <2>1. Len(disk'.log) = Len(disk.log) + Len(r.recovered) /\ Len(s.recovered) = 0
    BY <1>4, <1>10, <1>11
  <2> DEFINE n == Len(disk.log)  m == Len(r.recovered)
  <2>2. n \in Nat /\ m \in Nat /\ s.cursor \in Nat /\ s.cursor <= n + m
    BY <1>4, <1>5, <1>9, <1>10
  <2>3. Len(disk'.log) = n + m
    BY <2>1
  <2> HIDE DEF n, m
  <2>4. s.cursor <= (n + m) + 0
    BY <2>2
  <2> QED BY <1>4, <1>9, <1>11, <2>1, <2>3, <2>4
<1> QED BY <1>2, <1>3, <1>4, <1>6, <1>7, <1>8, <1>11, <1>12, <1>13, WriteStep

(* The batch is appended. *)
LEMMA PersistedStep ==
  ASSUME IInv, NEW h \in Handles, Persisted(h)
  PROVE  IInv'
<1> DEFINE r == handle[h]
           cursor == r.cursor + Len(r.batch)
           t == [r EXCEPT !.materialized = TRUE, !.cursor = cursor]
<1>1. r \in HandleRecord /\ HandleOK(r) /\ r.at = "persist" /\ r.chain # <<>>
  BY DEF IInv, TypeOK, AllOK, HandleOK, Stage, Persisted
<1>2. /\ r.batch \in Seq(Nat) /\ r.cursor \in Nat /\ r.repair = "none" /\ r.recovered = <<>>
  BY <1>1 DEF HandleOK, Stage, HandleRecord
<1>3. /\ handle' = [handle EXCEPT ![h] = Succeeded(t)] /\ flusher' = Answered(h, TRUE)
      /\ disk' = [disk EXCEPT !.exists = TRUE, !.log = @ \o r.batch]
      /\ UNCHANGED <<lock, claim, failures, crashes>>
  BY DEF Persisted
<1>4. /\ disk \in [exists : BOOLEAN, log : Seq(Nat), torn : BOOLEAN, tail : Seq(Nat)]
      /\ disk.log \in Seq(Nat) /\ r.cursor <= Len(disk.log) + Len(r.recovered)
  BY DEF IInv, TypeOK, OnDisk
<1>5. /\ disk.log \o r.batch \in Seq(Nat) /\ Len(disk.log \o r.batch) = Len(disk.log) + Len(r.batch)
      /\ Len(disk.log) \in Nat /\ Len(r.batch) \in Nat /\ Len(disk.log) <= Len(disk.log \o r.batch)
  BY <1>2, <1>4, Longer2
<1>6. cursor \in Nat /\ cursor = r.cursor + Len(r.batch)
  BY <1>2, <1>5
<1> HIDE DEF cursor
<1>7. t \in HandleRecord
  BY <1>1, <1>6 DEF HandleRecord
<1>8. Written(r, t)
  BY <1>1, <1>6 DEF HandleRecord, Written
<1> HIDE DEF t
<1>9. /\ disk' \in [exists : BOOLEAN, log : Seq(Nat), torn : BOOLEAN, tail : Seq(Nat)]
      /\ disk'.log = disk.log \o r.batch /\ disk'.exists
      /\ disk'.torn = disk.torn /\ disk'.tail = disk.tail
  <2> DEFINE log == disk.log \o r.batch
  <2>1. log \in Seq(Nat) /\ disk' = [disk EXCEPT !.exists = TRUE, !.log = log]
    BY <1>3, <1>5
  <2> HIDE DEF log
  <2>2. /\ disk' \in [exists : BOOLEAN, log : Seq(Nat), torn : BOOLEAN, tail : Seq(Nat)]
        /\ disk'.log = log /\ disk'.exists
        /\ disk'.torn = disk.torn /\ disk'.tail = disk.tail
    BY <1>4, <2>1
  <2> QED BY <2>2 DEF log
<1>10. Grows
  BY <1>5, <1>9 DEF IInv, OnDisk, Grows
<1>11. t.cursor <= Len(disk'.log) + Len(t.recovered)
  <2> DEFINE n == Len(disk.log)  m == Len(r.batch)
  <2>1. n \in Nat /\ m \in Nat /\ r.cursor \in Nat /\ r.cursor <= n + 0
    <3>1. Len(r.recovered) = 0
      BY <1>2
    <3> QED BY <1>2, <1>4, <1>5, <3>1
  <2>2. t.cursor = r.cursor + m /\ Len(disk'.log) = n + m /\ Len(t.recovered) = 0
    <3>1. t.recovered = <<>> /\ t.cursor = r.cursor + m
      BY <1>2, <1>8 DEF Written
    <3> QED BY <1>5, <1>9, <3>1
  <2> HIDE DEF n, m
  <2>3. r.cursor + m <= (n + m) + 0
    BY <2>1
  <2> QED BY <2>2, <2>3
<1> QED BY <1>1, <1>3, <1>7, <1>8, <1>9, <1>10, <1>11, OpSucceeds

(* A write fails and leaves the file as it was. *)
LEMMA WriteFailsStep ==
  ASSUME IInv, NEW h \in Handles, WriteFails(h)
  PROVE  IInv'
<1>1. /\ handle[h].at # "idle" /\ handle' = [handle EXCEPT ![h] = Failed(handle[h])]
      /\ flusher' = Answered(h, FALSE) /\ UNCHANGED <<disk, lock, claim, crashes>>
  BY DEF WriteFails
<1>2. handle[h].chain # <<>>
  BY <1>1 DEF IInv, AllOK, HandleOK, Stage
<1>3. failures' \in 0 .. MaxFailures
  <2>1. failures \in 0 .. MaxFailures
    BY DEF IInv, TypeOK
  <2>2. UNCHANGED failures \/ (failures < MaxFailures /\ failures' = failures + 1)
    BY DEF WriteFails
  <2> QED BY <2>1, <2>2, StorageAssumption
<1>4. disk' \in [exists : BOOLEAN, log : Seq(Nat), torn : BOOLEAN, tail : Seq(Nat)] /\ Grows
  BY <1>1, SameDisk DEF IInv
<1> QED BY <1>1, <1>2, <1>3, <1>4, OpFails

(* A new file is published and its sync fails. *)
LEMMA PublishedUnsyncedStep ==
  ASSUME IInv, NEW h \in Handles, PublishedUnsynced(h)
  PROVE  IInv'
<1> DEFINE r == handle[h]
<1>1. /\ r.at = "persist" /\ handle' = [handle EXCEPT ![h] = Failed(handle[h])]
      /\ flusher' = Answered(h, FALSE) /\ UNCHANGED <<lock, claim, crashes>>
      /\ disk' = [disk EXCEPT !.exists = TRUE, !.log = r.batch]
      /\ ~disk.exists
  BY DEF PublishedUnsynced, CanPersist
<1>2. r.chain # <<>> /\ r.batch \in Seq(Nat)
  BY <1>1 DEF IInv, AllOK, HandleOK, Stage, TypeOK, HandleRecord
<1>3. failures' \in 0 .. MaxFailures
  <2>1. failures \in 0 .. MaxFailures /\ failures < MaxFailures /\ failures' = failures + 1
    BY DEF IInv, TypeOK, PublishedUnsynced
  <2> QED BY <2>1, StorageAssumption
<1>4. /\ disk' \in [exists : BOOLEAN, log : Seq(Nat), torn : BOOLEAN, tail : Seq(Nat)]
      /\ disk'.log = r.batch /\ disk'.exists /\ disk'.torn = disk.torn /\ disk'.tail = disk.tail
  <2>1. disk \in [exists : BOOLEAN, log : Seq(Nat), torn : BOOLEAN, tail : Seq(Nat)]
    BY DEF IInv, TypeOK
  <2> QED BY <1>1, <1>2, <2>1
<1>5. Grows
  <2>1. Len(disk.log) = 0 /\ Len(r.batch) \in Nat
    BY <1>1, <1>2 DEF IInv, OnDisk
  <2> QED BY <1>4, <2>1 DEF IInv, OnDisk, Grows
<1> QED BY <1>1, <1>2, <1>3, <1>4, <1>5, OpFails

-----------------------------------------------------------------------------
(* Callers.                                                                *)

(* The step of a handle in memory that callers await, begin to await or go *)
(* on from.                                                                *)
LEMMA CallerStep ==
  ASSUME IInv, NEW h \in Handles, NEW s \in HandleRecord, HandleOK(s),
         handle' = [handle EXCEPT ![h] = s],
         UNCHANGED <<disk, lock, claim, failures, crashes>>,
         flusher' \in [Flushers -> [at : Asked, on : 0 .. NumHandles, mark : Nat, late : BOOLEAN]],
         \A f \in Flushers : Waiting(f)', Barriers',
         \A f \in Flushers : flusher'[f] = flusher[f] \/ flusher'[f].at # "returned",
         s.home = handle[h].home, s.leased = handle[h].leased,
         s.cursor = handle[h].cursor, s.materialized = handle[h].materialized,
         s.recovered = handle[h].recovered,
         s.life \in {"new", "dead"} <=> handle[h].life \in {"new", "dead"},
         s.closing = "done" <=> handle[h].closing = "done",
         s.closing \in {"release", "released", "done"}
           \/ handle[h].closing \notin {"release", "released", "done"}
  PROVE  IInv'
<1> USE DEF IInv
<1>1. /\ handle' \in [Handles -> HandleRecord] /\ AllOK' /\ handle'[h] = s
      /\ \A g \in Handles : g # h => handle'[g] = handle[g]
  BY HandleFrame
<1>2. TypeOK'
  BY <1>1 DEF TypeOK
<1>3. Claimed'
  BY <1>1, ClaimFrame
<1>4. Owned'
  BY <1>1, OwnFrame
<1>5. Grows /\ disk' \in [exists : BOOLEAN, log : Seq(Nat), torn : BOOLEAN, tail : Seq(Nat)]
  BY SameDisk
<1>6. OnDisk'
  <2>1. s.cursor <= Len(disk'.log) + Len(s.recovered) /\ (s.materialized => disk'.exists)
    BY DEF OnDisk
  <2> QED BY <1>1, <1>5, <2>1, DiskFrame
<1>7. FlushedIsDurable'
  <2>1. disk'.log \in Seq(Nat)
    BY DEF TypeOK
  <2> QED BY <1>5, <2>1, DurableFrame
<1> QED BY <1>1, <1>2, <1>3, <1>4, <1>6, <1>7

(* A caller asks: it drains the writer its process has. *)
LEMMA FlushStep ==
  ASSUME IInv, NEW f \in Flushers, NEW p \in Procs, Flush(f, p)
  PROVE  IInv'
<1> DEFINE h == claim[p]
           r == handle[h]
           s == DrainLive(r)
           c == [at |-> "drain", on |-> h, mark |-> r.next, late |-> r.drain = "gap"]
<1>1. h \in Handles /\ h # 0 /\ Alive(h)
  <2>1. h \in 0 .. NumHandles /\ h # 0
    BY DEF IInv, TypeOK, Flush
  <2> QED BY <2>1, StorageAssumption DEF IInv, Claimed, Handles
<1>2. r \in HandleRecord /\ HandleOK(r)
  BY <1>1 DEF IInv, TypeOK, AllOK
<1>3. /\ handle' = [handle EXCEPT ![h] = s] /\ flusher' = [flusher EXCEPT ![f] = c]
      /\ UNCHANGED <<disk, lock, claim, failures, crashes>>
      /\ flusher[f].at \in {"idle", "returned", "rejected"}
  BY <1>1 DEF Flush, IInv, TypeOK
<1> HIDE DEF s
<1>4. /\ s \in HandleRecord /\ HandleOK(s) /\ SameFields(r, s) /\ SameFlushes(r, s)
      /\ s.drain = "gap" => r.drain = "gap" \/ s.cursor = s.next
  BY <1>2, DrainLives DEF s
<1>5. /\ r.next \in Nat /\ r.cursor \in Nat /\ s.next = r.next /\ s.cursor = r.cursor
      /\ s.life = r.life
  BY <1>2, <1>4 DEF HandleRecord, SameFields
<1>6. /\ c \in [at : Asked, on : 0 .. NumHandles, mark : Nat, late : BOOLEAN]
      /\ c.at = "drain" /\ c.on = h /\ c.mark = r.next /\ c.late = (r.drain = "gap")
  BY <1>1, <1>5 DEF Asked, Handles
<1> HIDE DEF c
<1>7. /\ flusher' \in [Flushers -> [at : Asked, on : 0 .. NumHandles, mark : Nat, late : BOOLEAN]]
      /\ flusher'[f] = c /\ \A e \in Flushers : e # f => flusher'[e] = flusher[e]
  BY <1>3, <1>6 DEF IInv, TypeOK
<1> HIDE DEF h, r
<1>8. /\ handle'[h] = s /\ \A g \in Handles : g # h => handle'[g] = handle[g]
  BY <1>1, <1>3, <1>4, HandleFrame DEF IInv
<1>9. Waiting(f)'
  <2>1. s.drain = "gap" /\ ~c.late => c.mark <= s.cursor
    BY <1>4, <1>5, <1>6
  <2>2. c.mark <= s.next /\ c.mark \in Nat
    BY <1>5, <1>6
  <2>3. s.life \notin {"new", "dead"}
    BY <1>1, <1>5 DEF Alive, r
  <2> QED BY <1>1, <1>6, <1>7, <1>8, <2>1, <2>2, <2>3 DEF Waiting, Alive
<1>10. ASSUME NEW e \in Flushers PROVE Waiting(e)'
  <2>1. CASE e = f
    BY <1>9, <2>1
  <2>2. CASE e # f
    <3>1. flusher'[e] = flusher[e] /\ Waiting(e)
      BY <1>7, <2>2 DEF IInv
    <3>2. r.next <= s.next /\ r.cursor <= s.cursor
      BY <1>5
    <3> QED BY <1>1, <1>4, <1>5, <1>8, <3>1, <3>2, WaitOne DEF IInv, r
  <2> QED BY <2>1, <2>2
<1>11. ASSUME NEW g \in Handles PROVE InChain(g)'
  <2>1. InChain(g)
    BY DEF IInv, Barriers
  <2>2. \A i \in Places(handle[g].chain, "flush") : handle[g].chain[i].by # f
    BY <1>3, <2>1 DEF InChain, Awaits
  <2>3. /\ \A i \in Places(handle[g].chain, "flush") : Awaits(handle[g].chain[i].by, g)
        /\ \A i, j \in Places(handle[g].chain, "flush") :
             handle[g].chain[i].by = handle[g].chain[j].by => i = j
    BY <2>1 DEF InChain
  <2>4. \A i \in Places(handle[g].chain, "flush") :
          /\ handle[g].chain[i].by \in Flushers
          /\ flusher'[handle[g].chain[i].by].at = "barrier"
          /\ flusher'[handle[g].chain[i].by].on = g
    BY <1>7, <2>2, <2>3 DEF Awaits
  <2>5. CASE g # h
    BY <1>8, <2>3, <2>4, <2>5 DEF InChain, Awaits
  <2>6. CASE g = h
    <3>1. /\ Places(s.chain, "flush") = Places(handle[g].chain, "flush")
          /\ \A i \in Places(s.chain, "flush") : s.chain[i].by = handle[g].chain[i].by
      BY <1>4, <2>6 DEF SameFlushes, r
    <3>2. handle'[g].chain = s.chain
      BY <1>8, <2>6
    <3> QED BY <2>3, <2>4, <3>1, <3>2 DEF InChain, Awaits
  <2> QED BY <2>5, <2>6
<1>12. Barriers'
  BY <1>11 DEF Barriers
<1>13. \A e \in Flushers : flusher'[e] = flusher[e] \/ flusher'[e].at # "returned"
  BY <1>6, <1>7
<1> QED BY <1>1, <1>3, <1>4, <1>7, <1>10, <1>12, <1>13, CallerStep DEF SameFields, r

(* The caller's drain is over: a turn of the chain, or the handle refuses. *)
LEMMA BarrierStep ==
  ASSUME IInv, NEW f \in Flushers, Barrier(f)
  PROVE  IInv'
<1> DEFINE h == flusher[f].on
           r == handle[h]
           F == [at : Asked, on : 0 .. NumHandles, mark : Nat, late : BOOLEAN]
<1>1. /\ flusher[f].at = "ready" /\ UNCHANGED <<disk, lock, claim, failures, crashes>>
      /\ flusher \in [Flushers -> F] /\ flusher[f] \in F /\ Waiting(f)
  BY DEF IInv, TypeOK, Barrier
<1>2. h \in Handles
  BY <1>1, StorageAssumption DEF Waiting, Handles
<1>3. r \in HandleRecord /\ HandleOK(r) /\ handle \in [Handles -> HandleRecord]
  BY <1>2 DEF IInv, TypeOK, AllOK
<1>4. CASE r.closing # "open"
  <2>1. flusher' = [flusher EXCEPT ![f].at = "rejected"] /\ UNCHANGED handle
    BY <1>4 DEF Barrier
  <2>2. /\ flusher' \in [Flushers -> F] /\ flusher'[f].at = "rejected"
        /\ \A e \in Flushers : e # f => flusher'[e] = flusher[e]
    BY <1>1, <2>1 DEF Asked
  <2>3. TypeOK'
    BY <1>1, <2>1, <2>2 DEF IInv, TypeOK
  <2>4. AllOK' /\ Claimed' /\ Owned' /\ OnDisk'
    BY <1>1, <2>1 DEF IInv, AllOK, Claimed, Owned, OnDisk, Alive
  <2>5. \A e \in Flushers : Waiting(e)'
    BY <2>1, <2>2 DEF IInv, Waiting, Alive
  <2>6. Barriers'
    <3>1. ASSUME NEW g \in Handles PROVE InChain(g)'
      <4>1. InChain(g)
        BY DEF IInv, Barriers
      <4> QED BY <1>1, <2>1, <2>2, <4>1 DEF InChain, Awaits
    <3> QED BY <3>1 DEF Barriers
  <2>7. FlushedIsDurable'
    BY <1>1, <2>2 DEF IInv, FlushedIsDurable
  <2> QED BY <2>3, <2>4, <2>5, <2>6, <2>7 DEF IInv
<1>5. CASE r.closing = "open"
  <2> DEFINE o == Op("flush", f)
             s == [r EXCEPT !.chain = Append(@, o)]
             c == [flusher[f] EXCEPT !.at = "barrier"]
  <2>1. o \in Ops /\ o.op = "flush" /\ o.by = f
    BY DEF Op, Ops
  <2>2. handle' = [handle EXCEPT ![h] = s] /\ flusher' = [flusher EXCEPT ![f] = c]
    BY <1>1, <1>2, <1>3, <1>5 DEF Barrier
  <2>3. c \in F /\ c.at = "barrier" /\ c.on = h /\ c.mark = flusher[f].mark /\ c.late = flusher[f].late
    BY <1>1 DEF Asked
  <2>4. r.chain \in Seq(Ops)
    BY <1>3 DEF HandleRecord
  <2> HIDE DEF o, c
  <2>5. Append(r.chain, o) \in Seq(Ops)
    BY <2>1, <2>4
  <2>6. s \in HandleRecord
    BY <1>3, <2>5 DEF HandleRecord
  <2>7. /\ s.life = r.life /\ s.leased = r.leased /\ s.cursor = r.cursor /\ s.materialized = r.materialized
        /\ s.repair = r.repair /\ s.recovered = r.recovered /\ s.buffered = r.buffered
        /\ s.batch = r.batch /\ s.drain = r.drain /\ s.at = r.at /\ s.closing = r.closing
        /\ s.wait = r.wait /\ s.closeFailed = r.closeFailed /\ s.next = r.next /\ s.home = r.home
        /\ s.chain = Append(r.chain, o)
    BY <1>3 DEF HandleRecord
  <2> HIDE DEF s
  <2>8. HandleOK(s)
    <3>1. s.chain = Append(r.chain, Op("flush", f))
      BY <2>7 DEF o
    <3> HIDE DEF r
    <3> QED BY <1>3, <2>6, <2>7, <3>1, QueuesFlushOK
  <2>9. /\ handle'[h] = s /\ \A g \in Handles : g # h => handle'[g] = handle[g]
    BY <1>2, <1>3, <2>2
  <2>10. /\ flusher' \in [Flushers -> F] /\ flusher'[f] = c
         /\ \A e \in Flushers : e # f => flusher'[e] = flusher[e]
    BY <1>1, <2>2, <2>3
  <2>11. ASSUME NEW e \in Flushers PROVE Waiting(e)'
    <3>1. CASE e = f
      <4>1. Alive(h) /\ h # 0 /\ (~c.late => c.mark <= s.cursor)
        BY <1>1, <2>3, <2>7 DEF Waiting
      <4>2. s.life \notin {"new", "dead"}
        BY <4>1, <2>7 DEF Alive
      <4> HIDE DEF h
      <4> QED BY <3>1, <4>1, <4>2, <2>3, <2>9, <2>10 DEF Waiting, Alive
    <3>2. CASE e # f
      <4>1. flusher'[e] = flusher[e] /\ Waiting(e)
        BY <2>10, <3>2 DEF IInv
      <4>2. r.next <= s.next /\ r.cursor <= s.cursor
        <5>1. r.next \in Nat /\ r.cursor \in Nat
          BY <1>3 DEF HandleRecord
        <5> HIDE DEF r
        <5> QED BY <5>1, <2>7
      <4> QED BY <1>2, <2>6, <2>7, <2>9, <4>1, <4>2, WaitOne DEF IInv
    <3> QED BY <3>1, <3>2
  <2>12. ASSUME NEW g \in Handles PROVE InChain(g)'
    <3>1. /\ \A i \in Places(handle[g].chain, "flush") : Awaits(handle[g].chain[i].by, g)
          /\ \A i, j \in Places(handle[g].chain, "flush") :
               handle[g].chain[i].by = handle[g].chain[j].by => i = j
      BY DEF IInv, Barriers, InChain
    <3>2. \A i \in Places(handle[g].chain, "flush") : handle[g].chain[i].by # f
      BY <1>1, <3>1 DEF Awaits
    <3>3. \A i \in Places(handle[g].chain, "flush") :
            /\ handle[g].chain[i].by \in Flushers
            /\ flusher'[handle[g].chain[i].by].at = "barrier"
            /\ flusher'[handle[g].chain[i].by].on = g
      BY <2>10, <3>1, <3>2 DEF Awaits
    <3>4. CASE g # h
      BY <2>9, <3>1, <3>3, <3>4 DEF InChain, Awaits
    <3>5. CASE g = h
      <4> DEFINE n == Len(r.chain) + 1
      <4>1. Places(s.chain, "flush") = Places(r.chain, "flush") \cup {n}
        BY <2>1, <2>4, <2>7, PlacedLast
      <4>2. /\ \A i \in Places(r.chain, "flush") : s.chain[i] = r.chain[i]
            /\ s.chain[n] = o
        <5> HIDE DEF r
        <5>1. \A i \in DOMAIN r.chain : Append(r.chain, o)[i] = r.chain[i]
          BY <2>1, <2>4
        <5>2. Append(r.chain, o)[n] = o
          BY <2>1, <2>4
        <5> QED BY <2>7, <5>1, <5>2 DEF Places
      <4>3. handle'[g].chain = s.chain
        BY <2>9, <3>5
      <4> HIDE DEF n
      <4>4. \A i \in Places(s.chain, "flush") :
              /\ s.chain[i].by \in Flushers /\ flusher'[s.chain[i].by].at = "barrier"
              /\ flusher'[s.chain[i].by].on = g
        BY <2>1, <2>3, <2>10, <3>3, <3>5, <4>1, <4>2, SMTT(20)
      <4>5. \A i, j \in Places(s.chain, "flush") : s.chain[i].by = s.chain[j].by => i = j
        BY <2>1, <3>1, <3>2, <3>5, <4>1, <4>2
      <4> QED BY <4>3, <4>4, <4>5 DEF InChain, Awaits
    <3> QED BY <3>4, <3>5
  <2>13. Barriers'
    BY <2>12 DEF Barriers
  <2>14. \A e \in Flushers : flusher'[e] = flusher[e] \/ flusher'[e].at # "returned"
    BY <2>3, <2>10
  <2>15. s.closing \in {"release", "released", "done"} \/ r.closing \notin {"release", "released", "done"}
    BY <2>7
  <2> QED BY <1>1, <1>2, <2>2, <2>6, <2>7, <2>8, <2>10, <2>11, <2>13, <2>14, <2>15, CallerStep
<1> QED BY <1>4, <1>5

(* A drain is over, and so is the wait of its callers and of close. *)
LEMMA DrainSettlesStep ==
  ASSUME IInv, NEW h \in Handles, DrainSettles(h)
  PROVE  IInv'
<1> DEFINE r == handle[h]
           ok == r.drain = "gap"
           t == [r EXCEPT !.drain = "none"]
           s == IF t.closing # "drain" THEN t
                ELSE [t EXCEPT !.closing = IF ok THEN "chain" ELSE "last",
                               !.closeFailed = ~ok, !.wait = Len(t.chain)]
           F == [at : Asked, on : 0 .. NumHandles, mark : Nat, late : BOOLEAN]
<1>1. /\ r \in HandleRecord /\ HandleOK(r) /\ flusher \in [Flushers -> F]
      /\ handle \in [Handles -> HandleRecord]
  BY DEF IInv, TypeOK, AllOK
<1>2. /\ r.drain \in {"gap", "failed"} /\ handle' = [handle EXCEPT ![h] = s]
      /\ UNCHANGED <<disk, lock, claim, failures, crashes>>
      /\ flusher' = [f \in Flushers |->
           IF flusher[f].at = "drain" /\ flusher[f].on = h
           THEN [flusher[f] EXCEPT !.at = IF ok THEN "ready" ELSE "rejected"]
           ELSE flusher[f]]
  BY DEF DrainSettles
<1>3. t \in HandleRecord
  BY <1>1 DEF HandleRecord, Drains
<1>4. /\ t.life = r.life /\ t.leased = r.leased /\ t.cursor = r.cursor /\ t.materialized = r.materialized
      /\ t.repair = r.repair /\ t.recovered = r.recovered /\ t.buffered = r.buffered
      /\ t.batch = r.batch /\ t.drain = "none" /\ t.at = r.at /\ t.closing = r.closing
      /\ t.wait = r.wait /\ t.closeFailed = r.closeFailed /\ t.next = r.next /\ t.home = r.home
      /\ t.chain = r.chain
  BY <1>1 DEF HandleRecord
<1> HIDE DEF t
<1>5. /\ s \in HandleRecord /\ HandleOK(s)
      /\ s.life = r.life /\ s.leased = r.leased /\ s.cursor = r.cursor /\ s.materialized = r.materialized
      /\ s.recovered = r.recovered /\ s.drain = "none" /\ s.next = r.next /\ s.home = r.home
      /\ s.chain = r.chain
      /\ s.closing = r.closing \/ (r.closing = "drain" /\ s.closing \in {"chain", "last"})
  <2>1. CASE t.closing # "drain"
    <3>1. s = t
      BY <2>1
    <3>2. HandleOK(t)
      <4> HIDE DEF r, s
      <4> QED BY <1>1, <1>2, <1>3, <1>4, MovesOK
    <3> QED BY <1>3, <1>4, <3>1, <3>2
  <2>2. CASE t.closing = "drain"
    <3> DEFINE closing == IF ok THEN "chain" ELSE "last"
               failed == ~ok
               wait == Len(t.chain)
    <3>1. s = [t EXCEPT !.closing = closing, !.closeFailed = failed, !.wait = wait]
      BY <2>2
    <3>2. closing \in Closes /\ failed \in BOOLEAN /\ wait \in Nat
      <4>1. t.chain \in Seq(Ops)
        BY <1>3 DEF HandleRecord
      <4> QED BY <4>1 DEF Closes
    <3>3. closing = "chain" \/ (closing = "last" /\ failed)
      OBVIOUS
    <3>4. wait = Len(r.chain)
      BY <1>4
    <3> HIDE DEF closing, failed, wait
    <3>5. s \in HandleRecord
      BY <1>3, <3>1, <3>2, ZenonT(60) DEF HandleRecord
    <3>6. /\ s.life = t.life /\ s.leased = t.leased /\ s.cursor = t.cursor
          /\ s.materialized = t.materialized /\ s.repair = t.repair /\ s.recovered = t.recovered
          /\ s.buffered = t.buffered /\ s.batch = t.batch /\ s.drain = t.drain /\ s.at = t.at
          /\ s.next = t.next /\ s.home = t.home /\ s.chain = t.chain
          /\ s.closing = closing /\ s.wait = wait /\ s.closeFailed = failed
      BY <1>3, <3>1 DEF HandleRecord
    <3> HIDE DEF s, r
    <3>7. HandleOK(s)
      <4>1. s.wait = Len(r.chain) /\ Settles(r, s) /\ r.drain # "queued" /\ s.drain # "queued"
        BY <1>2, <1>4, <2>2, <3>3, <3>4, <3>6 DEF Settles
      <4> QED BY <1>1, <1>2, <1>4, <3>5, <3>6, <4>1, AwaitsOK
    <3> QED BY <1>4, <2>2, <3>3, <3>5, <3>6, <3>7
  <2> QED BY <2>1, <2>2
<1> HIDE DEF s
<1>6. /\ handle'[h] = s /\ \A g \in Handles : g # h => handle'[g] = handle[g]
  BY <1>1, <1>2
<1>7. /\ flusher' \in [Flushers -> F]
      /\ \A f \in Flushers :
           \/ flusher'[f] = flusher[f] /\ ~(flusher[f].at = "drain" /\ flusher[f].on = h)
           \/ /\ flusher[f].at = "drain" /\ flusher[f].on = h
              /\ flusher'[f].at = IF ok THEN "ready" ELSE "rejected"
              /\ flusher'[f].on = h /\ flusher'[f].mark = flusher[f].mark
              /\ flusher'[f].late = flusher[f].late
  <2> DEFINE at == IF ok THEN "ready" ELSE "rejected"
  <2>1. at \in Asked /\ at = IF ok THEN "ready" ELSE "rejected"
    BY DEF Asked
  <2>2. flusher' = [f \in Flushers |->
           IF flusher[f].at = "drain" /\ flusher[f].on = h
           THEN [flusher[f] EXCEPT !.at = at] ELSE flusher[f]]
    BY <1>2
  <2> HIDE DEF at, ok
  <2>3. ASSUME NEW f \in Flushers
        PROVE  /\ flusher'[f] \in F
               /\ \/ flusher'[f] = flusher[f] /\ ~(flusher[f].at = "drain" /\ flusher[f].on = h)
                  \/ /\ flusher[f].at = "drain" /\ flusher[f].on = h
                     /\ flusher'[f].at = at
                     /\ flusher'[f].on = h /\ flusher'[f].mark = flusher[f].mark
                     /\ flusher'[f].late = flusher[f].late
    BY <1>1, <2>1, <2>2
  <2> QED BY <2>1, <2>2, <2>3
<1>8. ASSUME NEW f \in Flushers PROVE Waiting(f)'
  <2>1. Waiting(f)
    BY DEF IInv
  <2>2. CASE flusher'[f] = flusher[f]
    <3>1. r.next <= s.next /\ r.cursor <= s.cursor
      BY <1>1, <1>5 DEF HandleRecord
    <3> QED BY <1>5, <1>6, <2>1, <2>2, <3>1, WaitOne DEF IInv
  <2>3. CASE flusher[f].at = "drain" /\ flusher[f].on = h /\ ok /\ flusher'[f].at = "ready"
             /\ flusher'[f].on = h /\ flusher'[f].mark = flusher[f].mark
             /\ flusher'[f].late = flusher[f].late
    <3>1. h # 0 /\ Alive(h) /\ (~flusher[f].late => flusher[f].mark <= r.cursor)
      BY <2>1, <2>3 DEF Waiting
    <3>2. s.life \notin {"new", "dead"} /\ (~flusher[f].late => flusher[f].mark <= s.cursor)
      BY <1>5, <3>1 DEF Alive
    <3> QED BY <1>6, <2>3, <3>1, <3>2 DEF Waiting, Alive
  <2>4. CASE flusher'[f].at = "rejected"
    BY <2>4 DEF Waiting
  <2> QED BY <1>7, <2>2, <2>3, <2>4
<1>9. ASSUME NEW g \in Handles PROVE InChain(g)'
  <2>1. /\ \A i \in Places(handle[g].chain, "flush") : Awaits(handle[g].chain[i].by, g)
        /\ \A i, j \in Places(handle[g].chain, "flush") :
             handle[g].chain[i].by = handle[g].chain[j].by => i = j
    BY DEF IInv, Barriers, InChain
  <2>2. handle'[g].chain = handle[g].chain
    BY <1>5, <1>6
  <2>3. \A i \in Places(handle[g].chain, "flush") :
          /\ handle[g].chain[i].by \in Flushers
          /\ flusher'[handle[g].chain[i].by].at = "barrier"
          /\ flusher'[handle[g].chain[i].by].on = g
    BY <1>7, <2>1 DEF Awaits
  <2> QED BY <2>1, <2>2, <2>3 DEF InChain, Awaits
<1>10. Barriers'
  BY <1>9 DEF Barriers
<1>11. \A e \in Flushers : flusher'[e] = flusher[e] \/ flusher'[e].at # "returned"
  BY <1>7
<1>12. /\ s.closing = "done" <=> r.closing = "done"
       /\ s.closing \in {"release", "released", "done"} \/ r.closing \notin {"release", "released", "done"}
  BY <1>5
<1> QED BY <1>2, <1>5, <1>7, <1>8, <1>10, <1>11, <1>12, CallerStep
-----------------------------------------------------------------------------
(* Handles opened, released and lost.                                      *)

(* A handle with nothing to do. *)
LEMMA RestOK ==
  ASSUME NEW s \in HandleRecord, s.at = "idle", s.chain = <<>>, s.batch = <<>>, s.buffered = <<>>,
         s.cursor = s.next, s.closing = "open", s.drain # "queued", s.life # "closed",
         s.repair # "none" => s.materialized, s.repair = "none" => s.recovered = <<>>
  PROVE  HandleOK(s)
<1>1. \A op : Places(s.chain, op) = {}
  BY DEF Places
<1>2. s.cursor \in Nat /\ s.next \in Nat
  BY DEF HandleRecord
<1>3. s.next - s.cursor = 0 /\ s.cursor <= s.next
  BY <1>2
<1>4. s.batch \o s.buffered = Seqs(s.cursor, s.next - s.cursor)
  <2>1. s.batch \o s.buffered = <<>>
    OBVIOUS
  <2> QED BY <1>2, <1>3, <2>1, SeqsNone
<1> QED BY <1>1, <1>3, <1>4 DEF HandleOK, Stage, OneDrain, OneAppend, Kept, Closed, Runs

LEMMA FreshRecord ==
  /\ Fresh \in HandleRecord
  /\ Fresh.at = "idle" /\ Fresh.chain = <<>> /\ Fresh.batch = <<>> /\ Fresh.buffered = <<>>
  /\ Fresh.cursor = 0 /\ Fresh.next = 0 /\ Fresh.closing = "open" /\ Fresh.drain = "none"
  /\ Fresh.life = "new" /\ Fresh.repair = "none" /\ Fresh.recovered = <<>> /\ ~Fresh.leased
  /\ ~Fresh.materialized /\ Fresh.home = "none"
<1>1. <<>> \in Seq(Nat) /\ <<>> \in Seq(Ops)
  OBVIOUS
<1> QED BY <1>1 DEF Fresh, HandleRecord, Lives, Drains, Stages, Closes

(* A handle comes into use: its process claims it, it may take the lock.   *)
LEMMA Opens ==
  ASSUME IInv, NEW h \in Handles, NEW p \in Procs, Unused(h), claim[p] = 0,
         NEW s \in HandleRecord, HandleOK(s),
         handle' = [handle EXCEPT ![h] = s], claim' = [claim EXCEPT ![p] = h],
         UNCHANGED <<disk, flusher, failures, crashes>>,
         s.life = "opened", s.home = p, s.closing = "open", s.chain = <<>>,
         \/ ~s.leased /\ UNCHANGED lock
         \/ lock = 0 /\ lock' = h,
         s.cursor <= Len(disk.log) + Len(s.recovered), s.materialized => disk.exists
  PROVE  IInv'
<1> USE DEF IInv
<1>1. /\ handle' \in [Handles -> HandleRecord] /\ AllOK' /\ handle'[h] = s
      /\ \A g \in Handles : g # h => handle'[g] = handle[g]
  BY HandleFrame
<1>2. h \in 0 .. NumHandles /\ h # 0
  BY DEF Handles
<1>3. TypeOK'
  BY <1>1, <1>2 DEF TypeOK
<1>4. ~Alive(h) /\ claim \in [Procs -> 0 .. NumHandles]
  BY DEF Unused, Alive, TypeOK
<1>5. Claimed'
  <2>1. ASSUME NEW g \in Handles, Alive(g)', handle'[g].closing # "done"
        PROVE  handle'[g].home \in Procs /\ claim'[handle'[g].home] = g
    <3>1. CASE g = h
      BY <1>1, <1>4, <3>1
    <3>2. CASE g # h
      <4>1. handle[g].home \in Procs /\ claim[handle[g].home] = g
        BY <1>1, <2>1, <3>2 DEF Claimed, Alive
      <4>2. handle[g].home # p
        BY <4>1 DEF Handles
      <4> QED BY <1>1, <1>4, <3>2, <4>1, <4>2
    <3> QED BY <3>1, <3>2
  <2>2. ASSUME NEW q \in Procs, claim'[q] # 0
        PROVE  handle'[claim'[q]].life \notin {"new", "dead"} /\ handle'[claim'[q]].closing # "done" /\ handle'[claim'[q]].home = q
    <3>1. CASE q = p
      BY <1>1, <1>4, <3>1 DEF Alive
    <3>2. CASE q # p
      <4>1. claim'[q] = claim[q] /\ claim[q] \in Handles
        BY <1>4, <2>2, <3>2, StorageAssumption DEF Handles
      <4>2. Alive(claim[q]) /\ handle[claim[q]].closing # "done" /\ handle[claim[q]].home = q
        BY <2>2, <4>1 DEF Claimed
      <4>3. handle'[claim[q]] = handle[claim[q]]
        BY <1>1, <1>4, <4>1, <4>2
      <4> QED BY <4>1, <4>2, <4>3 DEF Alive
    <3> QED BY <3>1, <3>2
  <2> QED BY <2>1, <2>2 DEF Claimed, Alive
<1>6. Owned'
  <2>1. \A g \in Handles : g # 0
    BY DEF Handles
  <2> QED BY <1>1, <2>1 DEF Owned
<1>7. OnDisk'
  BY <1>1 DEF OnDisk
<1>8. ASSUME NEW f \in Flushers PROVE Waiting(f)'
  <2>1. Waiting(f)
    OBVIOUS
  <2>2. CASE flusher[f].at \notin {"drain", "ready", "barrier"}
    BY <2>2 DEF Waiting
  <2>3. CASE flusher[f].at \in {"drain", "ready", "barrier"}
    <3>1. flusher[f].on \in Handles /\ Alive(flusher[f].on)
      BY <2>1, <2>3, StorageAssumption DEF Waiting, Handles, TypeOK
    <3>2. handle'[flusher[f].on] = handle[flusher[f].on]
      BY <1>1, <1>4, <3>1
    <3> QED BY <2>1, <3>1, <3>2 DEF Waiting, Alive
  <2> QED BY <2>2, <2>3
<1>9. ASSUME NEW g \in Handles PROVE InChain(g)'
  <2>1. CASE g = h
    <3>1. handle'[g].chain = <<>>
      BY <1>1, <2>1
    <3>2. Places(<<>>, "flush") = {}
      BY DEF Places
    <3> QED BY <3>1, <3>2 DEF InChain
  <2>2. CASE g # h
    BY <1>1, <2>2 DEF Barriers, InChain, Awaits
  <2> QED BY <2>1, <2>2
<1>10. Barriers'
  BY <1>9 DEF Barriers
<1>11. FlushedIsDurable'
  BY DEF FlushedIsDurable
<1> QED BY <1>1, <1>3, <1>5, <1>6, <1>7, <1>8, <1>10, <1>11

(* A session is created. *)
LEMMA CreateStep ==
  ASSUME IInv, NEW h \in Handles, NEW p \in Procs, Create(h, p)
  PROVE  IInv'
<1> DEFINE s == [Fresh EXCEPT !.life = "opened", !.home = p]
<1>1. /\ Unused(h) /\ claim[p] = 0
      /\ handle' = [handle EXCEPT ![h] = s] /\ claim' = [claim EXCEPT ![p] = h]
      /\ UNCHANGED <<disk, lock, flusher, failures, crashes>>
  BY DEF Create
<1>2. s \in HandleRecord
  BY FreshRecord DEF HandleRecord, Lives
<1>3. /\ s.at = "idle" /\ s.chain = <<>> /\ s.batch = <<>> /\ s.buffered = <<>>
      /\ s.cursor = 0 /\ s.next = 0 /\ s.closing = "open" /\ s.drain = "none" /\ s.life = "opened"
      /\ s.repair = "none" /\ s.recovered = <<>> /\ ~s.leased /\ ~s.materialized /\ s.home = p
  BY FreshRecord DEF HandleRecord
<1> HIDE DEF s
<1>4. HandleOK(s)
  BY <1>2, <1>3, RestOK
<1>5. s.cursor <= Len(disk.log) + Len(s.recovered)
  <2>1. Len(disk.log) \in Nat /\ Len(s.recovered) = 0
    BY <1>3 DEF IInv, TypeOK
  <2> QED BY <1>3, <2>1
<1> QED BY <1>1, <1>2, <1>3, <1>4, <1>5, Opens

(* A session is opened from its file. *)
LEMMA OpenStep ==
  ASSUME IInv, NEW h \in Handles, NEW p \in Procs, Open(h, p)
  PROVE  IInv'
<1> DEFINE stored == Len(disk.log) + Len(disk.tail)
           repair == IF disk.torn THEN "truncate" ELSE "none"
           s == [Fresh EXCEPT !.life = "opened", !.home = p, !.leased = TRUE,
                              !.cursor = stored, !.next = stored, !.materialized = TRUE,
                              !.repair = repair, !.recovered = disk.tail]
<1>1. /\ Unused(h) /\ claim[p] = 0 /\ lock = 0 /\ disk.exists /\ lock' = h
      /\ handle' = [handle EXCEPT ![h] = s] /\ claim' = [claim EXCEPT ![p] = h]
      /\ UNCHANGED <<disk, flusher, failures, crashes>>
  BY DEF Open
<1>2. stored \in Nat /\ disk.tail \in Seq(Nat) /\ disk.log \in Seq(Nat)
  <2>1. disk.tail \in Seq(Nat) /\ disk.log \in Seq(Nat)
    BY DEF IInv, TypeOK
  <2>2. Len(disk.tail) \in Nat /\ Len(disk.log) \in Nat
    BY <2>1
  <2> QED BY <2>1, <2>2, AddsUp
<1>3. repair \in {"none", "truncate"} /\ (repair = "none" => disk.tail = <<>>)
  BY DEF IInv, OnDisk
<1>4. stored = Len(disk.log) + Len(disk.tail)
  OBVIOUS
<1> HIDE DEF stored, repair
<1>5. s \in HandleRecord
  BY <1>2, <1>3, FreshRecord DEF HandleRecord, Lives
<1>6. /\ s.at = "idle" /\ s.chain = <<>> /\ s.batch = <<>> /\ s.buffered = <<>>
      /\ s.cursor = stored /\ s.next = stored /\ s.closing = "open" /\ s.drain = "none"
      /\ s.life = "opened" /\ s.repair = repair /\ s.recovered = disk.tail /\ s.leased
      /\ s.materialized /\ s.home = p
  BY FreshRecord DEF HandleRecord
<1> HIDE DEF s
<1>7. HandleOK(s)
  BY <1>3, <1>5, <1>6, RestOK
<1>8. s.cursor <= Len(disk.log) + Len(s.recovered)
  BY <1>2, <1>4, <1>6
<1> QED BY <1>1, <1>5, <1>6, <1>7, <1>8, Opens

(* The kernel takes the lock back before the close learns of it. *)
LEMMA KernelUnlocksStep ==
  ASSUME IInv, NEW h \in Handles, KernelUnlocks(h)
  PROVE  IInv'
<1>1. /\ handle[h].closing = "release" /\ lock = h /\ lock' = 0
      /\ UNCHANGED <<disk, claim, handle, flusher, failures, crashes>>
  BY DEF KernelUnlocks
<1>2. TypeOK'
  BY <1>1, StorageAssumption DEF IInv, TypeOK
<1>3. Owned'
  BY <1>1 DEF IInv, Owned
<1>4. AllOK' /\ Claimed' /\ OnDisk'
  BY <1>1 DEF IInv, AllOK, Claimed, OnDisk, Alive
<1>5. \A f \in Flushers : Waiting(f)'
  BY <1>1 DEF IInv, Waiting, Alive
<1>6. Barriers'
  BY <1>1 DEF IInv, Barriers, InChain, Awaits
<1>7. FlushedIsDurable'
  BY <1>1 DEF IInv, FlushedIsDurable
<1> QED BY <1>2, <1>3, <1>4, <1>5, <1>6, <1>7 DEF IInv

(* The close is over and its process may open another handle. *)
LEMMA HandleReleasedStep ==
  ASSUME IInv, NEW h \in Handles, HandleReleased(h)
  PROVE  IInv'
<1> USE DEF IInv
<1> DEFINE r == handle[h]
           p == r.home
           s == [r EXCEPT !.closing = "done", !.life = "closed"]
<1>1. r \in HandleRecord /\ HandleOK(r) /\ r.closing = "released"
      /\ handle \in [Handles -> HandleRecord] /\ claim \in [Procs -> 0 .. NumHandles]
  BY DEF TypeOK, AllOK, HandleReleased
<1>2. /\ handle' = [handle EXCEPT ![h] = s] /\ claim' = [claim EXCEPT ![p] = 0]
      /\ UNCHANGED <<disk, lock, flusher, failures, crashes>>
  BY <1>1 DEF HandleReleased
<1>3. Alive(h) /\ p \in Procs /\ claim[p] = h
  <2>1. Alive(h)
    BY <1>1 DEF HandleOK, Closed, Alive
  <2> QED BY <1>1, <2>1 DEF Claimed
<1>4. s \in HandleRecord
  BY <1>1 DEF HandleRecord, Lives, Closes
<1>5. /\ s.leased = r.leased /\ s.cursor = r.cursor /\ s.materialized = r.materialized
      /\ s.repair = r.repair /\ s.recovered = r.recovered /\ s.buffered = r.buffered
      /\ s.batch = r.batch /\ s.drain = r.drain /\ s.chain = r.chain /\ s.at = r.at
      /\ s.wait = r.wait /\ s.closeFailed = r.closeFailed /\ s.next = r.next /\ s.home = r.home
      /\ s.closing = "done" /\ s.life = "closed"
  BY <1>1 DEF HandleRecord
<1> HIDE DEF s
<1>6. HandleOK(s)
  <2>1. Goes(r, s)
    BY <1>1, <1>5 DEF Goes
  <2> HIDE DEF r
  <2> QED BY <1>1, <1>4, <1>5, <2>1, ReleasesOK
<1>7. /\ handle' \in [Handles -> HandleRecord] /\ AllOK' /\ handle'[h] = s
      /\ \A g \in Handles : g # h => handle'[g] = handle[g]
  BY <1>2, <1>4, <1>6, HandleFrame
<1>8. TypeOK'
  <2>1. 0 \in 0 .. NumHandles
    BY StorageAssumption
  <2>2. claim' \in [Procs -> 0 .. NumHandles]
    BY <1>1, <1>2, <2>1
  <2> QED BY <1>2, <1>7, <2>2 DEF TypeOK
<1>9. Claimed'
  <2>1. ASSUME NEW g \in Handles, Alive(g)', handle'[g].closing # "done"
        PROVE  handle'[g].home \in Procs /\ claim'[handle'[g].home] = g
    <3>1. g # h
      BY <1>5, <1>7, <2>1
    <3>2. handle[g].home \in Procs /\ claim[handle[g].home] = g /\ handle'[g] = handle[g]
      BY <1>7, <2>1, <3>1 DEF Claimed, Alive
    <3>3. handle[g].home # p
      BY <1>3, <3>1, <3>2
    <3> QED BY <1>1, <1>2, <3>2, <3>3
  <2>2. ASSUME NEW q \in Procs, claim'[q] # 0
        PROVE  handle'[claim'[q]].life \notin {"new", "dead"} /\ handle'[claim'[q]].closing # "done" /\ handle'[claim'[q]].home = q
    <3>1. q # p /\ claim'[q] = claim[q]
      BY <1>1, <1>2, <1>3, <2>2
    <3>2. claim[q] \in Handles
      BY <1>1, <2>2, <3>1, StorageAssumption DEF Handles
    <3>3. Alive(claim[q]) /\ handle[claim[q]].closing # "done" /\ handle[claim[q]].home = q
      BY <2>2, <3>1 DEF Claimed
    <3>4. claim[q] # h
      BY <3>1, <3>3
    <3>5. handle'[claim[q]] = handle[claim[q]]
      BY <1>7, <3>2, <3>4
    <3> QED BY <3>1, <3>3, <3>5 DEF Alive
  <2> QED BY <2>1, <2>2 DEF Claimed, Alive
<1>10. Owned'
  BY <1>2, <1>5, <1>7 DEF Owned
<1>11. OnDisk'
  <2>1. \A g \in Handles : /\ handle'[g].cursor = handle[g].cursor
                           /\ handle'[g].recovered = handle[g].recovered
                           /\ handle'[g].materialized = handle[g].materialized
    BY <1>5, <1>7
  <2> QED BY <1>2, <2>1 DEF OnDisk
<1>12. \A f \in Flushers : Waiting(f)'
  <2>1. r.next <= s.next /\ r.cursor <= s.cursor
    BY <1>4, <1>5 DEF HandleRecord
  <2> QED BY <1>2, <1>4, <1>5, <1>7, <2>1, WaitFrame
<1>13. Barriers'
  BY <1>2, <1>5, <1>7, BarrierFrame
<1>14. FlushedIsDurable'
  BY <1>2 DEF FlushedIsDurable
<1> QED BY <1>7, <1>8, <1>9, <1>10, <1>11, <1>12, <1>13, <1>14

(* A write cut off by a crash leaves the file whole or with a torn tail.   *)
Typed(d) == d \in [exists : BOOLEAN, log : Seq(Nat), torn : BOOLEAN, tail : Seq(Nat)]
Outcome(d) ==
  /\ Typed(d)
  /\ Len(disk.log) <= Len(d.log)
  /\ disk.exists => d.exists
  /\ ~d.exists => d.log = <<>> /\ ~d.torn
  /\ ~d.torn => d.tail = <<>>

(* A crash that leaves a torn line, or a file not yet published. *)
LEMMA TornOutcome ==
  ASSUME NEW events \in Seq(Nat), NEW d \in Torn(events), Outcome(disk), disk.exists
  PROVE  Outcome(d)
<1>1. disk.log \in Seq(Nat) /\ disk.tail \in Seq(Nat) /\ Typed(disk)
  BY DEF Outcome, Typed
<1>2. PICK n \in 0 .. Len(events) :
        d \in {[disk EXCEPT !.torn = TRUE, !.tail = SubSeq(events, 1, n)],
               [disk EXCEPT !.torn = TRUE, !.log = @ \o SubSeq(events, 1, n)]}
  BY DEF Torn
<1> DEFINE part == SubSeq(events, 1, n)
           log == disk.log \o part
<1>3. part \in Seq(Nat)
  <2>1. n \in Nat /\ n <= Len(events)
    OBVIOUS
  <2> QED BY <2>1
<1>4. log \in Seq(Nat) /\ Len(disk.log) <= Len(log) /\ Len(disk.log) \in Nat
  BY <1>1, <1>3, Longer2
<1>5. d = [disk EXCEPT !.torn = TRUE, !.tail = part] \/ d = [disk EXCEPT !.torn = TRUE, !.log = log]
  BY <1>2
<1> HIDE DEF part, log
<1>6. CASE d = [disk EXCEPT !.torn = TRUE, !.tail = part]
  <2>1. Typed(d) /\ d.log = disk.log /\ d.exists = disk.exists /\ d.torn
    BY <1>1, <1>3, <1>6 DEF Typed
  <2> QED BY <1>4, <2>1 DEF Outcome
<1>7. CASE d = [disk EXCEPT !.torn = TRUE, !.log = log]
  <2>1. Typed(d) /\ d.log = log /\ d.exists = disk.exists /\ d.torn
    BY <1>1, <1>4, <1>7 DEF Typed
  <2> QED BY <1>4, <2>1 DEF Outcome
<1> QED BY <1>5, <1>6, <1>7

(* A crash after a write that reached the file. *)
LEMMA LongerOutcome ==
  ASSUME NEW events \in Seq(Nat), NEW d, d = [disk EXCEPT !.exists = TRUE, !.log = @ \o events],
         Outcome(disk)
  PROVE  Outcome(d)
<1>1. disk.log \in Seq(Nat) /\ Typed(disk)
  BY DEF Outcome, Typed
<1> DEFINE log == disk.log \o events
<1>2. log \in Seq(Nat) /\ Len(disk.log) <= Len(log)
  BY <1>1, Longer2
<1>3. d = [disk EXCEPT !.exists = TRUE, !.log = log]
  OBVIOUS
<1> HIDE DEF log
<1>4. Typed(d) /\ d.log = log /\ d.exists /\ d.torn = disk.torn /\ d.tail = disk.tail
  BY <1>1, <1>2, <1>3 DEF Typed
<1> QED BY <1>2, <1>4 DEF Outcome

(* Every outcome of a crash in the middle of a write. *)
LEMMA LeftOutcome ==
  ASSUME IInv, NEW h \in Handles, NEW d \in Left(h)
  PROVE  Outcome(d)
<1> DEFINE r == handle[h]
<1>1. r \in HandleRecord /\ HandleOK(r) /\ r.batch \in Seq(Nat) /\ r.recovered \in Seq(Nat)
      /\ (r.materialized => disk.exists)
  BY DEF IInv, TypeOK, AllOK, HandleRecord, OnDisk
<1>2. Typed(disk) /\ Len(disk.log) \in Nat
  BY DEF IInv, TypeOK, Typed
<1>3. Outcome(disk)
  BY <1>2 DEF IInv, OnDisk, Outcome
<1>4. CASE d = disk
  BY <1>3, <1>4
<1>5. CASE r.at = "truncate" /\ d = [disk EXCEPT !.torn = FALSE, !.tail = <<>>]
  <2>1. <<>> \in Seq(Nat)
    OBVIOUS
  <2>2. Typed(d) /\ d.log = disk.log /\ d.exists = disk.exists /\ ~d.torn /\ d.tail = <<>>
    BY <1>2, <1>5, <2>1 DEF Typed
  <2> QED BY <1>2, <1>3, <2>2 DEF Outcome
<1>6. CASE r.at = "rewrite" /\ d \in Torn(r.recovered) \cup {[disk EXCEPT !.log = @ \o r.recovered]}
  <2>1. disk.exists
    BY <1>1, <1>6 DEF HandleOK, Stage
  <2>2. CASE d \in Torn(r.recovered)
    BY <1>1, <1>3, <2>1, <2>2, TornOutcome
  <2>3. CASE d = [disk EXCEPT !.log = @ \o r.recovered]
    <3>1. d = [disk EXCEPT !.exists = TRUE, !.log = @ \o r.recovered]
      BY <1>2, <2>1, <2>3 DEF Typed
    <3> QED BY <1>1, <1>3, <3>1, LongerOutcome
  <2> QED BY <1>6, <2>2, <2>3
<1>7. CASE r.at = "persist"
           /\ d \in {[disk EXCEPT !.exists = TRUE, !.log = @ \o r.batch]}
                    \cup (IF r.materialized THEN Torn(r.batch) ELSE {})
  <2>1. CASE r.materialized /\ d \in Torn(r.batch)
    BY <1>1, <1>3, <2>1, TornOutcome
  <2>2. CASE d = [disk EXCEPT !.exists = TRUE, !.log = @ \o r.batch]
    BY <1>1, <1>3, <2>2, LongerOutcome
  <2> QED BY <1>7, <2>1, <2>2
<1>8. \/ d = disk
      \/ r.at = "truncate" /\ d = [disk EXCEPT !.torn = FALSE, !.tail = <<>>]
      \/ r.at = "rewrite" /\ d \in Torn(r.recovered) \cup {[disk EXCEPT !.log = @ \o r.recovered]}
      \/ r.at = "persist" /\ d \in {[disk EXCEPT !.exists = TRUE, !.log = @ \o r.batch]}
                                   \cup (IF r.materialized THEN Torn(r.batch) ELSE {})
  <2>1. CASE r.at = "truncate"
    BY <2>1 DEF Left
  <2>2. CASE r.at = "rewrite"
    BY <2>2 DEF Left
  <2>3. CASE r.at = "persist"
    BY <2>3 DEF Left
  <2>4. CASE r.at \notin {"truncate", "rewrite", "persist"}
    BY <2>4 DEF Left
  <2> QED BY <2>1, <2>2, <2>3, <2>4
<1> QED BY <1>4, <1>5, <1>6, <1>7, <1>8

(* A process is gone: its handles are dead, what it was writing is cut off. *)
LEMMA CrashStep ==
  ASSUME IInv, NEW p \in Procs, Crash(p)
  PROVE  IInv'
<1> USE DEF IInv
<1> DEFINE lost == {h \in Handles : Alive(h) /\ handle[h].home = p}
           dead == [Fresh EXCEPT !.life = "dead"]
           F == [at : Asked, on : 0 .. NumHandles, mark : Nat, late : BOOLEAN]
<1>1. /\ crashes < MaxCrashes /\ crashes' = crashes + 1 /\ UNCHANGED failures
      /\ \E h \in lost : disk' \in Left(h)
      /\ handle' = [h \in Handles |-> IF h \in lost THEN dead ELSE handle[h]]
      /\ flusher' = [f \in Flushers |->
           IF flusher[f].on \in lost /\ flusher[f].at \in {"drain", "ready", "barrier"}
           THEN [flusher[f] EXCEPT !.at = "idle"] ELSE flusher[f]]
      /\ claim' = [claim EXCEPT ![p] = 0]
      /\ lock' = IF lock \in lost THEN 0 ELSE lock
  BY DEF Crash
<1>2. \A h \in Handles : h \notin lost => ~(Alive(h) /\ handle[h].home = p)
  OBVIOUS
<1>3. \A h \in lost : h \in Handles /\ Alive(h)
  OBVIOUS
<1>4. Outcome(disk')
  BY <1>1, <1>3, LeftOutcome
<1> HIDE DEF lost
<1>5. dead \in HandleRecord
  BY FreshRecord DEF HandleRecord, Lives
<1>6. /\ dead.at = "idle" /\ dead.chain = <<>> /\ dead.batch = <<>> /\ dead.buffered = <<>>
      /\ dead.cursor = 0 /\ dead.next = 0 /\ dead.closing = "open" /\ dead.drain = "none"
      /\ dead.life = "dead" /\ dead.repair = "none" /\ dead.recovered = <<>> /\ ~dead.leased
      /\ ~dead.materialized
  BY FreshRecord DEF HandleRecord
<1> HIDE DEF dead
<1>7. HandleOK(dead)
  BY <1>5, <1>6, RestOK
<1>8. /\ handle \in [Handles -> HandleRecord] /\ flusher \in [Flushers -> F]
      /\ claim \in [Procs -> 0 .. NumHandles] /\ lock \in 0 .. NumHandles
      /\ failures \in 0 .. MaxFailures /\ crashes \in 0 .. MaxCrashes
  BY DEF TypeOK
<1>9. \A g \in Handles : \/ g \in lost /\ handle'[g] = dead
                         \/ g \notin lost /\ handle'[g] = handle[g]
  BY <1>1
<1>10. \A f \in Flushers :
         \/ /\ flusher[f].on \in lost /\ flusher[f].at \in {"drain", "ready", "barrier"}
            /\ flusher'[f].at = "idle" /\ flusher'[f] \in F
         \/ /\ ~(flusher[f].on \in lost /\ flusher[f].at \in {"drain", "ready", "barrier"})
            /\ flusher'[f] = flusher[f]
  BY <1>1, <1>8 DEF Asked
<1>11. 0 \in 0 .. NumHandles
  BY StorageAssumption
<1>12. TypeOK'
  <2>1. handle' \in [Handles -> HandleRecord]
    BY <1>1, <1>5, <1>8
  <2>2. flusher' \in [Flushers -> F]
    BY <1>1, <1>8, <1>10
  <2>3. claim' \in [Procs -> 0 .. NumHandles] /\ lock' \in 0 .. NumHandles
    BY <1>1, <1>8, <1>11
  <2>4. crashes' \in 0 .. MaxCrashes /\ failures' \in 0 .. MaxFailures
    BY <1>1, <1>8, StorageAssumption
  <2>5. disk' \in [exists : BOOLEAN, log : Seq(Nat), torn : BOOLEAN, tail : Seq(Nat)]
    BY <1>4 DEF Outcome, Typed
  <2> QED BY <2>1, <2>2, <2>3, <2>4, <2>5 DEF TypeOK
<1>13. AllOK'
  BY <1>7, <1>9 DEF AllOK
<1>14. Claimed'
  <2>1. ASSUME NEW g \in Handles, Alive(g)', handle'[g].closing # "done"
        PROVE  handle'[g].home \in Procs /\ claim'[handle'[g].home] = g
    <3>1. g \notin lost /\ handle'[g] = handle[g]
      BY <1>6, <1>9, <2>1 DEF Alive
    <3>2. handle[g].home \in Procs /\ claim[handle[g].home] = g /\ Alive(g)
      BY <2>1, <3>1 DEF Claimed, Alive
    <3>3. handle[g].home # p
      BY <1>2, <3>1, <3>2
    <3> QED BY <1>1, <1>8, <3>1, <3>2, <3>3
  <2>2. ASSUME NEW q \in Procs, claim'[q] # 0
        PROVE  handle'[claim'[q]].life \notin {"new", "dead"}
               /\ handle'[claim'[q]].closing # "done" /\ handle'[claim'[q]].home = q
    <3>1. q # p /\ claim'[q] = claim[q]
      BY <1>1, <1>8, <2>2
    <3>2. claim[q] \in Handles
      BY <1>8, <2>2, <3>1, StorageAssumption DEF Handles
    <3>3. Alive(claim[q]) /\ handle[claim[q]].closing # "done" /\ handle[claim[q]].home = q
      BY <2>2, <3>1 DEF Claimed
    <3>4. claim[q] \notin lost
      BY <3>1, <3>3 DEF lost
    <3>5. handle'[claim[q]] = handle[claim[q]]
      BY <1>9, <3>2, <3>4
    <3> QED BY <3>1, <3>3, <3>5 DEF Alive
  <2> QED BY <2>1, <2>2 DEF Claimed, Alive
<1>15. Owned'
  BY <1>1, <1>6, <1>9 DEF Owned
<1>16. OnDisk'
  <2>1. ASSUME NEW g \in Handles
        PROVE  /\ handle'[g].cursor <= Len(disk'.log) + Len(handle'[g].recovered)
               /\ handle'[g].materialized => disk'.exists
    <3>1. Len(disk'.log) \in Nat /\ Len(disk.log) \in Nat /\ Len(disk.log) <= Len(disk'.log)
      <4>1. disk'.log \in Seq(Nat) /\ disk.log \in Seq(Nat)
        BY <1>4 DEF Outcome, Typed, TypeOK
      <4> QED BY <1>4, <4>1 DEF Outcome
    <3>2. CASE handle'[g] = dead
      <4>1. Len(dead.recovered) \in Nat
        BY <1>6
      <4>2. 0 <= Len(disk'.log) + Len(dead.recovered)
        BY <3>1, <4>1, AddsUp
      <4> QED BY <1>6, <3>2, <4>2
    <3>3. CASE handle'[g] = handle[g]
      <4>1. /\ handle[g].cursor <= Len(disk.log) + Len(handle[g].recovered)
            /\ handle[g].materialized => disk.exists
        BY DEF OnDisk
      <4>2. handle[g].cursor \in Nat /\ Len(handle[g].recovered) \in Nat
        <5>1. handle[g].recovered \in Seq(Nat) /\ handle[g].cursor \in Nat
          BY <1>8 DEF HandleRecord
        <5> QED BY <5>1
      <4>3. handle[g].cursor <= Len(disk'.log) + Len(handle[g].recovered)
        BY <3>1, <4>1, <4>2, StillWithin
      <4> QED BY <1>4, <3>3, <4>1, <4>3 DEF Outcome
    <3> QED BY <1>9, <3>2, <3>3
  <2> QED BY <1>4, <2>1 DEF OnDisk, Outcome
<1>17. ASSUME NEW f \in Flushers PROVE Waiting(f)'
  <2>1. CASE flusher'[f].at \notin {"drain", "ready", "barrier"}
    BY <2>1 DEF Waiting
  <2>2. CASE flusher'[f].at \in {"drain", "ready", "barrier"}
    <3>1. flusher'[f] = flusher[f] /\ flusher[f].on \notin lost
      BY <1>10, <2>2
    <3>2. flusher[f].on \in Handles
      BY <1>8, <2>2, <3>1, StorageAssumption DEF Waiting, Handles
    <3>3. handle'[flusher[f].on] = handle[flusher[f].on]
      BY <1>9, <3>1, <3>2
    <3> QED BY <3>1, <3>3 DEF Waiting, Alive
  <2> QED BY <2>1, <2>2
<1>18. ASSUME NEW g \in Handles PROVE InChain(g)'
  <2>1. CASE g \in lost
    <3>1. handle'[g].chain = <<>>
      BY <1>6, <1>9, <2>1
    <3>2. Places(<<>>, "flush") = {}
      BY DEF Places
    <3> QED BY <3>1, <3>2 DEF InChain
  <2>2. CASE g \notin lost
    <3>1. handle'[g] = handle[g]
      BY <1>9, <2>2
    <3>2. /\ \A i \in Places(handle[g].chain, "flush") : Awaits(handle[g].chain[i].by, g)
          /\ \A i, j \in Places(handle[g].chain, "flush") :
               handle[g].chain[i].by = handle[g].chain[j].by => i = j
      BY DEF Barriers, InChain
    <3>3. \A i \in Places(handle[g].chain, "flush") :
            /\ handle[g].chain[i].by \in Flushers
            /\ flusher'[handle[g].chain[i].by].at = "barrier"
            /\ flusher'[handle[g].chain[i].by].on = g
      BY <1>10, <2>2, <3>2 DEF Awaits
    <3> QED BY <3>1, <3>2, <3>3 DEF InChain, Awaits
  <2> QED BY <2>1, <2>2
<1>19. Barriers'
  BY <1>18 DEF Barriers
<1>20. FlushedIsDurable'
  <2>1. \A f \in Flushers : flusher'[f] = flusher[f] \/ flusher'[f].at # "returned"
    BY <1>10
  <2>2. Grows /\ disk'.log \in Seq(Nat)
    BY <1>4 DEF Outcome, Typed, Grows
  <2> QED BY <2>1, <2>2, DurableFrame
<1> QED BY <1>12, <1>13, <1>14, <1>15, <1>16, <1>17, <1>19, <1>20
-----------------------------------------------------------------------------
(* The invariant holds.                                                    *)

(* Before any session is created. *)
LEMMA InitOK == Init => IInv
<1> SUFFICES ASSUME Init PROVE IInv
  OBVIOUS
<1> USE DEF Init
<1>1. \A h \in Handles : handle[h] = Fresh
  OBVIOUS
<1>2. TypeOK
  <2>1. 0 \in 0 .. NumHandles /\ 0 \in 0 .. MaxFailures /\ 0 \in 0 .. MaxCrashes
    BY StorageAssumption
  <2>2. <<>> \in Seq(Nat)
    OBVIOUS
  <2>3. handle \in [Handles -> HandleRecord]
    BY FreshRecord
  <2>4. disk \in [exists : BOOLEAN, log : Seq(Nat), torn : BOOLEAN, tail : Seq(Nat)]
    BY <2>2
  <2>5. flusher \in [Flushers -> [at : Asked, on : 0 .. NumHandles, mark : Nat, late : BOOLEAN]]
    BY <2>1 DEF Asked
  <2> QED BY <2>1, <2>3, <2>4, <2>5 DEF TypeOK
<1>3. HandleOK(Fresh)
  BY FreshRecord, RestOK
<1>4. AllOK
  BY <1>1, <1>3 DEF AllOK
<1>5. Claimed
  BY <1>1, FreshRecord DEF Claimed, Alive
<1>6. Owned
  BY <1>1, FreshRecord DEF Owned
<1>7. OnDisk
  <2>1. disk.log = <<>> /\ ~disk.torn /\ disk.tail = <<>> /\ Len(<<>>) = 0
    OBVIOUS
  <2>2. ASSUME NEW h \in Handles
        PROVE  /\ handle[h].cursor <= Len(disk.log) + Len(handle[h].recovered)
               /\ ~handle[h].materialized
    <3>1. handle[h].cursor = 0 /\ handle[h].recovered = <<>> /\ ~handle[h].materialized
      BY <1>1, FreshRecord
    <3>2. 0 <= Len(disk.log) + Len(handle[h].recovered)
      BY <2>1, <3>1
    <3> QED BY <3>1, <3>2
  <2> QED BY <2>1, <2>2 DEF OnDisk
<1>8. \A f \in Flushers : flusher[f].at = "idle"
  OBVIOUS
<1>9. \A f \in Flushers : Waiting(f)
  BY <1>8 DEF Waiting
<1>10. Barriers
  <2>1. \A h \in Handles : Places(handle[h].chain, "flush") = {}
    BY <1>1, FreshRecord DEF Places
  <2> QED BY <2>1 DEF Barriers, InChain
<1>11. FlushedIsDurable
  BY <1>8 DEF FlushedIsDurable
<1> QED BY <1>2, <1>4, <1>5, <1>6, <1>7, <1>9, <1>10, <1>11 DEF IInv

(* A step that changes nothing. *)
LEMMA StutterStep ==
  ASSUME IInv, UNCHANGED vars
  PROVE  IInv'
<1> USE DEF IInv, vars
<1>1. TypeOK'
  BY DEF TypeOK
<1>2. AllOK' /\ Claimed' /\ Owned' /\ OnDisk'
  BY DEF AllOK, Claimed, Owned, OnDisk, Alive
<1>3. \A f \in Flushers : Waiting(f)'
  BY DEF Waiting, Alive
<1>4. Barriers'
  BY DEF Barriers, InChain, Awaits
<1>5. FlushedIsDurable'
  BY DEF FlushedIsDurable
<1> QED BY <1>1, <1>2, <1>3, <1>4, <1>5

(* Every step keeps the invariant: one lemma for each action. *)
LEMMA NextOK ==
  ASSUME IInv, [Next]_vars
  PROVE  IInv'
<1>1. ASSUME NEW h \in Handles, NEW p \in Procs, Create(h, p) \/ Open(h, p)
      PROVE  IInv'
  BY <1>1, CreateStep, OpenStep
<1>2. ASSUME NEW h \in Handles,
             AppendClosers(h) \/ PublishSession(h) \/ Publish(h) \/ TimerFires(h) \/ Close(h)
      PROVE  IInv'
  BY <1>2, AppendClosersStep, PublishSessionStep, PublishStep, TimerFiresStep, CloseStep
<1>3. ASSUME NEW h \in Handles, Continue(h) PROVE IInv'
  BY <1>3, DrainChecksStep, DrainSettlesStep, TurnBeginsStep DEF Continue
<1>4. ASSUME NEW h \in Handles, Write(h) PROVE IInv'
  BY <1>4, LeaseTakenStep, TruncatedStep, RewrittenStep, PersistedStep DEF Write
<1>5. ASSUME NEW h \in Handles, Fail(h) PROVE IInv'
  BY <1>5, WriteFailsStep, PublishedUnsyncedStep DEF Fail
<1>6. ASSUME NEW h \in Handles, Closing(h) PROVE IInv'
  BY <1>6, CloseChecksStep, CloseReleasesStep, KernelUnlocksStep, LockReleasedStep,
     HandleReleasedStep DEF Closing
<1>7. ASSUME NEW f \in Flushers, NEW p \in Procs, Flush(f, p) PROVE IInv'
  BY <1>7, FlushStep
<1>8. ASSUME NEW f \in Flushers, Barrier(f) PROVE IInv'
  BY <1>8, BarrierStep
<1>9. ASSUME NEW p \in Procs, Crash(p) PROVE IInv'
  BY <1>9, CrashStep
<1>10. CASE UNCHANGED vars
  BY <1>10, StutterStep
<1> QED BY <1>1, <1>2, <1>3, <1>4, <1>5, <1>6, <1>7, <1>8, <1>9, <1>10 DEF Next

(* The invariant holds in every state the storage plugin can reach. *)
THEOREM IInvHolds == Spec => []IInv
<1>1. Init => IInv
  BY InitOK
<1>2. IInv /\ [Next]_vars => IInv'
  BY NextOK
<1> QED BY <1>1, <1>2, PTL DEF Spec

(* Every record keeps its fields: stages, chains, cursors and marks are what*)
(* the code means by them, however many steps it takes.                     *)
THEOREM TypeCorrect == Spec => []TypeOK
<1>1. IInv => TypeOK
  BY DEF IInv
<1> QED BY <1>1, IInvHolds, PTL

(* No event is lost, doubled or reordered in memory: the batch being written*)
(* and the buffer of a live handle are together the seqs after its cursor,  *)
(* through the failures that put a batch back (drainBatch) and the events   *)
(* logged meanwhile.                                                        *)
THEOREM EventsAccounted == Spec => []Accounted
<1>1. IInv => Accounted
  <2> SUFFICES ASSUME IInv, NEW h \in Handles, handle[h].life = "live"
               PROVE  handle[h].batch \o handle[h].buffered
                        = Seqs(handle[h].cursor, handle[h].next - handle[h].cursor)
    BY DEF Accounted
  <2> DEFINE r == handle[h]
  <2>1. HandleOK(r) /\ r.chain \in Seq(Ops)
    BY DEF IInv, AllOK, TypeOK, HandleRecord
  <2>2. ~Runs(r, "append")
    BY <2>1, PlacedFirst DEF HandleOK, Stage, OneAppend, Runs
  <2> QED BY <2>1, <2>2 DEF HandleOK, Kept
<1> QED BY <1>1, IInvHolds, PTL

(* No operation of the chain writes without the lease of its session and,   *)
(* while no close has released it, the lock of its file (ensureLease before *)
(* every write).                                                            *)
THEOREM WritesUnderTheLock == Spec => []WritesOwned
<1>1. IInv => WritesOwned
  BY DEF IInv, AllOK, HandleOK, Stage, Owned, WritesOwned
<1> QED BY <1>1, IInvHolds, PTL

(* When flush resolves, every event logged before the call is in the file,  *)
(* unless a producer went on logging under it or the handle still owes a    *)
(* repair.                                                                  *)
THEOREM FlushIsDurable == Spec => []FlushedIsDurable
<1>1. IInv => FlushedIsDurable
  BY DEF IInv
<1> QED BY <1>1, IInvHolds, PTL

(* A drain whose turn comes has events to take, and has taken them when it  *)
(* writes: the check of the loop and the turn in the chain are steps apart, *)
(* with other operations in between.                                        *)
THEOREM DrainHasItsBatch == Spec => []DrainFindsItsBatch
<1>1. IInv => DrainFindsItsBatch
  <2> SUFFICES ASSUME IInv, NEW h \in Handles
               PROVE  LET r == handle[h]
                      IN /\ r.drain = "queued" /\ r.at = "idle" => r.buffered # <<>>
                         /\ r.at # "idle" /\ Head(r.chain).op = "drain" => r.batch # <<>>
    BY DEF DrainFindsItsBatch
  <2> DEFINE r == handle[h]
  <2>1. HandleOK(r) /\ r.chain \in Seq(Ops)
    BY DEF IInv, AllOK, TypeOK, HandleRecord
  <2>2. r.at # "idle" /\ Head(r.chain).op = "drain" => r.drain = "queued"
    BY <2>1, PlacedFirst DEF HandleOK, Stage, OneDrain
  <2> QED BY <2>1, <2>2 DEF HandleOK, OneDrain
<1> QED BY <1>1, IInvHolds, PTL

(* A close that resolves has written all that was logged, if no producer    *)
(* logs once it was asked for.  Without that assumption it does not hold:   *)
(* see WriteBehindTimer.                                                    *)
THEOREM CloseIsLossless ==
  ASSUME ~LateProducers
  PROVE  Spec => []CloseLosesNothing
<1>1. IInv => CloseLosesNothing
  <2> SUFFICES ASSUME IInv, NEW h \in Handles, handle[h].closing = "done",
                      ~handle[h].closeFailed, handle[h].repair = "none"
               PROVE  handle[h].next <= Len(disk.log)
    BY DEF CloseLosesNothing
  <2> DEFINE r == handle[h]
  <2>1. HandleOK(r) /\ r.cursor \in Nat
    BY DEF IInv, AllOK, TypeOK, HandleRecord
  <2>2. r.cursor = r.next /\ r.recovered = <<>>
    BY <2>1 DEF HandleOK, Stage, Closed
  <2>3. r.cursor <= Len(disk.log) + Len(r.recovered)
    BY DEF IInv, OnDisk
  <2>4. Len(disk.log) \in Nat /\ Len(r.recovered) = 0
    BY <2>2 DEF IInv, TypeOK
  <2> HIDE DEF r
  <2> QED BY <2>1, <2>2, <2>3, <2>4 DEF r
<1> QED BY <1>1, IInvHolds, PTL

-----------------------------------------------------------------------------
(* The file without a gap.  Runs of seqs, cut and joined.                  *)

(* A part at the head of a run is a run. *)
LEMMA SeqsFirst ==
  ASSUME NEW a \in Seq(Nat), NEW b \in Seq(Nat), NEW n \in Nat, NEW m \in Nat,
         a \o b = Seqs(n, m)
  PROVE  a = Seqs(n, Len(a)) /\ Len(a) + Len(b) = m
<1>1. Len(a) + Len(b) = m
  <2>1. Len(a \o b) = Len(a) + Len(b)
    OBVIOUS
  <2> QED BY <2>1, SeqsRun
<1>2. \A i \in 1 .. Len(a) : a[i] = n + i - 1
  <2>1. TAKE i \in 1 .. Len(a)
  <2>2. (a \o b)[i] = a[i]
    OBVIOUS
  <2>3. Seqs(n, m)[i] = n + i - 1
    BY <1>1 DEF Seqs
  <2> QED BY <2>2, <2>3
<1>3. a = [i \in 1 .. Len(a) |-> a[i]]
  OBVIOUS
<1> QED BY <1>1, <1>2, <1>3 DEF Seqs

(* Each of two sequences joined, where it is in the join. *)
LEMMA JoinedAt ==
  ASSUME NEW a \in Seq(Nat), NEW b \in Seq(Nat)
  PROVE  /\ \A i \in 1 .. Len(a) : (a \o b)[i] = a[i]
         /\ \A i \in 1 .. Len(b) : (a \o b)[Len(a) + i] = b[i]
<1>1. \A i \in 1 .. Len(a) : (a \o b)[i] = a[i]
  OBVIOUS
<1>2. \A i \in 1 .. Len(b) : (a \o b)[Len(a) + i] = b[i]
  OBVIOUS
<1> QED BY <1>1, <1>2

(* Two runs that follow one another are one. *)
LEMMA SeqsJoin ==
  ASSUME NEW n \in Nat, NEW m \in Nat, NEW k \in Nat
  PROVE  Seqs(n, m) \o Seqs(n + m, k) = Seqs(n, m + k)
<1> DEFINE a == Seqs(n, m)  b == Seqs(n + m, k)  c == Seqs(n, m + k)
<1>1. /\ a \in Seq(Nat) /\ Len(a) = m /\ b \in Seq(Nat) /\ Len(b) = k
      /\ c \in Seq(Nat) /\ Len(c) = m + k
  <2>1. n + m \in Nat /\ m + k \in Nat
    OBVIOUS
  <2> QED BY <2>1, SeqsRun
<1>2. /\ \A i \in 1 .. m : a[i] = n + i - 1
      /\ \A i \in 1 .. k : b[i] = n + m + i - 1
      /\ \A i \in 1 .. m + k : c[i] = n + i - 1
  BY DEF Seqs
<1> HIDE DEF a, b, c
<1> DEFINE d == a \o b
<1>3. d \in Seq(Nat) /\ Len(d) = m + k
  BY <1>1, Longer2
<1>4. /\ \A i \in 1 .. m : d[i] = a[i]
      /\ \A i \in 1 .. k : d[m + i] = b[i]
  BY <1>1, JoinedAt
<1> HIDE DEF d
<1>5. ASSUME NEW i \in 1 .. m + k PROVE d[i] = c[i]
  <2>1. i \in Nat /\ i >= 1 /\ c[i] = n + i - 1
    BY <1>2
  <2>2. CASE i \in 1 .. m
    BY <1>2, <1>4, <2>1, <2>2
  <2>3. CASE i > m
    <3>0. i - m \in 1 .. k /\ m + (i - m) = i
      BY <2>1, <2>3
    <3>1. i - m \in 1 .. k /\ d[i] = b[i - m]
      BY <1>4, <3>0
    <3>2. b[i - m] = n + m + (i - m) - 1
      BY <1>2, <3>1
    <3> QED BY <2>1, <3>1, <3>2
  <2> QED BY <2>1, <2>2, <2>3
<1>6. /\ d = [i \in 1 .. m + k |-> d[i]]
      /\ c = [i \in 1 .. m + k |-> c[i]]
  BY <1>1, <1>3
<1>7. d = c
  BY <1>5, <1>6
<1> QED BY <1>7 DEF a, b, c, d

(* The first seqs of a run are a run. *)
LEMMA SeqsCut ==
  ASSUME NEW n \in Nat, NEW m \in Nat, NEW k \in 0 .. m
  PROVE  SubSeq(Seqs(n, m), 1, k) = Seqs(n, k)
<1> DEFINE a == Seqs(n, m)
<1>1. a \in Seq(Nat) /\ Len(a) = m /\ \A i \in 1 .. m : a[i] = n + i - 1
  BY SeqsRun DEF Seqs
<1> HIDE DEF a
<1>2. SubSeq(a, 1, k) = [i \in 1 .. k |-> a[i]]
  BY <1>1
<1>3. \A i \in 1 .. k : a[i] = n + i - 1
  BY <1>1
<1> QED BY <1>2, <1>3 DEF a, Seqs

(* A whole run, cut in two. *)
LEMMA SeqsSplit ==
  ASSUME NEW a \in Seq(Nat), NEW b \in Seq(Nat), NEW m \in Nat, a \o b = Seqs(0, m)
  PROVE  a = Seqs(0, Len(a)) /\ b = Seqs(Len(a), Len(b)) /\ Len(a) \in Nat /\ Len(b) \in Nat
<1> DEFINE n == 0
<1>0. n \in Nat /\ m \in Nat /\ a \in Seq(Nat) /\ b \in Seq(Nat) /\ a \o b = Seqs(n, m)
  OBVIOUS
<1> HIDE DEF n
<1>1. a = Seqs(0, Len(a))
  <2>1. Len(a \o b) = Len(a) + Len(b) /\ Len(a \o b) = m
    <3>1. Len(a \o b) = Len(a) + Len(b)
      OBVIOUS
    <3> QED BY <3>1, SeqsRun
  <2>2. ASSUME NEW i \in 1 .. Len(a) PROVE a[i] = 0 + i - 1
    <3>1. (a \o b)[i] = a[i]
      BY JoinedAt
    <3>2. Seqs(0, m)[i] = 0 + i - 1
      BY <2>1 DEF Seqs
    <3> QED BY <3>1, <3>2
  <2>3. a = [i \in 1 .. Len(a) |-> a[i]]
    OBVIOUS
  <2> QED BY <2>2, <2>3 DEF Seqs
<1>2. Len(a) + Len(b) = m /\ <<>> \o b = Seqs(0 + Len(a), m - Len(a))
  <2>1. Len(a) + Len(b) = m /\ <<>> \o b = Seqs(n + Len(a), m - Len(a))
    BY <1>0, SeqsRest, ZenonT(60)
  <2> QED BY <2>1 DEF n
<1>3. <<>> \o b = b
  BY NoPrefix
<1>4. Len(a) \in Nat /\ Len(b) \in Nat
  OBVIOUS
<1>5. 0 + Len(a) = Len(a) /\ m - Len(a) = Len(b)
  <2> DEFINE k == Len(a)  l == Len(b)
  <2> HIDE DEF k, l
  <2>1. k \in Nat /\ l \in Nat /\ k + l = m
    BY <1>2, <1>4 DEF k, l
  <2>2. 0 + k = k /\ m - k = l
    BY <2>1
  <2> QED BY <2>2 DEF k, l
<1> QED BY <1>1, <1>2, <1>3, <1>4, <1>5

(* The handle whose operations may still write: in use, and its lock not   *)
(* given back.                                                             *)
Acts(r, holds) ==
  /\ r.life \notin {"new", "dead"} /\ r.closing \notin {"released", "done"}
  /\ r.closing = "release" => holds
Active(h) == Acts(handle[h], lock = h)

(* There is one at most, and the lock is its own, with its lease, if it is *)
(* anybody's.                                                              *)
Sole   == \A g, h \in Handles : Active(g) /\ Active(h) => g = h
Holder == lock # 0 => lock \in Handles /\ Active(lock) /\ handle[lock].leased

(* No operation is under way once the lock is given back, none fails, and  *)
(* nothing is known of the file that was not read or written under lease.  *)
Steady(r) ==
  /\ r.life \in {"new", "dead"} => r.at = "idle" /\ r.chain = <<>> /\ r.drain = "none"
  /\ r.at # "idle" => r.closing \notin {"release", "released", "done"}
  /\ r.at = "lease" => ~r.leased
  /\ r.materialized \/ r.closing = "release" => r.leased
  /\ r.drain # "failed" /\ ~r.closeFailed

(* What the writer takes the file for is what it is.                       *)
Aligned(r, d) ==
  /\ ~r.materialized => ~d.exists
  /\ d.log \o r.recovered = Seqs(0, r.cursor)
  /\ d.tail = IF r.repair = "truncate" THEN r.recovered ELSE <<>>

(* The inductive invariant that LogContiguous needs beside IInv.           *)
CInv ==
  /\ LogContiguous /\ Sole /\ Holder
  /\ \A h \in Handles : Steady(handle[h]) /\ (Active(h) => Aligned(handle[h], disk))

SameFile(r, s) ==
  /\ s.materialized = r.materialized /\ s.cursor = r.cursor
  /\ s.repair = r.repair /\ s.recovered = r.recovered

(* A step that leaves the file: nobody begins to write, and no writer      *)
(* forgets what it knows.                                                  *)
LEMMA FileStays ==
  ASSUME CInv, UNCHANGED disk,
         \A g \in Handles : Steady(handle'[g]),
         \A g \in Handles : Acts(handle'[g], lock' = g) => Active(g) /\ SameFile(handle[g], handle'[g]),
         lock' # 0 => lock' \in Handles /\ Acts(handle'[lock'], TRUE) /\ handle'[lock'].leased
  PROVE  CInv'
<1>1. LogContiguous'
  BY DEF CInv, LogContiguous
<1>2. Sole'
  BY DEF CInv, Sole, Active
<1>3. Holder'
  BY DEF Holder, Active
<1>4. ASSUME NEW g \in Handles, Active(g)' PROVE Aligned(handle'[g], disk')
  <2>1. Active(g) /\ SameFile(handle[g], handle'[g])
    BY <1>4 DEF Active
  <2>2. Aligned(handle[g], disk)
    BY <2>1 DEF CInv
  <2> QED BY <2>1, <2>2 DEF Aligned, SameFile
<1> QED BY <1>1, <1>2, <1>3, <1>4 DEF CInv

(* One handle changes, and stays a writer or none.                         *)
LEMMA HandleMoves ==
  ASSUME TypeOK, CInv, NEW h \in Handles, NEW s \in HandleRecord,
         handle' = [handle EXCEPT ![h] = s], UNCHANGED <<disk, lock>>,
         Steady(s), SameFile(handle[h], s), s.leased = handle[h].leased,
         s.life \in {"new", "dead"} <=> handle[h].life \in {"new", "dead"},
         \/ s.closing = handle[h].closing
         \/ {s.closing, handle[h].closing} \cap {"release", "released", "done"} = {}
  PROVE  CInv'
<1>1. /\ handle'[h] = s /\ \A g \in Handles : g # h => handle'[g] = handle[g]
  BY DEF TypeOK
<1>2. \A g \in Handles : Steady(handle'[g])
  BY <1>1 DEF CInv
<1>3. \A x : Acts(s, x) <=> Acts(handle[h], x)
  BY DEF Acts
<1>4. ASSUME NEW g \in Handles, Acts(handle'[g], lock' = g)
      PROVE  Active(g) /\ SameFile(handle[g], handle'[g])
  <2>1. CASE g = h
    BY <1>1, <1>3, <1>4, <2>1 DEF Active
  <2>2. CASE g # h
    BY <1>1, <1>4, <2>2 DEF Active, SameFile
  <2> QED BY <2>1, <2>2
<1>5. ASSUME lock' # 0
      PROVE  lock' \in Handles /\ Acts(handle'[lock'], TRUE) /\ handle'[lock'].leased
  <2>1. lock \in Handles /\ Acts(handle[lock], TRUE) /\ handle[lock].leased
    BY <1>5 DEF CInv, Holder, Active
  <2>2. CASE lock = h
    BY <1>1, <1>3, <2>1, <2>2
  <2>3. CASE lock # h
    BY <1>1, <2>1, <2>3
  <2> QED BY <2>2, <2>3
<1> QED BY <1>2, <1>4, <1>5, FileStays

(* The writer writes.                                                      *)
LEMMA WriterWrites ==
  ASSUME TypeOK, CInv, NEW h \in Handles, Active(h), NEW s \in HandleRecord,
         handle' = [handle EXCEPT ![h] = s], UNCHANGED lock,
         Steady(s), s.leased = handle[h].leased, s.closing = handle[h].closing,
         s.life \in {"new", "dead"} <=> handle[h].life \in {"new", "dead"},
         Aligned(s, disk'), LogContiguous'
  PROVE  CInv'
<1>1. /\ handle'[h] = s /\ \A g \in Handles : g # h => handle'[g] = handle[g]
  BY DEF TypeOK
<1>2. \A g \in Handles : Steady(handle'[g])
  BY <1>1 DEF CInv
<1>3. \A g \in Handles : Active(g)' => g = h
  <2>1. ASSUME NEW g \in Handles, g # h, Active(g)' PROVE FALSE
    <3>1. Active(g)
      BY <1>1, <2>1 DEF Active
    <3> QED BY <2>1, <3>1 DEF CInv, Sole
  <2> QED BY <2>1
<1>4. Sole'
  BY <1>3 DEF Sole
<1>5. Holder'
  <2>1. ASSUME lock # 0 PROVE lock = h /\ Active(h)' /\ handle'[h].leased
    <3>1. lock = h /\ handle[h].leased
      BY <2>1 DEF CInv, Holder, Sole
    <3> QED BY <1>1, <3>1 DEF Active, Acts
  <2> QED BY <2>1 DEF Holder
<1> QED BY <1>1, <1>2, <1>3, <1>4, <1>5 DEF CInv

(* Nobody may write while another has the session to itself.               *)
LEMMA NobodyWrites ==
  ASSUME IInv, CInv, lock = 0, disk.exists, NEW g \in Handles
  PROVE  ~Active(g)
<1> SUFFICES ASSUME Active(g) PROVE FALSE
  OBVIOUS
<1>1. Steady(handle[g]) /\ Aligned(handle[g], disk) /\ g # 0
  BY DEF CInv, Handles
<1>2. handle[g].materialized /\ handle[g].leased
  BY <1>1 DEF Aligned, Steady
<1>3. handle[g].closing \notin {"release", "released", "done"}
  BY <1>1 DEF Active, Acts
<1> QED BY <1>1, <1>2, <1>3 DEF IInv, Owned

(* A handle comes into use and finds the file as it is.                    *)
LEMMA WriterOpens ==
  ASSUME IInv, CInv, NEW h \in Handles, NEW s \in HandleRecord,
         \A g \in Handles : ~Active(g),
         handle' = [handle EXCEPT ![h] = s], UNCHANGED disk,
         lock = 0, IF s.leased THEN lock' = h ELSE lock' = 0,
         s.life = "opened", s.closing = "open", s.at = "idle", s.drain = "none",
         ~s.closeFailed, s.materialized = s.leased, Aligned(s, disk)
  PROVE  CInv'
<1>1. /\ handle'[h] = s /\ \A g \in Handles : g # h => handle'[g] = handle[g]
  BY DEF IInv, TypeOK
<1>2. Steady(s) /\ Acts(s, TRUE) /\ h # 0
  BY DEF Steady, Acts, Handles
<1>3. \A g \in Handles : Steady(handle'[g])
  BY <1>1, <1>2 DEF CInv
<1>4. \A g \in Handles : Active(g)' => g = h
  <2>1. ASSUME NEW g \in Handles, g # h, Active(g)' PROVE FALSE
    <3>1. Acts(handle[g], lock' = g) /\ lock' # g /\ ~Acts(handle[g], lock = g)
      BY <1>1, <2>1 DEF Active, Handles
    <3> QED BY <3>1 DEF Acts
  <2> QED BY <2>1
<1>5. Holder'
  BY <1>1, <1>2 DEF Holder, Active, Acts
<1>6. LogContiguous'
  BY DEF CInv, LogContiguous
<1>7. Sole'
  BY <1>4 DEF Sole
<1>8. \A g \in Handles : Active(g)' => Aligned(handle'[g], disk')
  BY <1>1, <1>4
<1> QED BY <1>3, <1>5, <1>6, <1>7, <1>8 DEF CInv

LEMMA CreateContinues ==
  ASSUME IInv, CInv, NEW h \in Handles, NEW p \in Procs, Create(h, p)
  PROVE  CInv'
<1> DEFINE s == [Fresh EXCEPT !.life = "opened", !.home = p]
<1>1. /\ handle' = [handle EXCEPT ![h] = s] /\ UNCHANGED <<disk, lock>> /\ ~disk.exists
      /\ \A g \in Handles : handle[g].life \in {"new", "closed", "dead"}
  BY DEF Create
<1>2. s \in HandleRecord
  BY FreshRecord DEF HandleRecord, Lives
<1>3. /\ s.at = "idle" /\ s.cursor = 0 /\ s.closing = "open" /\ s.drain = "none"
      /\ s.life = "opened" /\ s.repair = "none" /\ s.recovered = <<>> /\ ~s.leased
      /\ ~s.materialized /\ ~s.closeFailed
  BY FreshRecord DEF Fresh
<1> HIDE DEF s
<1>4. \A g \in Handles : ~Active(g)
  BY <1>1 DEF IInv, AllOK, HandleOK, Closed, Active, Acts
<1>5. lock = 0
  BY <1>4 DEF CInv, Holder
<1>6. Aligned(s, disk)
  <2>1. disk.log = <<>> /\ disk.tail = <<>>
    BY <1>1 DEF IInv, OnDisk
  <2>2. <<>> \o <<>> = Seqs(0, 0)
    BY SeqsNone
  <2> QED BY <1>1, <1>3, <2>1, <2>2 DEF Aligned
<1>7. s.leased = FALSE /\ s.materialized = FALSE
  BY <1>2, <1>3 DEF HandleRecord
<1> QED BY <1>1, <1>2, <1>3, <1>4, <1>5, <1>6, <1>7, WriterOpens

LEMMA OpenContinues ==
  ASSUME IInv, CInv, NEW h \in Handles, NEW p \in Procs, Open(h, p)
  PROVE  CInv'
<1> DEFINE stored == Len(disk.log) + Len(disk.tail)
           repair == IF disk.torn THEN "truncate" ELSE "none"
           s == [Fresh EXCEPT !.life = "opened", !.home = p, !.leased = TRUE,
                              !.cursor = stored, !.next = stored, !.materialized = TRUE,
                              !.repair = repair, !.recovered = disk.tail]
<1>1. /\ handle' = [handle EXCEPT ![h] = s] /\ UNCHANGED disk /\ lock = 0 /\ lock' = h /\ disk.exists
  BY DEF Open
<1>2. stored \in Nat /\ disk.tail \in Seq(Nat) /\ disk.log \in Seq(Nat)
  <2>1. disk.tail \in Seq(Nat) /\ disk.log \in Seq(Nat)
    BY DEF IInv, TypeOK
  <2>2. Len(disk.tail) \in Nat /\ Len(disk.log) \in Nat
    BY <2>1
  <2> QED BY <2>1, <2>2, AddsUp
<1>3. repair \in {"none", "truncate"} /\ (repair = "none" => disk.tail = <<>>)
  BY DEF IInv, OnDisk
<1>4. stored = Len(disk.log) + Len(disk.tail)
  OBVIOUS
<1> HIDE DEF stored, repair
<1>5. s \in HandleRecord
  BY <1>2, <1>3, FreshRecord DEF HandleRecord, Lives
<1>6. /\ s.at = "idle" /\ s.cursor = stored /\ s.closing = "open" /\ s.drain = "none"
      /\ s.life = "opened" /\ s.repair = repair /\ s.recovered = disk.tail /\ s.leased = TRUE
      /\ s.materialized = TRUE /\ ~s.closeFailed
  BY FreshRecord DEF Fresh
<1> HIDE DEF s
<1>7. \A g \in Handles : ~Active(g)
  BY <1>1, NobodyWrites
<1>8. Aligned(s, disk)
  BY <1>3, <1>4, <1>6 DEF Aligned, CInv, LogContiguous
<1> QED BY <1>1, <1>5, <1>6, <1>7, <1>8, WriterOpens

(* Steps in memory.                                                        *)
LEMMA PublishSessionContinues ==
  ASSUME IInv, CInv, NEW h \in Handles, PublishSession(h)
  PROVE  CInv'
<1> DEFINE r == handle[h]
           s == [r EXCEPT !.life = "live"]
<1>1. r \in HandleRecord /\ r.life = "opened" /\ Steady(r) /\ TypeOK
  BY DEF IInv, TypeOK, PublishSession, CInv
<1>2. s \in HandleRecord /\ handle' = [handle EXCEPT ![h] = s] /\ UNCHANGED <<disk, lock>>
  BY <1>1 DEF HandleRecord, Lives, PublishSession
<1>3. /\ SameFile(r, s) /\ s.leased = r.leased /\ s.closing = r.closing /\ s.life = "live"
      /\ s.at = r.at /\ s.chain = r.chain /\ s.drain = r.drain /\ s.closeFailed = r.closeFailed
      /\ s.materialized = r.materialized
  BY <1>1 DEF HandleRecord, SameFile
<1> HIDE DEF s
<1>4. Steady(s)
  BY <1>1, <1>3 DEF Steady
<1> QED BY <1>1, <1>2, <1>3, <1>4, HandleMoves

LEMMA AppendClosersContinues ==
  ASSUME IInv, CInv, NEW h \in Handles, AppendClosers(h)
  PROVE  CInv'
<1> DEFINE r == handle[h]
           c == Append(r.chain, Op("append", "none"))
           s == [r EXCEPT !.life = "appending", !.chain = c]
<1>1. r \in HandleRecord /\ r.life = "opened" /\ Steady(r) /\ TypeOK
  BY DEF IInv, TypeOK, AppendClosers, CInv
<1>2. c \in Seq(Ops)
  BY <1>1, OpsAreTyped DEF OpsTyped, HandleRecord
<1>3. handle' = [handle EXCEPT ![h] = s] /\ UNCHANGED <<disk, lock>>
  BY DEF AppendClosers
<1> HIDE DEF c
<1>4. s \in HandleRecord
  BY <1>1, <1>2 DEF HandleRecord, Lives
<1>5. /\ SameFile(r, s) /\ s.leased = r.leased /\ s.closing = r.closing /\ s.life = "appending"
      /\ s.at = r.at /\ s.drain = r.drain /\ s.closeFailed = r.closeFailed
      /\ s.materialized = r.materialized
  BY <1>1 DEF HandleRecord, SameFile
<1> HIDE DEF s
<1>6. Steady(s)
  BY <1>1, <1>5 DEF Steady
<1> QED BY <1>1, <1>3, <1>4, <1>5, <1>6, HandleMoves

LEMMA PublishContinues ==
  ASSUME IInv, CInv, NEW h \in Handles, Publish(h)
  PROVE  CInv'
<1> DEFINE r == handle[h]
           s == Enqueued([r EXCEPT !.next = @ + 1], r.next)
<1>1. r \in HandleRecord /\ HandleOK(r) /\ r.life = "live" /\ Steady(r) /\ TypeOK
  BY DEF IInv, AllOK, TypeOK, Publish, CInv
<1>2. claim[r.home] = h /\ h # 0
  <2>1. r.closing # "done"
    BY <1>1 DEF HandleOK, Closed
  <2> QED BY <1>1, <2>1 DEF IInv, Claimed, Alive, Handles
<1>3. handle' = [handle EXCEPT ![h] = s] /\ UNCHANGED <<disk, lock>>
  BY <1>2, ZenonT(60) DEF Publish, Enqueued, IInv, TypeOK
<1>4. Append(r.buffered, r.next) \in Seq(Nat) /\ r.next + 1 \in Nat
  <2>1. r.buffered \in Seq(Nat) /\ r.next \in Nat
    BY <1>1 DEF HandleRecord
  <2> QED BY <2>1
<1>5. s \in HandleRecord
  BY <1>1, <1>4 DEF HandleRecord, Enqueued
<1>6. /\ SameFile(r, s) /\ s.leased = r.leased /\ s.closing = r.closing /\ s.life = r.life
      /\ s.at = r.at /\ s.chain = r.chain /\ s.drain = r.drain /\ s.closeFailed = r.closeFailed
      /\ s.materialized = r.materialized
  BY <1>1 DEF HandleRecord, Enqueued, SameFile
<1> HIDE DEF s
<1>7. Steady(s)
  BY <1>1, <1>6 DEF Steady
<1> QED BY <1>1, <1>3, <1>5, <1>6, <1>7, HandleMoves

(* drainLive touches neither the file nor what is known of it. *)
LEMMA DrainKeeps ==
  ASSUME NEW r \in HandleRecord, NEW s, s = DrainLive(r)
  PROVE  /\ SameFile(r, s) /\ s.leased = r.leased /\ s.closing = r.closing /\ s.life = r.life
         /\ s.at = r.at /\ s.closeFailed = r.closeFailed
         /\ s.drain = "failed" => r.drain = "failed"
<1> DEFINE t == [r EXCEPT !.timer = FALSE, !.paused = FALSE]
<1>1. CASE r.drain # "none"
  BY <1>1 DEF DrainLive, SameFile
<1>2. CASE r.drain = "none" /\ r.buffered = <<>>
  <2>1. s = [t EXCEPT !.drain = "gap"]
    BY <1>2 DEF DrainLive, DrainStarted
  <2> QED BY <2>1 DEF HandleRecord, SameFile
<1>3. CASE r.drain = "none" /\ r.buffered # <<>>
  <2> DEFINE c == Append(t.chain, Op("drain", "none"))
  <2>1. s = [t EXCEPT !.drain = "queued", !.chain = c]
    BY <1>3 DEF DrainLive, DrainStarted
  <2> HIDE DEF c
  <2> QED BY <2>1 DEF HandleRecord, SameFile
<1> QED BY <1>1, <1>2, <1>3

(* A step that begins with drainLive. *)
LEMMA DrainContinues ==
  ASSUME IInv, CInv, NEW h \in Handles, Alive(h), NEW t \in HandleRecord, HandleOK(t),
         handle' = [handle EXCEPT ![h] = DrainLive(t)], UNCHANGED <<disk, lock>>,
         SameFile(handle[h], t), t.leased = handle[h].leased, t.life = handle[h].life,
         t.at = handle[h].at, t.drain = handle[h].drain, t.closeFailed = handle[h].closeFailed,
         \/ t.closing = handle[h].closing
         \/ {t.closing, handle[h].closing} \cap {"release", "released", "done"} = {}
  PROVE  CInv'
<1> DEFINE s == DrainLive(t)
           r == handle[h]
<1>1. s \in HandleRecord /\ TypeOK
  BY DrainLives DEF IInv
<1>2. /\ SameFile(t, s) /\ s.leased = t.leased /\ s.closing = t.closing /\ s.life = t.life
      /\ s.at = t.at /\ s.closeFailed = t.closeFailed
      /\ s.drain = "failed" => t.drain = "failed"
  BY DrainKeeps
<1>3. handle' = [handle EXCEPT ![h] = s]
  OBVIOUS
<1> HIDE DEF s
<1>4. SameFile(r, s)
  BY <1>2 DEF SameFile
<1>5. Steady(s)
  <2>1. Steady(r) /\ r.life \notin {"new", "dead"}
    BY DEF CInv, Alive
  <2>2. /\ s.at = r.at /\ s.leased = r.leased /\ s.materialized = r.materialized /\ s.life = r.life
        /\ s.closeFailed = r.closeFailed /\ (s.drain = "failed" => r.drain = "failed")
        /\ \/ s.closing = r.closing
           \/ {s.closing, r.closing} \cap {"release", "released", "done"} = {}
    BY <1>2, <1>4 DEF SameFile
  <2> HIDE DEF r
  <2> QED BY <2>1, <2>2 DEF Steady
<1> QED BY <1>1, <1>2, <1>3, <1>4, <1>5, HandleMoves

LEMMA TimerFiresContinues ==
  ASSUME IInv, CInv, NEW h \in Handles, TimerFires(h)
  PROVE  CInv'
<1> DEFINE r == handle[h]
           t == [r EXCEPT !.timer = FALSE]
<1>1. r \in HandleRecord /\ HandleOK(r) /\ Alive(h)
  BY DEF IInv, TypeOK, AllOK, TimerFires
<1>2. t \in HandleRecord
  BY <1>1 DEF HandleRecord
<1>3. /\ SameFields(r, t) /\ SameFile(r, t) /\ t.chain = r.chain /\ t.drain = r.drain
      /\ t.repair = r.repair /\ t.buffered = r.buffered /\ t.batch = r.batch /\ t.at = r.at
      /\ t.wait = r.wait /\ t.closeFailed = r.closeFailed
  BY <1>1 DEF HandleRecord, SameFields, SameFile
<1>4. handle' = [handle EXCEPT ![h] = DrainLive(t)] /\ UNCHANGED <<disk, lock>>
  BY DEF TimerFires
<1> HIDE DEF r, t
<1>5. HandleOK(t)
  BY <1>1, <1>2, <1>3, MovesOK DEF SameFields
<1> QED BY <1>1, <1>2, <1>3, <1>4, <1>5, DrainContinues DEF r, SameFields

LEMMA FlushContinues ==
  ASSUME IInv, CInv, NEW f \in Flushers, NEW p \in Procs, Flush(f, p)
  PROVE  CInv'
<1> DEFINE h == claim[p]
           r == handle[h]
<1>1. h \in Handles /\ Alive(h)
  <2>1. h \in 0 .. NumHandles /\ h # 0
    BY DEF IInv, TypeOK, Flush
  <2> QED BY <2>1, StorageAssumption DEF IInv, Claimed, Handles
<1>2. r \in HandleRecord /\ HandleOK(r)
  BY <1>1 DEF IInv, TypeOK, AllOK
<1>3. handle' = [handle EXCEPT ![h] = DrainLive(r)] /\ UNCHANGED <<disk, lock>>
  BY <1>1 DEF Flush, IInv, TypeOK
<1>4. SameFile(r, r)
  BY DEF SameFile
<1> HIDE DEF h
<1> QED BY <1>1, <1>2, <1>3, <1>4, DrainContinues

LEMMA DrainForCloseContinues ==
  ASSUME IInv, CInv, NEW h \in Handles, Alive(h), handle[h].closing \in {"open", "chain"},
         handle' = [handle EXCEPT ![h] = DrainLive([handle[h] EXCEPT !.closing = "drain"])],
         UNCHANGED <<disk, lock>>
  PROVE  CInv'
<1> DEFINE r == handle[h]
           t == [r EXCEPT !.closing = "drain"]
<1>1. r \in HandleRecord /\ HandleOK(r)
  BY DEF IInv, TypeOK, AllOK
<1>2. t \in HandleRecord
  BY <1>1 DEF HandleRecord, Closes
<1>3. /\ t.closing = "drain" /\ SameFile(r, t) /\ t.chain = r.chain /\ t.drain = r.drain
      /\ t.buffered = r.buffered /\ t.batch = r.batch /\ t.at = r.at /\ t.repair = r.repair
      /\ t.wait = r.wait /\ t.closeFailed = r.closeFailed
      /\ t.home = r.home /\ t.leased = r.leased /\ t.cursor = r.cursor /\ t.next = r.next
      /\ t.materialized = r.materialized /\ t.recovered = r.recovered /\ t.life = r.life
  BY <1>1 DEF HandleRecord, SameFile
<1>4. handle' = [handle EXCEPT ![h] = DrainLive(t)]
  OBVIOUS
<1> HIDE DEF t
<1>5. HandleOK(t)
  BY <1>1, <1>2, <1>3, ClosesOK DEF Alive
<1>6. {t.closing, r.closing} \cap {"release", "released", "done"} = {}
  BY <1>3
<1> QED BY <1>2, <1>3, <1>4, <1>5, <1>6, DrainContinues

LEMMA CloseContinues ==
  ASSUME IInv, CInv, NEW h \in Handles, Close(h)
  PROVE  CInv'
BY DrainForCloseContinues DEF Close

LEMMA CloseChecksContinues ==
  ASSUME IInv, CInv, NEW h \in Handles, CloseChecks(h)
  PROVE  CInv'
<1>1. CASE ~CloseDone(handle[h])
  <2>1. Alive(h)
    BY DEF IInv, AllOK, HandleOK, Closed, CloseChecks, Alive
  <2> QED BY <1>1, <2>1, DrainForCloseContinues DEF CloseChecks
<1>2. CASE CloseDone(handle[h])
  <2> DEFINE r == handle[h]
             s == [r EXCEPT !.closing = "last", !.wait = Len(r.chain)]
  <2>1. r \in HandleRecord /\ Steady(r) /\ TypeOK /\ r.closing = "chain"
    BY DEF IInv, TypeOK, CInv, CloseChecks
  <2>2. Len(r.chain) \in Nat
    BY <2>1 DEF HandleRecord
  <2>3. s \in HandleRecord
    BY <2>1, <2>2 DEF HandleRecord, Closes
  <2>4. /\ SameFile(r, s) /\ s.leased = r.leased /\ s.closing = "last" /\ s.life = r.life
        /\ s.at = r.at /\ s.chain = r.chain /\ s.drain = r.drain /\ s.closeFailed = r.closeFailed
        /\ s.materialized = r.materialized
    BY <2>1 DEF HandleRecord, SameFile
  <2>5. handle' = [handle EXCEPT ![h] = s] /\ UNCHANGED <<disk, lock>>
    BY <1>2 DEF CloseChecks
  <2> HIDE DEF s
  <2>6. Steady(s)
    BY <2>1, <2>4 DEF Steady
  <2>7. {s.closing, r.closing} \cap {"release", "released", "done"} = {}
    BY <2>1, <2>4
  <2> QED BY <2>1, <2>3, <2>4, <2>5, <2>6, <2>7, HandleMoves
<1> QED BY <1>1, <1>2

LEMMA DrainChecksContinues ==
  ASSUME IInv, CInv, NEW h \in Handles, DrainChecks(h)
  PROVE  CInv'
<1> DEFINE r == handle[h]
           s == IF r.buffered = <<>> THEN [r EXCEPT !.drain = "gap"]
                ELSE [r EXCEPT !.drain = "queued", !.chain = Append(@, Op("drain", "none"))]
<1>1. r \in HandleRecord /\ HandleOK(r) /\ r.drain = "check" /\ Steady(r) /\ TypeOK
  BY DEF IInv, TypeOK, AllOK, CInv, DrainChecks
<1>2. handle' = [handle EXCEPT ![h] = s] /\ UNCHANGED <<disk, lock>>
  BY DEF DrainChecks
<1>3. r.life \notin {"new", "dead"}
  BY <1>1 DEF Steady
<1>4. /\ s \in HandleRecord /\ SameFile(r, s) /\ s.leased = r.leased /\ s.closing = r.closing
      /\ s.life = r.life /\ s.at = r.at /\ s.drain # "failed" /\ s.closeFailed = r.closeFailed
      /\ s.materialized = r.materialized
  <2>1. CASE r.buffered = <<>>
    <3>1. s = [r EXCEPT !.drain = "gap"]
      BY <2>1
    <3> HIDE DEF s
    <3> QED BY <1>1, <3>1 DEF HandleRecord, Drains, SameFile
  <2>2. CASE r.buffered # <<>>
    <3> DEFINE c == Append(r.chain, Op("drain", "none"))
    <3>1. c \in Seq(Ops)
      BY <1>1, OpsAreTyped DEF OpsTyped, HandleRecord
    <3>2. s = [r EXCEPT !.drain = "queued", !.chain = c]
      BY <2>2
    <3> HIDE DEF s, c
    <3> QED BY <1>1, <3>1, <3>2 DEF HandleRecord, Drains, SameFile
  <2> QED BY <2>1, <2>2
<1> HIDE DEF s
<1>5. Steady(s)
  BY <1>1, <1>3, <1>4 DEF Steady
<1> QED BY <1>1, <1>2, <1>4, <1>5, HandleMoves

LEMMA DrainSettlesContinues ==
  ASSUME IInv, CInv, NEW h \in Handles, DrainSettles(h)
  PROVE  CInv'
<1> DEFINE r == handle[h]
           t == [r EXCEPT !.drain = "none"]
           s == IF r.closing # "drain" THEN t
                ELSE [t EXCEPT !.closing = "chain", !.closeFailed = FALSE, !.wait = Len(r.chain)]
<1>1. r \in HandleRecord /\ Steady(r) /\ TypeOK /\ r.drain = "gap"
  BY DEF IInv, TypeOK, CInv, Steady, DrainSettles
<1>2. handle' = [handle EXCEPT ![h] = s] /\ UNCHANGED <<disk, lock>>
  <2> DEFINE ok == r.drain = "gap"
             u == IF t.closing # "drain" THEN t
                  ELSE [t EXCEPT !.closing = IF ok THEN "chain" ELSE "last",
                                 !.closeFailed = ~ok, !.wait = Len(t.chain)]
  <2>1. t.closing = r.closing /\ t.chain = r.chain
    BY <1>1 DEF HandleRecord
  <2>2. handle' = [handle EXCEPT ![h] = u] /\ UNCHANGED <<disk, lock>>
    BY DEF DrainSettles
  <2>3. ok = TRUE /\ (~ok) = FALSE
    BY <1>1
  <2> HIDE DEF t, ok
  <2>4. u = s
    BY <2>1, <2>3
  <2> HIDE DEF s, u
  <2> QED BY <2>2, <2>4
<1>3. /\ t \in HandleRecord /\ SameFile(r, t) /\ t.leased = r.leased /\ t.closing = r.closing
      /\ t.life = r.life /\ t.at = r.at /\ t.chain = r.chain /\ t.drain = "none"
      /\ t.closeFailed = r.closeFailed
  BY <1>1 DEF HandleRecord, Drains, SameFile
<1> HIDE DEF t
<1>4. /\ s \in HandleRecord /\ SameFile(r, s) /\ s.leased = r.leased /\ s.life = r.life
      /\ s.at = r.at /\ s.chain = r.chain /\ s.drain = "none" /\ ~s.closeFailed
      /\ s.closing = r.closing \/ (r.closing = "drain" /\ s.closing = "chain")
  <2>1. CASE r.closing # "drain"
    BY <1>1, <1>3, <2>1 DEF Steady
  <2>2. CASE r.closing = "drain"
    <3> DEFINE n == Len(r.chain)
    <3>1. n \in Nat
      BY <1>1 DEF HandleRecord
    <3>2. s = [t EXCEPT !.closing = "chain", !.closeFailed = FALSE, !.wait = n]
      BY <2>2
    <3> HIDE DEF s, n
    <3>3. s \in HandleRecord
      BY <1>3, <3>1, <3>2 DEF HandleRecord, Closes
    <3>4. /\ SameFile(t, s) /\ s.leased = t.leased /\ s.life = t.life /\ s.at = t.at
          /\ s.chain = t.chain /\ s.drain = t.drain /\ ~s.closeFailed /\ s.closing = "chain"
      BY <1>3, <3>2 DEF HandleRecord, SameFile
    <3> QED BY <1>3, <2>2, <3>3, <3>4 DEF SameFile
  <2> QED BY <2>1, <2>2
<1> HIDE DEF s
<1>5. s.materialized = r.materialized
  BY <1>4 DEF SameFile
<1>6. Steady(s)
  BY <1>1, <1>4, <1>5 DEF Steady
<1>7. \/ s.closing = r.closing
      \/ {s.closing, r.closing} \cap {"release", "released", "done"} = {}
  BY <1>4
<1> QED BY <1>1, <1>2, <1>4, <1>6, <1>7, HandleMoves

LEMMA BarrierContinues ==
  ASSUME IInv, CInv, NEW f \in Flushers, Barrier(f)
  PROVE  CInv'
<1> DEFINE h == flusher[f].on
           r == handle[h]
<1>1. /\ UNCHANGED <<disk, lock>> /\ h \in Handles /\ Alive(h)
  <2>1. flusher[f].at = "ready" /\ Waiting(f) /\ h \in 0 .. NumHandles
    BY DEF IInv, TypeOK, Barrier
  <2> QED BY <2>1, StorageAssumption DEF Waiting, Handles, Barrier
<1> HIDE DEF h
<1>2. r \in HandleRecord /\ Steady(r) /\ TypeOK /\ handle \in [Handles -> HandleRecord]
  BY <1>1 DEF IInv, TypeOK, CInv
<1>3. CASE r.closing # "open"
  <2>1. UNCHANGED handle
    BY <1>3 DEF Barrier, h
  <2>2. handle' = [handle EXCEPT ![h] = r] /\ SameFile(r, r)
    BY <1>2, <2>1 DEF SameFile
  <2> QED BY <1>1, <1>2, <2>2, HandleMoves
<1>4. CASE r.closing = "open"
  <2> DEFINE c == Append(r.chain, Op("flush", f))
             s == [r EXCEPT !.chain = c]
  <2>1. handle' = [handle EXCEPT ![h].chain = Append(@, Op("flush", f))]
    BY <1>4 DEF Barrier, h
  <2>2. handle' = [handle EXCEPT ![h] = s]
    BY <1>1, <1>2, <2>1
  <2>3. c \in Seq(Ops)
    <3>1. Op("flush", f) \in Ops /\ r.chain \in Seq(Ops)
      BY <1>2 DEF Op, Ops, HandleRecord
    <3> QED BY <3>1
  <2> HIDE DEF c
  <2>4. s \in HandleRecord
    BY <1>2, <2>3 DEF HandleRecord
  <2>5. /\ SameFile(r, s) /\ s.leased = r.leased /\ s.closing = r.closing /\ s.life = r.life
        /\ s.at = r.at /\ s.drain = r.drain /\ s.closeFailed = r.closeFailed
        /\ s.materialized = r.materialized
    BY <1>2 DEF HandleRecord, SameFile
  <2> HIDE DEF s
  <2>6. Steady(s)
    BY <1>1, <1>2, <2>5 DEF Steady, Alive
  <2> QED BY <1>1, <1>2, <2>2, <2>4, <2>5, <2>6, HandleMoves
<1> QED BY <1>3, <1>4

(* A closed handle has no drain to run: with no producer after its last    *)
(* look nothing is left for one.                                           *)
LEMMA NothingToDrain ==
  ASSUME ~LateProducers, NEW r \in HandleRecord, HandleOK(r), Steady(r), r.at = "idle", r.chain # <<>>,
         Head(r.chain).op = "drain"
  PROVE  r.closing \notin {"release", "released", "done"}
<1>1. r.drain = "queued"
  BY PlacedFirst DEF HandleRecord, HandleOK, OneDrain
<1>2. r.buffered # <<>>
  BY <1>1 DEF HandleOK, OneDrain
<1> QED BY <1>2 DEF HandleOK, Closed, Steady

(* An operation is over. *)
LEMMA OpEnds ==
  ASSUME IInv, CInv, NEW h \in Handles, handle[h].chain # <<>>, NEW s \in HandleRecord,
         handle' = [handle EXCEPT ![h] = s], UNCHANGED <<disk, lock>>,
         SameFile(handle[h], s), s.leased = handle[h].leased, s.closing = handle[h].closing,
         s.closeFailed = handle[h].closeFailed, s.at = "idle", s.drain # "failed",
         s.life \in {handle[h].life, "failed", "live"}
  PROVE  CInv'
<1> DEFINE r == handle[h]
<1>1. Steady(r) /\ TypeOK
  BY DEF IInv, CInv
<1>2. r.life \notin {"new", "dead"}
  BY <1>1 DEF Steady
<1>3. s.materialized = r.materialized /\ s.life \notin {"new", "dead"}
  BY <1>2 DEF SameFile
<1>4. Steady(s)
  <2> HIDE DEF r
  <2> QED BY <1>1, <1>3 DEF Steady, r
<1> QED BY <1>1, <1>2, <1>3, <1>4, HandleMoves

LEMMA TurnBeginsContinues ==
  ASSUME ~LateProducers, IInv, CInv, NEW h \in Handles, TurnBegins(h)
  PROVE  CInv'
<1> DEFINE r == handle[h]
           op == Head(r.chain).op
           refused  == op # "drain" /\ r.closing # "open"
           finished == op = "flush" /\ r.materialized
<1>1. r \in HandleRecord /\ HandleOK(r) /\ Steady(r) /\ TypeOK
  BY DEF IInv, TypeOK, AllOK, CInv
<1>2. r.chain # <<>> /\ r.at = "idle" /\ UNCHANGED <<disk, lock>>
  BY DEF TurnBegins
<1>3. r.life \notin {"new", "dead"}
  BY <1>1, <1>2 DEF Steady
<1>4. CASE refused
  <2> DEFINE s == Failed(r)
  <2>1. handle' = [handle EXCEPT ![h] = s]
    BY <1>4 DEF TurnBegins
  <2>2. /\ s \in HandleRecord /\ SameFile(r, s) /\ s.leased = r.leased /\ s.closing = r.closing
        /\ s.closeFailed = r.closeFailed /\ s.at = "idle" /\ s.drain = r.drain
        /\ s.life \in {r.life, "failed", "live"}
    BY <1>1, <1>2, <1>4, FailedFields DEF SameFile
  <2> HIDE DEF s
  <2>3. s.drain # "failed"
    BY <1>1, <2>2 DEF Steady
  <2> QED BY <1>2, <2>1, <2>2, <2>3, OpEnds
<1>5. CASE ~refused /\ finished
  <2> DEFINE s == Succeeded(r)
  <2>1. handle' = [handle EXCEPT ![h] = s]
    BY <1>5 DEF TurnBegins
  <2>2. /\ s \in HandleRecord /\ SameFile(r, s) /\ s.leased = r.leased /\ s.closing = r.closing
        /\ s.closeFailed = r.closeFailed /\ s.at = "idle" /\ s.drain = r.drain
        /\ s.life \in {r.life, "failed", "live"}
    <3>1. /\ s \in HandleRecord /\ s.leased = r.leased /\ s.closing = r.closing
          /\ s.closeFailed = r.closeFailed /\ s.at = "idle"
          /\ s.materialized = r.materialized /\ s.cursor = r.cursor
          /\ s.repair = r.repair /\ s.recovered = r.recovered
      BY <1>1, <1>2, SucceededFields
    <3>2. /\ s.drain = IF op = "drain" THEN "check" ELSE r.drain
          /\ s.life = IF op = "append" THEN "live" ELSE r.life
      BY <1>1, <1>2, SucceededFields
    <3> HIDE DEF s
    <3> QED BY <1>5, <3>1, <3>2 DEF SameFile
  <2> HIDE DEF s
  <2>3. s.drain # "failed"
    BY <1>1, <2>2 DEF Steady
  <2> QED BY <1>2, <2>1, <2>2, <2>3, OpEnds
<1>6. CASE ~refused /\ ~finished
  <2> DEFINE batch == CASE op = "drain" -> r.buffered
                        [] op = "append" -> <<r.next>>
                        [] OTHER -> <<>>
             buffered == IF op = "drain" THEN <<>> ELSE r.buffered
             taken == [r EXCEPT !.batch = batch, !.buffered = buffered]
             s == [taken EXCEPT !.at = NextWrite(r)]
  <2>1. handle' = [handle EXCEPT ![h] = s]
    BY <1>6 DEF TurnBegins
  <2>2. batch \in Seq(Nat) /\ buffered \in Seq(Nat)
    <3>1. r.buffered \in Seq(Nat) /\ r.next \in Nat
      BY <1>1 DEF HandleRecord
    <3>2. <<r.next>> \in Seq(Nat) /\ <<>> \in Seq(Nat)
      BY <3>1
    <3> QED BY <3>1, <3>2
  <2>3. NextWrite(r) \in Stages /\ (NextWrite(r) = "lease" => ~r.leased)
    BY <1>1 DEF HandleRecord, NextWrite, Stages
  <2> HIDE DEF batch, buffered
  <2>4. s \in HandleRecord
    BY <1>1, <2>2, <2>3 DEF HandleRecord
  <2>5. /\ SameFile(r, s) /\ s.leased = r.leased /\ s.closing = r.closing /\ s.life = r.life
        /\ s.at = NextWrite(r) /\ s.drain = r.drain /\ s.closeFailed = r.closeFailed
        /\ s.materialized = r.materialized
    BY <1>1 DEF HandleRecord, SameFile
  <2> HIDE DEF s
  <2>6. r.closing \notin {"release", "released", "done"}
    BY <1>1, <1>2, <1>6, NothingToDrain
  <2>7. Steady(s)
    BY <1>1, <1>3, <2>3, <2>5, <2>6 DEF Steady
  <2> QED BY <1>1, <1>2, <2>1, <2>4, <2>5, <2>7, HandleMoves
<1> QED BY <1>4, <1>5, <1>6

(* Steps with the file.                                                    *)

(* An operation under way is the writer's, and it has the lock but for the *)
(* lease it waits for.                                                     *)
LEMMA OpIsWriters ==
  ASSUME IInv, CInv, NEW h \in Handles, handle[h].at # "idle"
  PROVE  /\ handle[h] \in HandleRecord /\ HandleOK(handle[h]) /\ Steady(handle[h])
         /\ Active(h) /\ Aligned(handle[h], disk) /\ handle[h].chain # <<>>
<1>1. handle[h] \in HandleRecord /\ HandleOK(handle[h]) /\ Steady(handle[h])
  BY DEF IInv, TypeOK, AllOK, CInv
<1>2. Active(h)
  BY <1>1 DEF Steady, Active, Acts
<1> QED BY <1>1, <1>2 DEF CInv, HandleOK, Stage

(* What it has taken follows what the handle has written.                  *)
LEMMA BatchFollows ==
  ASSUME NEW r \in HandleRecord, HandleOK(r)
  PROVE  /\ r.batch \in Seq(Nat) /\ r.cursor \in Nat
         /\ r.batch = Seqs(r.cursor, Len(r.batch)) /\ Contiguous(r)
<1>1. r.batch \in Seq(Nat) /\ r.buffered \in Seq(Nat) /\ r.cursor \in Nat /\ r.next \in Nat
  BY DEF HandleRecord
<1>2. r.batch = Seqs(r.cursor, Len(r.batch))
  <2>1. CASE Runs(r, "append")
    <3>1. r.batch = <<r.next>> /\ r.cursor = r.next
      BY <2>1 DEF HandleOK, Kept
    <3>2. Len(<<r.next>>) = 1 /\ <<r.next>> = [i \in 1 .. 1 |-> r.next + i - 1]
      BY <1>1
    <3> QED BY <3>1, <3>2 DEF Seqs
  <2>2. CASE ~Runs(r, "append")
    <3> DEFINE m == r.next - r.cursor
    <3>1. r.batch \o r.buffered = Seqs(r.cursor, m) /\ r.cursor <= r.next
      BY <2>2 DEF HandleOK, Kept
    <3>2. m \in Nat
      BY <1>1, <3>1
    <3> DEFINE a == r.batch  b == r.buffered  c == r.cursor
    <3>3. a \in Seq(Nat) /\ b \in Seq(Nat) /\ c \in Nat /\ a \o b = Seqs(c, m)
      BY <1>1, <3>1
    <3> HIDE DEF m, a, b, c
    <3>4. a = Seqs(c, Len(a))
      BY <3>2, <3>3, SeqsFirst, ZenonT(60)
    <3> QED BY <3>4 DEF a, c
  <2> QED BY <2>1, <2>2
<1>3. Contiguous(r)
  <2>1. SUFFICES ASSUME r.batch # <<>> PROVE r.batch[1] = r.cursor
    BY DEF Contiguous
  <2>2. Len(r.batch) \in Nat /\ 1 \in 1 .. Len(r.batch)
    BY <1>1, <2>1
  <2>3. Seqs(r.cursor, Len(r.batch))[1] = r.cursor + 1 - 1
    BY <2>2 DEF Seqs
  <2> QED BY <1>1, <1>2, <2>3
<1> QED BY <1>1, <1>2, <1>3

(* Without an injected failure no write fails: the lock is there to take,  *)
(* the events follow the file, and a file already there is its own.        *)
LEMMA WritesSucceed ==
  ASSUME MaxFailures = 0, IInv, CInv, NEW h \in Handles
  PROVE  ~WriteFails(h) /\ ~PublishedUnsynced(h)
<1>1. failures = 0
  BY DEF IInv, TypeOK
<1>2. ASSUME WriteFails(h) PROVE FALSE
  <2> DEFINE r == handle[h]
  <2>1. r.at # "idle"
    BY <1>2 DEF WriteFails
  <2>2. /\ r \in HandleRecord /\ HandleOK(r) /\ Steady(r) /\ Active(h) /\ Aligned(r, disk)
    BY <2>1, OpIsWriters
  <2>3. Contiguous(r)
    BY <2>2, BatchFollows
  <2>4. CASE r.at = "lease"
    <3>1. lock # 0
      BY <1>1, <1>2, <2>4 DEF WriteFails
    <3>2. lock = h /\ handle[lock].leased
      BY <2>2, <3>1 DEF CInv, Holder, Sole
    <3> QED BY <2>2, <2>4, <3>2 DEF Steady
  <2>5. CASE r.at = "persist"
    <3>1. ~CanPersist(r)
      BY <1>1, <1>2, <2>5 DEF WriteFails
    <3> QED BY <2>2, <2>3, <3>1 DEF CanPersist, Aligned
  <2>6. CASE r.at \notin {"lease", "persist"}
    BY <1>1, <1>2, <2>3, <2>6 DEF WriteFails
  <2> QED BY <2>4, <2>5, <2>6
<1>3. ~PublishedUnsynced(h)
  BY <1>1 DEF PublishedUnsynced
<1> QED BY <1>2, <1>3

LEMMA LeaseTakenContinues ==
  ASSUME IInv, CInv, NEW h \in Handles, LeaseTaken(h)
  PROVE  CInv'
<1> DEFINE r == handle[h]
           t == [r EXCEPT !.leased = TRUE]
           at == NextWrite(t)
           s == [t EXCEPT !.at = at]
<1>1. r.at = "lease" /\ lock = 0 /\ lock' = h /\ UNCHANGED disk /\ handle' = [handle EXCEPT ![h] = s]
      /\ h # 0
  BY DEF LeaseTaken, Handles
<1>2. r \in HandleRecord /\ Steady(r) /\ Active(h) /\ handle \in [Handles -> HandleRecord]
  BY <1>1, OpIsWriters DEF IInv, TypeOK
<1>3. at \in {"truncate", "rewrite", "persist"}
  BY <1>2 DEF NextWrite, HandleRecord
<1> HIDE DEF at
<1>4. /\ SameFile(r, s) /\ s.leased /\ s.closing = r.closing /\ s.life = r.life /\ s.at = at
      /\ s.chain = r.chain /\ s.drain = r.drain /\ s.closeFailed = r.closeFailed
  BY <1>2 DEF HandleRecord, SameFile
<1> HIDE DEF s
<1>5. Steady(s)
  BY <1>1, <1>2, <1>3, <1>4 DEF Steady
<1>6. handle'[h] = s /\ \A g \in Handles : g # h => handle'[g] = handle[g]
  BY <1>1, <1>2
<1>7. \A g \in Handles : Steady(handle'[g])
  BY <1>5, <1>6 DEF CInv
<1>8. ASSUME NEW g \in Handles, Acts(handle'[g], lock' = g)
      PROVE  Active(g) /\ SameFile(handle[g], handle'[g])
  <2>1. CASE g = h
    BY <1>2, <1>4, <1>6, <2>1
  <2>2. CASE g # h
    <3>1. handle'[g] = handle[g] /\ lock' # g
      BY <1>1, <1>6, <2>2
    <3> QED BY <1>8, <3>1 DEF Active, Acts, SameFile
  <2> QED BY <2>1, <2>2
<1>9. Acts(s, TRUE)
  BY <1>2, <1>4 DEF Active, Acts
<1> QED BY <1>1, <1>4, <1>6, <1>7, <1>8, <1>9, FileStays

(* The torn tail was the copy of what is now in memory only.               *)
LEMMA TruncatedContinues ==
  ASSUME IInv, CInv, NEW h \in Handles, Truncated(h)
  PROVE  CInv'
<1> DEFINE r == handle[h]
           repair == IF r.recovered = <<>> THEN "none" ELSE "rewrite"
           t == [r EXCEPT !.repair = repair]
           at == NextWrite(t)
           s == [t EXCEPT !.at = at]
<1>1. /\ r.at = "truncate" /\ UNCHANGED lock /\ handle' = [handle EXCEPT ![h] = s]
      /\ disk' = [disk EXCEPT !.torn = FALSE, !.tail = <<>>]
  BY DEF Truncated
<1>2. r \in HandleRecord /\ HandleOK(r) /\ Steady(r) /\ Active(h) /\ Aligned(r, disk) /\ r.leased
  BY <1>1, OpIsWriters DEF HandleOK, Stage
<1>3. repair \in {"none", "rewrite"}
  OBVIOUS
<1> HIDE DEF repair
<1>4. /\ t \in HandleRecord /\ t.leased /\ t.repair = repair /\ t.materialized = r.materialized
      /\ t.cursor = r.cursor /\ t.recovered = r.recovered /\ t.closing = r.closing /\ t.life = r.life
      /\ t.chain = r.chain /\ t.drain = r.drain /\ t.closeFailed = r.closeFailed /\ t.leased = r.leased
  BY <1>2, <1>3 DEF HandleRecord
<1> HIDE DEF t
<1>5. at \in {"rewrite", "persist"}
  BY <1>3, <1>4 DEF NextWrite
<1> HIDE DEF at
<1>6. s \in HandleRecord
  BY <1>4, <1>5 DEF HandleRecord, Stages
<1>7. /\ s.leased = r.leased /\ s.repair = repair /\ s.materialized = r.materialized
      /\ s.cursor = r.cursor /\ s.recovered = r.recovered /\ s.closing = r.closing /\ s.life = r.life
      /\ s.chain = r.chain /\ s.drain = r.drain /\ s.closeFailed = r.closeFailed /\ s.at = at
  BY <1>4 DEF HandleRecord
<1> HIDE DEF s
<1>8. /\ disk'.log = disk.log /\ disk'.tail = <<>> /\ disk'.exists = disk.exists
      /\ disk.log \in Seq(Nat) /\ r.recovered \in Seq(Nat) /\ r.cursor \in Nat
  BY <1>1, <1>2 DEF IInv, TypeOK, HandleRecord
<1>9. Aligned(s, disk')
  BY <1>2, <1>3, <1>7, <1>8 DEF Aligned
<1>10. LogContiguous'
  <2>1. disk.log = Seqs(0, Len(disk.log))
    BY <1>2, <1>8, SeqsFirst DEF Aligned
  <2>2. disk.log \o <<>> = disk.log /\ Len(disk.log) + Len(<<>>) = Len(disk.log)
    BY <1>8
  <2> QED BY <1>8, <2>1, <2>2 DEF LogContiguous
<1>11. Steady(s)
  BY <1>1, <1>2, <1>5, <1>7 DEF Steady
<1>12. TypeOK
  BY DEF IInv
<1> QED BY <1>1, <1>2, <1>6, <1>7, <1>9, <1>10, <1>11, <1>12, WriterWrites

(* The recovered events are back in the file. *)
LEMMA RewrittenContinues ==
  ASSUME IInv, CInv, NEW h \in Handles, Rewritten(h)
  PROVE  CInv'
<1> DEFINE r == handle[h]
           s == [r EXCEPT !.repair = "none", !.recovered = <<>>, !.at = "persist"]
           log == disk.log \o r.recovered
<1>1. r.at = "rewrite" /\ UNCHANGED lock /\ disk' = [disk EXCEPT !.log = log] /\ TypeOK
  BY DEF Rewritten, IInv
<1>2. /\ r \in HandleRecord /\ HandleOK(r) /\ Steady(r) /\ Active(h) /\ Aligned(r, disk)
      /\ r.leased /\ r.repair = "rewrite"
  BY <1>1, OpIsWriters DEF HandleOK, Stage
<1>3. handle' = [handle EXCEPT ![h] = s]
  <2>1. handle \in [Handles -> HandleRecord] /\ handle[h] = r
    BY DEF IInv, TypeOK
  <2>2. handle' = [handle EXCEPT ![h].repair = "none", ![h].recovered = <<>>, ![h].at = "persist"]
    BY DEF Rewritten
  <2> HIDE DEF r
  <2>3. \A g \in Handles : handle'[g] = IF g = h THEN s ELSE handle[g]
    BY <1>2, <2>1, <2>2 DEF HandleRecord
  <2> QED BY <2>1, <2>2, <2>3
<1>4. s \in HandleRecord
  <2>1. <<>> \in Seq(Nat) /\ "persist" \in Stages
    BY DEF Stages
  <2> HIDE DEF r
  <2> QED BY <1>2, <2>1 DEF HandleRecord
<1>5. /\ s.leased = r.leased /\ s.repair = "none" /\ s.materialized = r.materialized
      /\ s.cursor = r.cursor /\ s.recovered = <<>> /\ s.closing = r.closing /\ s.life = r.life
      /\ s.chain = r.chain /\ s.drain = r.drain /\ s.closeFailed = r.closeFailed /\ s.at = "persist"
  BY <1>2 DEF HandleRecord
<1> HIDE DEF s
<1>6. log \in Seq(Nat) /\ log = Seqs(0, r.cursor) /\ r.cursor \in Nat /\ disk.tail = <<>>
  <2>1. disk.log \in Seq(Nat) /\ r.recovered \in Seq(Nat) /\ r.cursor \in Nat
    BY <1>2 DEF IInv, TypeOK, HandleRecord
  <2> QED BY <1>2, <2>1, Longer2 DEF Aligned
<1> HIDE DEF log
<1>7. disk'.log = log /\ disk'.tail = <<>> /\ disk'.exists = disk.exists
  BY <1>1, <1>6 DEF IInv, TypeOK
<1>8. log \o <<>> = log /\ Len(log) = r.cursor /\ Len(<<>>) = 0
  BY <1>6, SeqsRun
<1>9. Aligned(s, disk')
  BY <1>2, <1>5, <1>6, <1>7, <1>8 DEF Aligned
<1>10. LogContiguous'
  <2>1. r.cursor + 0 = r.cursor
    BY <1>6
  <2> QED BY <1>6, <1>7, <1>8, <2>1 DEF LogContiguous
<1>11. Steady(s)
  BY <1>1, <1>2, <1>5 DEF Steady
<1> QED BY <1>1, <1>2, <1>3, <1>4, <1>5, <1>9, <1>10, <1>11, WriterWrites

(* The batch goes where the file ends. *)
LEMMA FileGrows ==
  ASSUME IInv, CInv, NEW h \in Handles, handle[h].at = "persist"
  PROVE  /\ disk.tail = <<>> /\ handle[h].recovered = <<>> /\ handle[h].repair = "none"
         /\ disk.log \in Seq(Nat) /\ handle[h].batch \in Seq(Nat) /\ handle[h].cursor \in Nat
         /\ disk.log = Seqs(0, handle[h].cursor)
         /\ handle[h].batch = Seqs(handle[h].cursor, Len(handle[h].batch))
         /\ Len(handle[h].batch) \in Nat
<1> DEFINE r == handle[h]
<1>1. /\ r \in HandleRecord /\ HandleOK(r) /\ Aligned(r, disk)
      /\ r.repair = "none" /\ r.recovered = <<>>
  BY OpIsWriters DEF HandleOK, Stage
<1>2. disk.log \in Seq(Nat)
  BY DEF IInv, TypeOK
<1>3. disk.log \o <<>> = disk.log
  BY <1>2
<1>4. disk.log = Seqs(0, r.cursor) /\ disk.tail = <<>>
  BY <1>1, <1>3 DEF Aligned
<1>5. r.batch \in Seq(Nat) /\ r.cursor \in Nat /\ r.batch = Seqs(r.cursor, Len(r.batch))
  BY <1>1, BatchFollows
<1>6. Len(r.batch) \in Nat
  BY <1>5
<1> QED BY <1>1, <1>2, <1>4, <1>5, <1>6

LEMMA PersistedContinues ==
  ASSUME IInv, CInv, NEW h \in Handles, Persisted(h)
  PROVE  CInv'
<1> DEFINE r == handle[h]
           n == Len(r.batch)
           cursor == r.cursor + n
           log == disk.log \o r.batch
           t == [r EXCEPT !.materialized = TRUE, !.cursor = cursor]
           s == Succeeded(t)
<1>1. /\ r.at = "persist" /\ UNCHANGED lock /\ disk' = [disk EXCEPT !.exists = TRUE, !.log = log]
      /\ handle' = [handle EXCEPT ![h] = s] /\ TypeOK
  BY DEF Persisted, IInv
<1>2. /\ r \in HandleRecord /\ HandleOK(r) /\ Steady(r) /\ Active(h)
      /\ r.leased /\ r.chain # <<>>
  BY <1>1, OpIsWriters DEF HandleOK, Stage
<1>3. /\ disk.tail = <<>> /\ r.recovered = <<>> /\ r.repair = "none"
      /\ disk.log \in Seq(Nat) /\ r.batch \in Seq(Nat) /\ r.cursor \in Nat /\ n \in Nat
      /\ disk.log = Seqs(0, r.cursor) /\ r.batch = Seqs(r.cursor, n)
  BY <1>1, FileGrows
<1>4. log \in Seq(Nat) /\ log = Seqs(0, cursor)
  <2> DEFINE a == disk.log  b == r.batch  k == r.cursor
  <2>1. /\ a \in Seq(Nat) /\ b \in Seq(Nat) /\ k \in Nat /\ n \in Nat
        /\ a = Seqs(0, k) /\ b = Seqs(k, n)
    BY <1>3
  <2> HIDE DEF n, a, b, k
  <2>2. a \o b \in Seq(Nat)
    BY <2>1, Longer2
  <2>3. a \o b = Seqs(0, k + n)
    <3>1. 0 \in Nat /\ 0 + k = k
      BY <2>1
    <3>2. Seqs(0, k) \o Seqs(0 + k, n) = Seqs(0, k + n)
      BY <2>1, <3>1, SeqsJoin, Zenon
    <3> QED BY <2>1, <3>1, <3>2, Zenon
  <2> QED BY <2>2, <2>3 DEF a, b, k
<1>5. cursor \in Nat
  BY <1>3
<1> HIDE DEF cursor, log
<1>6. /\ t \in HandleRecord /\ t.materialized /\ t.cursor = cursor /\ t.leased = r.leased
      /\ t.repair = r.repair /\ t.recovered = r.recovered /\ t.closing = r.closing
      /\ t.life = r.life /\ t.chain = r.chain /\ t.drain = r.drain /\ t.closeFailed = r.closeFailed
  BY <1>2, <1>5 DEF HandleRecord
<1> HIDE DEF t
<1>7. /\ s \in HandleRecord /\ s.materialized /\ s.cursor = cursor /\ s.leased = r.leased
      /\ s.repair = "none" /\ s.recovered = <<>> /\ s.closing = r.closing
      /\ s.closeFailed = r.closeFailed /\ s.at = "idle"
      /\ s.life = IF Head(r.chain).op = "append" THEN "live" ELSE r.life
      /\ s.drain = IF Head(r.chain).op = "drain" THEN "check" ELSE r.drain
  <2>1. t.chain # <<>> /\ s = Succeeded(t)
    BY <1>2, <1>6
  <2> HIDE DEF s
  <2>2. /\ s \in HandleRecord /\ s.materialized = t.materialized /\ s.cursor = t.cursor
        /\ s.leased = t.leased /\ s.repair = t.repair /\ s.recovered = t.recovered
        /\ s.closing = t.closing /\ s.closeFailed = t.closeFailed /\ s.at = "idle"
        /\ s.life = IF Head(t.chain).op = "append" THEN "live" ELSE t.life
        /\ s.drain = IF Head(t.chain).op = "drain" THEN "check" ELSE t.drain
    <3>0. t \in HandleRecord /\ t.chain # <<>> /\ s = Succeeded(t)
      BY <1>6, <2>1
    <3>1. s \in HandleRecord
      BY <3>0, SucceededFields
    <3>2. s.materialized = t.materialized /\ s.cursor = t.cursor
      BY <3>0, SucceededFields
    <3>3. s.at = "idle" /\ s.life = IF Head(t.chain).op = "append" THEN "live" ELSE t.life
      BY <3>0, SucceededFields, Zenon
    <3> QED BY <3>0, SucceededFields
  <2> HIDE DEF r
  <2> QED BY <1>3, <1>6, <2>2
<1> HIDE DEF s
<1>8. r.life \notin {"new", "dead"} /\ s.life \notin {"new", "dead"}
  BY <1>2, <1>7 DEF Active, Acts
<1>9. Steady(s)
  BY <1>1, <1>2, <1>7, <1>8 DEF Steady
<1>10. disk'.log = log /\ disk'.tail = <<>> /\ disk'.exists
  BY <1>1, <1>3 DEF TypeOK
<1>11. log \o <<>> = log /\ Len(log) = cursor /\ Len(<<>>) = 0 /\ cursor + 0 = cursor
  BY <1>4, <1>5, SeqsRun
<1>12. Aligned(s, disk')
  BY <1>4, <1>7, <1>10, <1>11 DEF Aligned
<1>13. LogContiguous'
  BY <1>4, <1>10, <1>11 DEF LogContiguous
<1> QED BY <1>1, <1>2, <1>7, <1>8, <1>9, <1>12, <1>13, WriterWrites

(* Closing, and the end of a process.                                      *)

(* A handle that only closes further: no writer afterwards but what was    *)
(* one, and the lock stays with one.                                       *)
LEMMA HandleLeaves ==
  ASSUME TypeOK, CInv, NEW h \in Handles, NEW s \in HandleRecord,
         handle' = [handle EXCEPT ![h] = s], UNCHANGED <<disk, lock>>,
         Steady(s), SameFile(handle[h], s), s.leased = handle[h].leased,
         Acts(s, lock = h) => Active(h), lock = h => Acts(s, TRUE)
  PROVE  CInv'
<1>1. /\ handle'[h] = s /\ \A g \in Handles : g # h => handle'[g] = handle[g]
  BY DEF TypeOK
<1>2. \A g \in Handles : Steady(handle'[g])
  BY <1>1 DEF CInv
<1>3. ASSUME NEW g \in Handles, Acts(handle'[g], lock' = g)
      PROVE  Active(g) /\ SameFile(handle[g], handle'[g])
  <2>1. CASE g = h
    BY <1>1, <1>3, <2>1
  <2>2. CASE g # h
    BY <1>1, <1>3, <2>2 DEF Active, SameFile
  <2> QED BY <2>1, <2>2
<1>4. ASSUME lock' # 0
      PROVE  lock' \in Handles /\ Acts(handle'[lock'], TRUE) /\ handle'[lock'].leased
  <2>1. lock \in Handles /\ Acts(handle[lock], TRUE) /\ handle[lock].leased
    BY <1>4 DEF CInv, Holder, Active, Acts
  <2>2. CASE lock = h
    BY <1>1, <2>1, <2>2
  <2>3. CASE lock # h
    BY <1>1, <2>1, <2>3
  <2> QED BY <2>2, <2>3
<1> QED BY <1>2, <1>3, <1>4, FileStays

LEMMA CloseReleasesContinues ==
  ASSUME IInv, CInv, NEW h \in Handles, CloseReleases(h)
  PROVE  CInv'
<1> DEFINE r == handle[h]
           c == IF r.leased THEN "release" ELSE "released"
           s == [r EXCEPT !.closing = c]
<1>1. /\ r \in HandleRecord /\ HandleOK(r) /\ Steady(r) /\ TypeOK
      /\ r.closing = "last" /\ r.wait = 0 /\ r.leased \in BOOLEAN
  BY DEF IInv, TypeOK, AllOK, CInv, CloseReleases, HandleRecord
<1>2. handle' = [handle EXCEPT ![h] = s] /\ UNCHANGED <<disk, lock>>
  BY DEF CloseReleases
<1>3. /\ r.leased => c = "release"
      /\ ~r.leased => c = "released"
  OBVIOUS
<1> HIDE DEF c
<1>4. s \in HandleRecord
  BY <1>1, <1>3 DEF HandleRecord, Closes
<1>5. /\ SameFile(r, s) /\ s.leased = r.leased /\ s.closing = c /\ s.life = r.life
      /\ s.at = r.at /\ s.chain = r.chain /\ s.drain = r.drain /\ s.closeFailed = r.closeFailed
      /\ s.materialized = r.materialized
  BY <1>1 DEF HandleRecord, SameFile
<1> HIDE DEF s
<1>6. r.at = "idle" /\ r.life \notin {"new", "dead"}
  BY <1>1 DEF HandleOK, Closed
<1>7. Steady(s)
  BY <1>1, <1>3, <1>5, <1>6 DEF Steady
<1>8. Active(h)
  BY <1>1, <1>6 DEF Active, Acts
<1>9. ASSUME lock = h PROVE Acts(s, TRUE)
  <2>1. r.leased
    BY <1>9 DEF CInv, Holder, Handles
  <2> QED BY <1>3, <1>5, <1>6, <2>1 DEF Acts
<1> QED BY <1>1, <1>2, <1>4, <1>5, <1>7, <1>8, <1>9, HandleLeaves

(* The kernel's unlock comes first, the handle learns of it later. *)
LEMMA KernelUnlocksContinues ==
  ASSUME IInv, CInv, NEW h \in Handles, KernelUnlocks(h)
  PROVE  CInv'
<1>1. lock' = 0 /\ UNCHANGED <<disk, handle>>
  BY DEF KernelUnlocks
<1>2. \A g \in Handles : Steady(handle'[g])
  BY <1>1 DEF CInv
<1>3. \A g \in Handles : Acts(handle'[g], lock' = g) => Active(g) /\ SameFile(handle[g], handle'[g])
  BY <1>1 DEF Active, Acts, SameFile, Handles
<1> QED BY <1>1, <1>2, <1>3, FileStays

LEMMA LockReleasedContinues ==
  ASSUME IInv, CInv, NEW h \in Handles, LockReleased(h)
  PROVE  CInv'
<1> DEFINE r == handle[h]
           s == [r EXCEPT !.closing = "released"]
<1>1. /\ r \in HandleRecord /\ Steady(r) /\ TypeOK /\ r.closing = "release" /\ lock # h
  BY DEF IInv, TypeOK, CInv, LockReleased
<1>2. handle' = [handle EXCEPT ![h] = s] /\ UNCHANGED <<disk, lock>>
  BY DEF LockReleased
<1>3. s \in HandleRecord
  BY <1>1 DEF HandleRecord, Closes
<1>4. /\ SameFile(r, s) /\ s.leased = r.leased /\ s.closing = "released" /\ s.life = r.life
      /\ s.at = r.at /\ s.chain = r.chain /\ s.drain = r.drain /\ s.closeFailed = r.closeFailed
      /\ s.materialized = r.materialized
  BY <1>1 DEF HandleRecord, SameFile
<1> HIDE DEF s
<1>5. Steady(s)
  BY <1>1, <1>4 DEF Steady
<1>6. ~Acts(s, lock = h)
  BY <1>4 DEF Acts
<1> QED BY <1>1, <1>2, <1>3, <1>4, <1>5, <1>6, HandleLeaves

LEMMA HandleReleasedContinues ==
  ASSUME IInv, CInv, NEW h \in Handles, HandleReleased(h)
  PROVE  CInv'
<1> DEFINE r == handle[h]
           s == [r EXCEPT !.closing = "done", !.life = "closed"]
<1>1. /\ r \in HandleRecord /\ Steady(r) /\ TypeOK /\ r.closing = "released"
  BY DEF IInv, TypeOK, CInv, HandleReleased
<1>2. handle' = [handle EXCEPT ![h] = s] /\ UNCHANGED <<disk, lock>>
  BY <1>1 DEF HandleReleased, TypeOK
<1>3. s \in HandleRecord
  BY <1>1 DEF HandleRecord, Closes, Lives
<1>4. /\ SameFile(r, s) /\ s.leased = r.leased /\ s.closing = "done" /\ s.life = "closed"
      /\ s.at = r.at /\ s.chain = r.chain /\ s.drain = r.drain /\ s.closeFailed = r.closeFailed
      /\ s.materialized = r.materialized
  BY <1>1 DEF HandleRecord, SameFile
<1> HIDE DEF s
<1>5. Steady(s)
  BY <1>1, <1>4 DEF Steady
<1>6. ~Acts(s, lock = h)
  BY <1>4 DEF Acts
<1>7. lock # h
  BY <1>1 DEF CInv, Holder, Active, Acts, Handles
<1> QED BY <1>1, <1>2, <1>3, <1>4, <1>5, <1>6, <1>7, HandleLeaves

(* What a write that is cut off leaves.                                    *)

(* A file that is the log so far, and what may be behind it. *)
Whole(d) == d.log \o d.tail = Seqs(0, Len(d.log) + Len(d.tail))

(* The first of the seqs that follow a file follow it. *)
LEMMA PartFollows ==
  ASSUME NEW a \in Seq(Nat), NEW b \in Seq(Nat), NEW k \in Nat, NEW m \in Nat,
         a = Seqs(0, k), b = Seqs(k, m), NEW n \in 0 .. m
  PROVE  /\ SubSeq(b, 1, n) \in Seq(Nat)
         /\ a \o SubSeq(b, 1, n) = Seqs(0, Len(a) + Len(SubSeq(b, 1, n)))
<1> DEFINE part == SubSeq(b, 1, n)
<1>1. part = Seqs(k, n)
  BY SeqsCut
<1>2. n \in Nat
  OBVIOUS
<1> HIDE DEF part
<1>3. part \in Seq(Nat) /\ Len(part) = n /\ Len(a) = k
  BY <1>1, <1>2, SeqsRun
<1>4. 0 \in Nat /\ 0 + k = k
  OBVIOUS
<1>5. Seqs(0, k) \o Seqs(0 + k, n) = Seqs(0, k + n)
  BY <1>2, <1>4, SeqsJoin, Zenon
<1>6. a \o part = Seqs(0, k + n)
  BY <1>1, <1>4, <1>5, Zenon
<1> QED BY <1>3, <1>6 DEF part

LEMMA TornContinues ==
  ASSUME Typed(disk), disk.tail = <<>>, NEW events \in Seq(Nat), NEW k \in Nat, NEW m \in Nat,
         disk.log = Seqs(0, k), events = Seqs(k, m), NEW d \in Torn(events)
  PROVE  Whole(d)
<1>1. disk.log \in Seq(Nat) /\ Len(events) = m
  BY SeqsRun DEF Typed
<1>2. PICK n \in 0 .. Len(events) :
        d \in {[disk EXCEPT !.torn = TRUE, !.tail = SubSeq(events, 1, n)],
               [disk EXCEPT !.torn = TRUE, !.log = @ \o SubSeq(events, 1, n)]}
  BY DEF Torn
<1> DEFINE part == SubSeq(events, 1, n)
           log == disk.log \o part
<1>3. part \in Seq(Nat) /\ log = Seqs(0, Len(disk.log) + Len(part))
  <2>1. n \in 0 .. m
    BY <1>1, <1>2
  <2> QED BY <1>1, <2>1, PartFollows
<1>4. log \in Seq(Nat) /\ Len(log) = Len(disk.log) + Len(part) /\ Len(log) \in Nat
  BY <1>1, <1>3, Longer2
<1>5. d = [disk EXCEPT !.torn = TRUE, !.tail = part] \/ d = [disk EXCEPT !.torn = TRUE, !.log = log]
  BY <1>2
<1>6. CASE d = [disk EXCEPT !.torn = TRUE, !.tail = part]
  <2> HIDE DEF part
  <2>1. d.log = disk.log /\ d.tail = part
    BY <1>6 DEF Typed
  <2> QED BY <1>3, <2>1 DEF Whole
<1>7. CASE d = [disk EXCEPT !.torn = TRUE, !.log = log]
  <2>1. log = Seqs(0, Len(log))
    BY <1>3, <1>4
  <2> HIDE DEF log
  <2>2. d.log = log /\ d.tail = <<>>
    BY <1>7 DEF Typed
  <2>3. log \o <<>> = log /\ Len(log) + Len(<<>>) = Len(log)
    BY <1>4
  <2> QED BY <2>1, <2>2, <2>3 DEF Whole
<1> QED BY <1>5, <1>6, <1>7

(* The write that reached the file before the crash. *)
LEMMA LongerContinues ==
  ASSUME Typed(disk), disk.tail = <<>>, NEW events \in Seq(Nat), NEW k \in Nat, NEW m \in Nat,
         disk.log = Seqs(0, k), events = Seqs(k, m),
         NEW d, d = [disk EXCEPT !.exists = TRUE, !.log = @ \o events]
  PROVE  Whole(d)
<1> DEFINE log == disk.log \o events
<1>1. disk.log \in Seq(Nat)
  BY DEF Typed
<1>2. log = Seqs(0, k + m) /\ log \in Seq(Nat) /\ Len(log) = k + m
  <2>1. 0 \in Nat /\ 0 + k = k /\ k + m \in Nat
    OBVIOUS
  <2>2. Seqs(0, k) \o Seqs(0 + k, m) = Seqs(0, k + m)
    BY <2>1, SeqsJoin, Zenon
  <2>3. log = Seqs(0, k + m)
    BY <2>1, <2>2, Zenon
  <2> QED BY <2>1, <2>3, SeqsRun
<1>3. d = [disk EXCEPT !.exists = TRUE, !.log = log]
  OBVIOUS
<1> HIDE DEF log
<1>4. d.log = log /\ d.tail = <<>>
  BY <1>3 DEF Typed
<1>5. log \o <<>> = log /\ Len(log) + Len(<<>>) = Len(log)
  BY <1>2
<1> QED BY <1>2, <1>4, <1>5 DEF Whole

(* Every outcome of a crash in the middle of a write. *)
LEMMA LeftContinues ==
  ASSUME IInv, CInv, NEW h \in Handles, NEW d \in Left(h)
  PROVE  Whole(d)
<1> DEFINE r == handle[h]
<1>1. Typed(disk)
  BY DEF IInv, TypeOK, Typed
<1>2. CASE d = disk
  BY <1>2 DEF CInv, LogContiguous, Whole
<1>3. ASSUME r.at # "idle"
      PROVE  /\ r \in HandleRecord /\ HandleOK(r) /\ Aligned(r, disk)
             /\ disk.log \in Seq(Nat) /\ r.recovered \in Seq(Nat) /\ r.cursor \in Nat
             /\ disk.log \o r.recovered = Seqs(0, r.cursor)
  <2>1. r \in HandleRecord /\ HandleOK(r) /\ Aligned(r, disk)
    BY <1>3, OpIsWriters
  <2> QED BY <1>1, <2>1 DEF Typed, HandleRecord, Aligned
<1>4. CASE r.at = "truncate" /\ d = [disk EXCEPT !.torn = FALSE, !.tail = <<>>]
  <2>1. disk.log = Seqs(0, Len(disk.log)) /\ disk.log \in Seq(Nat)
    <3> DEFINE a == disk.log  b == r.recovered  c == r.cursor
    <3>1. a \in Seq(Nat) /\ b \in Seq(Nat) /\ c \in Nat /\ a \o b = Seqs(0, c)
      BY <1>3, <1>4
    <3> HIDE DEF a, b, c
    <3>2. a = Seqs(0, Len(a))
      BY <3>1, SeqsSplit
    <3> QED BY <3>1, <3>2 DEF a
  <2>2. d.log = disk.log /\ d.tail = <<>>
    BY <1>1, <1>4 DEF Typed
  <2>3. disk.log \o <<>> = disk.log /\ Len(disk.log) + Len(<<>>) = Len(disk.log)
    BY <2>1
  <2> QED BY <2>1, <2>2, <2>3 DEF Whole
<1>5. CASE r.at = "rewrite" /\ d \in Torn(r.recovered) \cup {[disk EXCEPT !.log = @ \o r.recovered]}
  <2> DEFINE a == disk.log  b == r.recovered  c == r.cursor  k == Len(a)  m == Len(b)
  <2>1. disk.tail = <<>> /\ disk.exists
    BY <1>3, <1>5 DEF HandleOK, Stage, Aligned, IInv, OnDisk
  <2>2. a \in Seq(Nat) /\ b \in Seq(Nat) /\ c \in Nat /\ a \o b = Seqs(0, c)
    BY <1>3, <1>5
  <2> HIDE DEF a, b, c
  <2>3. a = Seqs(0, k) /\ b = Seqs(k, m) /\ k \in Nat /\ m \in Nat
    BY <2>2, SeqsSplit
  <2> HIDE DEF k, m
  <2>4. CASE d \in Torn(b)
    <3>1. disk.log = Seqs(0, k)
      BY <2>3 DEF a
    <3> QED BY <1>1, <2>1, <2>2, <2>3, <2>4, <3>1, TornContinues
  <2>5. CASE d = [disk EXCEPT !.log = @ \o b]
    <3>1. disk.log = Seqs(0, k)
      BY <2>3 DEF a
    <3>2. d = [disk EXCEPT !.exists = TRUE, !.log = @ \o b]
      BY <1>1, <2>1, <2>5 DEF Typed
    <3> QED BY <1>1, <2>1, <2>2, <2>3, <3>1, <3>2, LongerContinues
  <2> QED BY <1>5, <2>4, <2>5 DEF b
<1>6. CASE r.at = "persist"
           /\ d \in {[disk EXCEPT !.exists = TRUE, !.log = @ \o r.batch]}
                    \cup (IF r.materialized THEN Torn(r.batch) ELSE {})
  <2> DEFINE b == r.batch  k == r.cursor  m == Len(r.batch)
  <2>1. /\ disk.tail = <<>> /\ b \in Seq(Nat) /\ k \in Nat /\ m \in Nat
        /\ disk.log = Seqs(0, k) /\ b = Seqs(k, m)
    BY <1>6, FileGrows
  <2> HIDE DEF k, m
  <2>2. CASE d \in Torn(b)
    <3> HIDE DEF b
    <3> QED BY <1>1, <2>1, <2>2, TornContinues
  <2>3. CASE d = [disk EXCEPT !.exists = TRUE, !.log = @ \o b]
    <3> HIDE DEF b
    <3> QED BY <1>1, <2>1, <2>3, LongerContinues
  <2> QED BY <1>6, <2>2, <2>3
<1>7. \/ d = disk
      \/ r.at = "truncate" /\ d = [disk EXCEPT !.torn = FALSE, !.tail = <<>>]
      \/ r.at = "rewrite" /\ d \in Torn(r.recovered) \cup {[disk EXCEPT !.log = @ \o r.recovered]}
      \/ r.at = "persist" /\ d \in {[disk EXCEPT !.exists = TRUE, !.log = @ \o r.batch]}
                                   \cup (IF r.materialized THEN Torn(r.batch) ELSE {})
  <2>1. CASE r.at = "truncate"
    BY <2>1 DEF Left
  <2>2. CASE r.at = "rewrite"
    BY <2>2 DEF Left
  <2>3. CASE r.at = "persist"
    BY <2>3 DEF Left
  <2>4. CASE r.at \notin {"truncate", "rewrite", "persist"}
    BY <2>4 DEF Left
  <2> QED BY <2>1, <2>2, <2>3, <2>4
<1> QED BY <1>2, <1>4, <1>5, <1>6, <1>7

LEMMA CrashContinues ==
  ASSUME IInv, CInv, NEW p \in Procs, Crash(p)
  PROVE  CInv'
<1> DEFINE lost == {h \in Handles : Alive(h) /\ handle[h].home = p}
           dead == [Fresh EXCEPT !.life = "dead"]
<1>1. /\ \E h \in lost : disk' \in Left(h)
      /\ handle' = [h \in Handles |-> IF h \in lost THEN dead ELSE handle[h]]
      /\ lock' = IF lock \in lost THEN 0 ELSE lock
  BY DEF Crash
<1>2. /\ dead.life = "dead" /\ dead.at = "idle" /\ dead.chain = <<>> /\ dead.drain = "none"
      /\ dead.closing = "open" /\ ~dead.leased /\ ~dead.materialized /\ ~dead.closeFailed
  BY FreshRecord DEF Fresh
<1>3. Steady(dead) /\ \A x : ~Acts(dead, x)
  BY <1>2 DEF Steady, Acts
<1> HIDE DEF dead
<1>4. \A h \in Handles : handle'[h] = IF h \in lost THEN dead ELSE handle[h]
  BY <1>1
<1>5. \A g \in Handles : Steady(handle'[g])
  BY <1>3, <1>4 DEF CInv
<1>6. \A g \in Handles : Acts(handle'[g], lock' = g) => g \notin lost /\ handle'[g] = handle[g] /\ Active(g)
  <2>1. ASSUME NEW g \in Handles, Acts(handle'[g], lock' = g)
        PROVE  g \notin lost /\ handle'[g] = handle[g] /\ Active(g)
    <3>1. g \notin lost /\ handle'[g] = handle[g]
      BY <1>3, <1>4, <2>1
    <3>2. g # 0 /\ (lock' = g => lock = g)
      BY <1>1 DEF Handles
    <3> QED BY <2>1, <3>1, <3>2 DEF Active, Acts
  <2> QED BY <2>1
<1>7. lock' # 0 => lock' \in Handles /\ Acts(handle'[lock'], TRUE) /\ handle'[lock'].leased
  <2>1. SUFFICES ASSUME lock' # 0
                 PROVE  lock' \in Handles /\ Acts(handle'[lock'], TRUE) /\ handle'[lock'].leased
    OBVIOUS
  <2>2. lock' = lock /\ lock \notin lost
    BY <1>1, <2>1
  <2>3. lock \in Handles /\ Acts(handle[lock], TRUE) /\ handle[lock].leased
    BY <2>1, <2>2 DEF CInv, Holder, Active, Acts
  <2> QED BY <1>4, <2>2, <2>3
<1>8. CASE UNCHANGED disk
  <2>1. \A g \in Handles : Acts(handle'[g], lock' = g) => Active(g) /\ SameFile(handle[g], handle'[g])
    BY <1>6 DEF SameFile
  <2> QED BY <1>5, <1>7, <1>8, <2>1, FileStays
<1>9. CASE disk' # disk
  <2>1. PICK h \in lost : disk' \in Left(h)
    BY <1>1
  <2>2. handle[h].at # "idle" /\ h \in Handles
    BY <1>9, <2>1 DEF Left
  <2>3. Active(h)
    BY <2>2, OpIsWriters
  <2>4. \A g \in Handles : ~Acts(handle'[g], lock' = g)
    BY <1>6, <2>1, <2>2, <2>3 DEF CInv, Sole
  <2>5. lock' = 0
    <3>1. lock # 0 => lock = h
      BY <2>2, <2>3 DEF CInv, Holder, Sole
    <3> QED BY <1>1, <2>1, <3>1
  <2>6. LogContiguous'
    <3>1. Whole(disk')
      BY <2>1, <2>2, LeftContinues
    <3> QED BY <3>1 DEF Whole, LogContiguous
  <2>7. \A g \in Handles : ~Active(g)'
    BY <2>4 DEF Active
  <2>8. Sole' /\ Holder'
    BY <2>5, <2>7 DEF Sole, Holder
  <2> QED BY <1>5, <2>6, <2>7, <2>8 DEF CInv
<1> QED BY <1>8, <1>9

-----------------------------------------------------------------------------
(* The file is the log.                                                    *)

LEMMA InitContinues == Init => CInv
<1> SUFFICES ASSUME Init PROVE CInv
  OBVIOUS
<1>1. \A h \in Handles : handle[h] = Fresh
  BY DEF Init
<1>2. Steady(Fresh) /\ \A x : ~Acts(Fresh, x)
  <2>1. Fresh.closeFailed = FALSE
    BY DEF Fresh
  <2> QED BY <2>1, FreshRecord DEF Steady, Acts
<1>3. LogContiguous
  <2>1. disk.log = <<>> /\ disk.tail = <<>>
    BY DEF Init
  <2>2. <<>> \o <<>> = Seqs(0, 0) /\ Len(<<>>) + Len(<<>>) = 0
    BY SeqsNone
  <2> QED BY <2>1, <2>2 DEF LogContiguous
<1>4. \A h \in Handles : ~Active(h)
  BY <1>1, <1>2 DEF Active
<1>5. Sole /\ Holder
  BY <1>4 DEF Sole, Holder, Init
<1> QED BY <1>1, <1>2, <1>3, <1>4, <1>5 DEF CInv

(* Every step keeps it: one lemma for each action. *)
LEMMA NextContinues ==
  ASSUME MaxFailures = 0, ~LateProducers, IInv, CInv, [Next]_vars
  PROVE  CInv'
<1>1. ASSUME NEW h \in Handles, NEW p \in Procs, Create(h, p) \/ Open(h, p)
      PROVE  CInv'
  BY <1>1, CreateContinues, OpenContinues
<1>2. ASSUME NEW h \in Handles,
             AppendClosers(h) \/ PublishSession(h) \/ Publish(h) \/ TimerFires(h) \/ Close(h)
      PROVE  CInv'
  BY <1>2, AppendClosersContinues, PublishSessionContinues, PublishContinues,
     TimerFiresContinues, CloseContinues
<1>3. ASSUME NEW h \in Handles, Continue(h) PROVE CInv'
  BY <1>3, DrainChecksContinues, DrainSettlesContinues, TurnBeginsContinues DEF Continue
<1>4. ASSUME NEW h \in Handles, Write(h) PROVE CInv'
  BY <1>4, LeaseTakenContinues, TruncatedContinues, RewrittenContinues, PersistedContinues DEF Write
<1>5. ASSUME NEW h \in Handles, Fail(h) PROVE CInv'
  BY <1>5, WritesSucceed DEF Fail
<1>6. ASSUME NEW h \in Handles, Closing(h) PROVE CInv'
  BY <1>6, CloseChecksContinues, CloseReleasesContinues, KernelUnlocksContinues,
     LockReleasedContinues, HandleReleasedContinues DEF Closing
<1>7. ASSUME NEW f \in Flushers, NEW p \in Procs, Flush(f, p) PROVE CInv'
  BY <1>7, FlushContinues
<1>8. ASSUME NEW f \in Flushers, Barrier(f) PROVE CInv'
  BY <1>8, BarrierContinues
<1>9. ASSUME NEW p \in Procs, Crash(p) PROVE CInv'
  BY <1>9, CrashContinues
<1>10. CASE UNCHANGED vars
  <2>1. UNCHANGED <<disk, lock, handle>>
    BY <1>10 DEF vars
  <2>2. /\ \A g \in Handles : Steady(handle'[g])
        /\ \A g \in Handles : Acts(handle'[g], lock' = g) => Active(g) /\ SameFile(handle[g], handle'[g])
        /\ lock' # 0 => lock' \in Handles /\ Acts(handle'[lock'], TRUE) /\ handle'[lock'].leased
    BY <2>1 DEF CInv, Holder, Active, Acts, SameFile
  <2> QED BY <2>1, <2>2, FileStays
<1> QED BY <1>1, <1>2, <1>3, <1>4, <1>5, <1>6, <1>7, <1>8, <1>9, <1>10 DEF Next

(* Through crashes, torn tails, repairs and any number of handles and      *)
(* processes the file is the log with no gap and no repetition, as long as *)
(* no write fails and nothing is logged after close's last look at the     *)
(* buffer.                                                                 *)
THEOREM LogIsContiguous ==
  ASSUME MaxFailures = 0, ~LateProducers
  PROVE  Spec => []LogContiguous
<1>1. Init => CInv
  BY InitContinues
<1>2. IInv /\ CInv /\ [Next]_vars => CInv'
  BY NextContinues
<1>3. CInv => LogContiguous
  BY DEF CInv
<1> QED BY <1>1, <1>2, <1>3, IInvHolds, PTL DEF Spec
=============================================================================
