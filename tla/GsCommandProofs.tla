-------------------------- MODULE GsCommandProofs --------------------------
(***************************************************************************)
(* GsCommand holds what its run shows for every length of the queue, the   *)
(* history and the link, every range of the transaction ids, and however   *)
(* many commands are sent, repeated or lost.                               *)
(***************************************************************************)
EXTENDS GsCommand, TLAPS

(* The frames on their way to Send_Task, in the order it will meet them.   *)
pipe == queue \o up
At(c) == {k \in DOMAIN pipe : pipe[k].command = c}
Alone(c) == \A j, k \in At(c) : j = k

(* The place of the transaction remembered j + 1 acceptances ago.          *)
Prev(j) == IF j < slot THEN slot - 1 - j ELSE slot + HistoryLen - 1 - j

-----------------------------------------------------------------------------
(* What travels carries the id of its command, and a command not yet sent  *)
(* has left no trace.                                                      *)
Honest ==
  /\ \A k \in DOMAIN pipe : pipe[k].command \in Commands /\ pipe[k].id = sent[pipe[k].command]
  /\ task = "dispatch" => cur \in Frames /\ cur.command \in Commands /\ cur.id = sent[cur.command]
  /\ \A c \in Sent \ Commands : took[c] = 0 /\ c \notin repeated

(* A command is on its way, in its handler or done, once; and once more    *)
(* when its frame was repeated.                                            *)
Copies ==
  \A c \in Commands :
    /\ \A i, j, k \in At(c) : ~(i < j /\ j < k)
    /\ took[c] > 0 \/ Underway(c) => Alone(c)
    /\ took[c] > 0 /\ Underway(c) => At(c) = {}
    /\ took[c] = 2 => At(c) = {} /\ ~Underway(c)
    /\ c \notin repeated => /\ Alone(c)
                            /\ Underway(c) => At(c) = {} /\ took[c] = 0
                            /\ took[c] > 0 => At(c) = {}

(* Two copies are never farther apart than the history is long, ...        *)
Near == \A c \in Commands : \A i, k \in At(c) : k - i <= HistoryLen

(* ... so the second one meets its id still remembered.                    *)
Known(c, k) ==
  \E j \in 0 .. HistoryLen - 1 :
    /\ history[Prev(j)] = sent[c] /\ j + k <= HistoryLen
    /\ task = "dispatch" /\ cur.id # 0 /\ cur.command # c => j > 0

Remembered ==
  \A c \in Commands : sent[c] # 0 =>
    /\ took[c] <= 1 /\ (took[c] > 0 => ~Underway(c))
    /\ took[c] > 0 \/ Underway(c) => \A k \in At(c) : Known(c, k)

(* What is remembered was executed, or is in its handler.                  *)
Executed ==
  /\ task = "dispatch" /\ cur.id # 0 => history[Prev(0)] = cur.id
  /\ \A i \in 0 .. HistoryLen - 1 :
       history[i] # 0 =>
         \E d \in Commands : sent[d] = history[i] /\ (took[d] > 0 \/ (Underway(d) /\ i = Prev(0)))

(* Commands that were not repeated are met in the order they were sent.    *)
Sorted ==
  \A c \in Commands \ repeated : \A d \in Commands : c < d =>
    /\ Underway(c) => took[d] = 0
    /\ \A k \in At(c) : took[d] = 0 /\ ~Underway(d) /\ \A m \in At(d) : k < m

Core == Honest /\ Copies /\ Near /\ Remembered /\ Executed /\ Sorted

(* Nothing of the command is left, and it did nothing; or it came twice.   *)
Void(c) == c \in repeated \/ (took[c] = 0 /\ ~Underway(c) /\ At(c) = {})

(* What an answer says of the commands that bear its id.                   *)
Truth(i, says) ==
  /\ says = "applied" => \E d \in Commands : sent[d] = i /\ took[d] > 0
  /\ says = "rejected" => \E d \in Commands : sent[d] = i /\ Void(d)

Told ==
  /\ \A k \in DOMAIN down : Truth(down[k].id, down[k].outcome)
  /\ \A i \in Ids : Truth(i, results[i])
  /\ client.says # "none" =>
       client.command \in Commands /\ client.id = sent[client.command] /\ Truth(client.id, client.says)

-----------------------------------------------------------------------------
(* The pipe, and what the steps do to it.                                  *)

LEMMA Sizes ==
  /\ HistoryLen \in Nat \ {0} /\ IdMax \in Nat \ {0} /\ QueueCap \in Nat \ {0}
  /\ LinkCap \in Nat \ {0} /\ AnswerCap \in Nat \ {0} /\ LinkCap <= HistoryLen + 1
  /\ MaxSends \in Nat /\ MaxLegacy \in Nat /\ MaxRepeats \in Nat /\ MaxRestarts \in Nat
  /\ FirstIds \subseteq 0 .. IdMax
  BY LinkAssumption DEF LinkAssumption

Kept(p, q) ==
  \E f : \A k \in DOMAIN q :
    /\ f[k] \in DOMAIN p /\ q[k] = p[f[k]] /\ k <= f[k]
    /\ \A i \in DOMAIN q : i < k => f[i] < f[k] /\ k - i <= f[k] - f[i]

LEMMA Joined ==
  ASSUME NEW S, NEW p \in Seq(S), NEW q \in Seq(S)
  PROVE  /\ p \o q \in Seq(S) /\ Len(p) \in Nat /\ Len(q) \in Nat
         /\ Len(p \o q) = Len(p) + Len(q) /\ DOMAIN (p \o q) = 1 .. Len(p) + Len(q)
         /\ \A k \in 1 .. Len(p) + Len(q) :
              (p \o q)[k] = IF k <= Len(p) THEN p[k] ELSE q[k - Len(p)]
<1>1. \A k \in 1 .. Len(p) + Len(q) : (p \o q)[k] = IF k <= Len(p) THEN p[k] ELSE q[k - Len(p)]
  OBVIOUS
<1>2. p \o q \in Seq(S) /\ Len(p) \in Nat /\ Len(q) \in Nat /\ Len(p \o q) = Len(p) + Len(q)
  OBVIOUS
<1> QED
  BY <1>1, <1>2

LEMMA Popped ==
  ASSUME NEW S, NEW p \in Seq(S), p # <<>>
  PROVE  /\ Head(p) \in S /\ Head(p) = p[1] /\ Len(p) \in Nat \ {0}
         /\ Tail(p) \in Seq(S) /\ Len(Tail(p)) = Len(p) - 1
         /\ \A k \in 1 .. Len(p) - 1 : Tail(p)[k] = p[k + 1]
  OBVIOUS

LEMMA PipeIs ==
  ASSUME TypeOK
  PROVE  /\ pipe \in Seq(Frames) /\ Len(pipe) = Len(queue) + Len(up) /\ Len(pipe) \in Nat
         /\ Len(queue) \in Nat /\ Len(up) \in Nat /\ DOMAIN pipe = 1 .. Len(queue) + Len(up)
         /\ \A k \in 1 .. Len(queue) + Len(up) :
              pipe[k] = IF k <= Len(queue) THEN queue[k] ELSE up[k - Len(queue)]
  BY Joined DEF TypeOK, pipe

LEMMA KeptSame == ASSUME TypeOK, UNCHANGED <<queue, up>> PROVE Kept(pipe, pipe')
<1>1. pipe' = pipe
  BY DEF pipe
<1>2. DOMAIN pipe \subseteq Nat
  BY PipeIs
<1> DEFINE f == [k \in DOMAIN pipe |-> k]
<1>3. \A k \in DOMAIN pipe : f[k] = k
  OBVIOUS
<1> HIDE DEF f
<1> QED
  BY <1>1, <1>2, <1>3 DEF Kept

LEMMA KeptPop ==
  ASSUME TypeOK, Next1, up' = up
  PROVE  /\ Kept(pipe, pipe')
         /\ Head(queue) \in Frames /\ 1 \in DOMAIN pipe /\ pipe[1] = Head(queue)
         /\ \A c : \A k \in At(c)' : k \in Nat /\ k >= 1 /\ k + 1 \in At(c)
         /\ task = "loop" /\ queue' \in Seq(Frames) /\ Len(queue') <= QueueCap
<1>1. queue # <<>> /\ queue' = Tail(queue) /\ task = "loop" /\ queue \in Seq(Frames) /\ up \in Seq(Frames)
  BY DEF Next1, TypeOK
<1>2. /\ Head(queue) \in Frames /\ Head(queue) = queue[1] /\ Len(queue) \in Nat \ {0}
      /\ queue' \in Seq(Frames) /\ Len(queue') = Len(queue) - 1
      /\ \A k \in 1 .. Len(queue) - 1 : queue'[k] = queue[k + 1]
  BY <1>1, Popped
<1>3. /\ DOMAIN pipe' = 1 .. Len(queue) - 1 + Len(up) /\ Len(up) \in Nat
      /\ \A k \in 1 .. Len(queue) - 1 + Len(up) :
           pipe'[k] = IF k <= Len(queue) - 1 THEN queue'[k] ELSE up[k - (Len(queue) - 1)]
  BY <1>1, <1>2, Joined DEF pipe
<1>4. \A k \in DOMAIN pipe' : k + 1 \in DOMAIN pipe /\ pipe'[k] = pipe[k + 1]
  <2> SUFFICES ASSUME NEW k \in DOMAIN pipe' PROVE k + 1 \in DOMAIN pipe /\ pipe'[k] = pipe[k + 1]
    OBVIOUS
  <2>1. k \in 1 .. Len(queue) - 1 + Len(up) /\ k + 1 \in 1 .. Len(queue) + Len(up)
    BY <1>2, <1>3
  <2>2. pipe[k + 1] = IF k + 1 <= Len(queue) THEN queue[k + 1] ELSE up[k + 1 - Len(queue)]
    BY <2>1, PipeIs
  <2>3. k + 1 - Len(queue) = k - (Len(queue) - 1)
    BY <1>2, <2>1
  <2> QED
    BY <1>2, <1>3, <2>1, <2>2, <2>3, PipeIs
<1>5. Kept(pipe, pipe')
  <2> DEFINE f == [k \in DOMAIN pipe' |-> k + 1]
  <2>1. \A k \in DOMAIN pipe' : f[k] = k + 1 /\ k \in Nat
    BY <1>3
  <2> HIDE DEF f
  <2> QED
    BY <1>4, <2>1 DEF Kept
<1>6. 1 \in DOMAIN pipe /\ pipe[1] = Head(queue)
  BY <1>2, PipeIs
<1>7. \A c : \A k \in At(c)' : k \in Nat /\ k >= 1 /\ k + 1 \in At(c)
  BY <1>3, <1>4 DEF At
<1>8. Len(queue') <= QueueCap
  BY <1>2, Sizes DEF TypeOK
<1> QED
  BY <1>1, <1>2, <1>5, <1>6, <1>7, <1>8

LEMMA KeptArrive == ASSUME TypeOK, Arrive PROVE Kept(pipe, pipe') /\ TypeOK'
<1>1. /\ up # <<>> /\ up' = Tail(up) /\ queue \in Seq(Frames) /\ up \in Seq(Frames)
      /\ queue' = IF Len(queue) < QueueCap THEN Append(queue, Head(up)) ELSE queue
  BY DEF Arrive, TypeOK
<1>2. /\ Head(up) \in Frames /\ Head(up) = up[1] /\ Len(up) \in Nat \ {0} /\ Len(queue) \in Nat
      /\ up' \in Seq(Frames) /\ Len(up') = Len(up) - 1
      /\ \A k \in 1 .. Len(up) - 1 : up'[k] = up[k + 1]
  BY <1>1, Popped
<1>3. queue' \in Seq(Frames) /\ Len(queue') <= QueueCap
  <2>1. CASE Len(queue) < QueueCap
    BY <1>1, <1>2, <2>1, Sizes
  <2>2. CASE ~(Len(queue) < QueueCap)
    BY <1>1, <2>2 DEF TypeOK
  <2> QED
    BY <2>1, <2>2
<1>4. Len(up') <= LinkCap
  BY <1>2, Sizes DEF TypeOK
<1>5. TypeOK'
  BY <1>2, <1>3, <1>4 DEF Arrive, ground, TypeOK
<1>6. CASE Len(queue) < QueueCap
  <2>1. /\ Len(queue') = Len(queue) + 1
        /\ queue'[Len(queue) + 1] = up[1]
        /\ \A k \in 1 .. Len(queue) : queue'[k] = queue[k]
    BY <1>1, <1>2, <1>6
  <2>2. /\ DOMAIN pipe' = 1 .. Len(queue) + Len(up)
        /\ \A k \in 1 .. Len(queue) + Len(up) :
             pipe'[k] = IF k <= Len(queue) + 1 THEN queue'[k] ELSE up'[k - (Len(queue) + 1)]
    <3>1. /\ DOMAIN pipe' = 1 .. Len(queue') + Len(up')
          /\ \A k \in 1 .. Len(queue') + Len(up') :
               pipe'[k] = IF k <= Len(queue') THEN queue'[k] ELSE up'[k - Len(queue')]
      BY <1>2, <1>3, Joined DEF pipe
    <3>2. Len(queue') + Len(up') = Len(queue) + Len(up)
      BY <1>2, <2>1
    <3> QED
      BY <2>1, <3>1, <3>2
  <2>3. ASSUME NEW k \in DOMAIN pipe' PROVE pipe'[k] = pipe[k] /\ k \in DOMAIN pipe /\ k \in Nat
    <3>1. k \in 1 .. Len(queue) + Len(up)
      BY <2>2
    <3>2. pipe[k] = IF k <= Len(queue) THEN queue[k] ELSE up[k - Len(queue)]
      BY <3>1, PipeIs
    <3>3. CASE k <= Len(queue) + 1
      BY <1>2, <2>1, <2>2, <3>1, <3>2, <3>3, PipeIs
    <3>4. CASE k > Len(queue) + 1
      <4>1. /\ k - (Len(queue) + 1) \in 1 .. Len(up) - 1
            /\ k - (Len(queue) + 1) + 1 = k - Len(queue)
        BY <1>2, <3>1, <3>4
      <4>2. up'[k - (Len(queue) + 1)] = up[k - Len(queue)]
        BY <1>2, <4>1
      <4> QED
        BY <1>2, <2>2, <3>1, <3>2, <3>4, <4>2, PipeIs
    <3> QED
      BY <1>2, <3>1, <3>3, <3>4
  <2> DEFINE f == [k \in DOMAIN pipe' |-> k]
  <2>4. \A k \in DOMAIN pipe' : f[k] = k
    OBVIOUS
  <2> HIDE DEF f
  <2> QED
    BY <1>5, <2>3, <2>4 DEF Kept
<1>7. CASE ~(Len(queue) < QueueCap)
  <2>1. /\ queue' = queue /\ DOMAIN pipe' = 1 .. Len(queue) + (Len(up) - 1)
        /\ \A k \in 1 .. Len(queue) + (Len(up) - 1) :
             pipe'[k] = IF k <= Len(queue) THEN queue[k] ELSE up'[k - Len(queue)]
    BY <1>1, <1>2, <1>7, Joined DEF pipe
  <2> DEFINE f == [k \in DOMAIN pipe' |-> IF k <= Len(queue) THEN k ELSE k + 1]
  <2>2. \A k \in DOMAIN pipe' : f[k] = IF k <= Len(queue) THEN k ELSE k + 1
    OBVIOUS
  <2>3. \A k \in DOMAIN pipe' : k \in Nat
    BY <2>1
  <2> HIDE DEF f
  <2>4. ASSUME NEW k \in DOMAIN pipe' PROVE f[k] \in DOMAIN pipe /\ pipe'[k] = pipe[f[k]]
    <3>1. k \in 1 .. Len(queue) + (Len(up) - 1)
      BY <2>1
    <3>2. CASE k <= Len(queue)
      <4>1. f[k] = k /\ k \in 1 .. Len(queue) + Len(up)
        BY <1>2, <2>2, <2>4, <3>1, <3>2
      <4>2. pipe'[k] = queue[k] /\ pipe[k] = queue[k]
        BY <1>2, <2>1, <3>1, <3>2, <4>1, PipeIs
      <4> QED
        BY <4>1, <4>2, PipeIs
    <3>3. CASE k > Len(queue)
      <4>1. /\ k - Len(queue) \in 1 .. Len(up) - 1 /\ k - Len(queue) + 1 = k + 1 - Len(queue)
            /\ f[k] = k + 1 /\ k + 1 \in 1 .. Len(queue) + Len(up) /\ ~(k + 1 <= Len(queue))
        BY <1>2, <2>2, <2>4, <3>1, <3>3
      <4>2. pipe[k + 1] = IF k + 1 <= Len(queue) THEN queue[k + 1] ELSE up[k + 1 - Len(queue)]
        BY <1>2, <3>1, <4>1, PipeIs
      <4>4. f[k] \in DOMAIN pipe /\ pipe[f[k]] = up[k + 1 - Len(queue)]
        BY <4>1, <4>2, PipeIs
      <4>5. pipe'[k] = up'[k - Len(queue)]
        BY <1>2, <2>1, <3>1, <3>3
      <4>3. up'[k - Len(queue)] = up[k + 1 - Len(queue)]
        BY <1>2, <4>1
      <4> QED
        BY <4>3, <4>4, <4>5
    <3> QED
      BY <1>2, <2>3, <3>2, <3>3
  <2> QED
    BY <1>2, <1>5, <2>2, <2>3, <2>4 DEF Kept
<1> QED
  BY <1>6, <1>7

LEMMA GrowAt ==
  ASSUME TypeOK, queue' = queue, NEW f \in Frames, up' = Append(up, f)
  PROVE  /\ \A c : \A k \in At(c)' : k \in At(c) \/ (k = Len(pipe) + 1 /\ f.command = c)
         /\ \A c : At(c) \subseteq 1 .. Len(pipe) /\ Len(pipe) \in Nat
         /\ \A k \in DOMAIN pipe' : pipe'[k] = f \/ (k \in DOMAIN pipe /\ pipe'[k] = pipe[k])
<1>1. queue \in Seq(Frames) /\ up \in Seq(Frames)
  BY DEF TypeOK
<1>2. pipe' = Append(pipe, f)
  BY <1>1 DEF pipe
<1>3. /\ DOMAIN pipe' = 1 .. Len(pipe) + 1 /\ pipe'[Len(pipe) + 1] = f
      /\ \A k \in 1 .. Len(pipe) : pipe'[k] = pipe[k]
  BY <1>2, PipeIs
<1> QED
  BY <1>3, PipeIs DEF At

LEMMA Modulo ==
  ASSUME NEW n \in Nat \ {0}, NEW a \in 0 .. n - 1
  PROVE  a % n = a /\ (a + n) % n = a
  OBVIOUS

(* The ring.                                                               *)
LEMMA Around ==
  ASSUME TypeOK
  PROVE  /\ (slot + 1) % HistoryLen = IF slot = HistoryLen - 1 THEN 0 ELSE slot + 1
         /\ (slot + HistoryLen - 1) % HistoryLen = Prev(0)
         /\ Prev(0) \in 0 .. HistoryLen - 1
<1>1. slot \in 0 .. HistoryLen - 1 /\ HistoryLen \in Nat \ {0}
  BY Sizes DEF TypeOK
<1>2. \A a \in 0 .. HistoryLen - 1 : a % HistoryLen = a /\ (a + HistoryLen) % HistoryLen = a
  BY <1>1, Modulo
<1>3. (slot + 1) % HistoryLen = IF slot = HistoryLen - 1 THEN 0 ELSE slot + 1
  <2>1. CASE slot = HistoryLen - 1
    <3>1. slot + 1 = 0 + HistoryLen /\ 0 \in 0 .. HistoryLen - 1
      BY <1>1, <2>1
    <3> QED
      BY <1>2, <2>1, <3>1
  <2>2. CASE slot # HistoryLen - 1
    <3>1. slot + 1 \in 0 .. HistoryLen - 1
      BY <1>1, <2>2
    <3> QED
      BY <1>2, <2>2, <3>1
  <2> QED
    BY <2>1, <2>2
<1>4. (slot + HistoryLen - 1) % HistoryLen = Prev(0)
  <2>1. CASE slot = 0
    <3>1. slot + HistoryLen - 1 \in 0 .. HistoryLen - 1 /\ Prev(0) = slot + HistoryLen - 1
      BY <1>1, <2>1 DEF Prev
    <3> QED
      BY <1>2, <3>1
  <2>2. CASE slot # 0
    <3>1. slot + HistoryLen - 1 = (slot - 1) + HistoryLen /\ slot - 1 \in 0 .. HistoryLen - 1
          /\ Prev(0) = slot - 1
      BY <1>1, <2>2 DEF Prev
    <3> QED
      BY <1>2, <3>1
  <2> QED
    BY <2>1, <2>2
<1>5. Prev(0) \in 0 .. HistoryLen - 1
  BY <1>1 DEF Prev
<1> QED
  BY <1>3, <1>4, <1>5

-----------------------------------------------------------------------------
(* Frames may be lost or leave, and nothing else happens.                  *)

LEMMA KeptAt ==
  ASSUME TypeOK, NEW q, Kept(pipe, q), pipe' = q
  PROVE  \E f : \A c : \A k \in At(c)' :
           /\ f[k] \in At(c) /\ k <= f[k]
           /\ \A d : \A i \in At(d)' : i < k => f[i] < f[k] /\ k - i <= f[k] - f[i]
  BY DEF Kept, At

LEMMA Numbers ==
  ASSUME TypeOK
  PROVE  /\ \A c : At(c) \subseteq Nat \ {0}
         /\ Len(sent) \in Nat /\ Commands = 1 .. Len(sent) /\ Commands \subseteq Sent /\ Sent \subseteq Nat
         /\ slot \in 0 .. HistoryLen - 1 /\ HistoryLen \in Nat \ {0}
         /\ \A c \in Commands : took[c] \in 0 .. 2
<1>1. \A c : At(c) \subseteq Nat \ {0}
  BY PipeIs DEF At
<1>2. Len(sent) \in Nat /\ Commands = 1 .. Len(sent) /\ Len(sent) <= MaxSends
  BY DEF TypeOK, Commands
<1>3. Commands \subseteq Sent /\ Sent \subseteq Nat
  BY <1>2, Sizes DEF Sent
<1>4. \A c \in Commands : took[c] \in 0 .. 2
  BY <1>3 DEF TypeOK
<1>5. slot \in 0 .. HistoryLen - 1 /\ HistoryLen \in Nat \ {0}
  BY Sizes DEF TypeOK
<1> QED
  BY <1>1, <1>2, <1>3, <1>4, <1>5

LEMMA KeptStep ==
  ASSUME TypeOK, Core, Kept(pipe, pipe'), \A c : At(c)' \subseteq Nat,
         UNCHANGED <<sent, repeated, task, cur, history, slot, took>>
  PROVE  Core' /\ \A c \in Commands : Void(c) => Void(c)'
<1>1. PICK f : \A c : \A k \in At(c)' :
                 /\ f[k] \in At(c) /\ k <= f[k]
                 /\ \A d : \A i \in At(d)' : i < k => f[i] < f[k] /\ k - i <= f[k] - f[i]
  BY KeptAt
<1>2. Commands' = Commands /\ \A c : Underway(c)' = Underway(c)
  BY DEF Commands, Underway
<1>3. \A c : \A k \in At(c)' : k \in Nat /\ f[k] \in Nat /\ f[k] \in At(c)
  BY <1>1, Numbers
<1>4. \A c : At(c) = {} => At(c)' = {}
  BY <1>1
<1>5. \A c : Alone(c) => Alone(c)'
  <2> SUFFICES ASSUME NEW c, Alone(c), NEW j \in At(c)', NEW k \in At(c)', j < k PROVE FALSE
    BY <1>3 DEF Alone
  <2>1. f[j] < f[k] /\ f[j] \in At(c) /\ f[k] \in At(c)
    BY <1>1
  <2> QED
    BY <1>3, <2>1 DEF Alone
<1>6. Honest'
  <2>1. ASSUME NEW k \in DOMAIN pipe'
        PROVE  pipe'[k].command \in Commands /\ pipe'[k].id = sent[pipe'[k].command]
    <3>1. PICK i \in DOMAIN pipe : pipe'[k] = pipe[i]
      BY <2>1 DEF Kept
    <3> QED
      BY <3>1 DEF Core, Honest
  <2> QED
    BY <1>2, <2>1 DEF Core, Honest
<1>7. Copies'
  <2> SUFFICES ASSUME NEW c \in Commands
               PROVE  /\ \A i, j, k \in At(c)' : ~(i < j /\ j < k)
                      /\ took[c] > 0 \/ Underway(c) => Alone(c)'
                      /\ took[c] > 0 /\ Underway(c) => At(c)' = {}
                      /\ took[c] = 2 => At(c)' = {} /\ ~Underway(c)
                      /\ c \notin repeated => /\ Alone(c)'
                                              /\ Underway(c) => At(c)' = {} /\ took[c] = 0
                                              /\ took[c] > 0 => At(c)' = {}
    BY <1>2 DEF Copies
  <2>1. \A i, j, k \in At(c)' : ~(i < j /\ j < k)
    <3> SUFFICES ASSUME NEW i \in At(c)', NEW j \in At(c)', NEW k \in At(c)', i < j, j < k PROVE FALSE
      OBVIOUS
    <3>1. f[i] \in At(c) /\ f[j] \in At(c) /\ f[k] \in At(c) /\ f[i] < f[j] /\ f[j] < f[k]
      BY <1>1
    <3> QED
      BY <3>1 DEF Core, Copies
  <2> QED
    BY <1>4, <1>5, <2>1 DEF Core, Copies
<1>8. Near'
  <2> SUFFICES ASSUME NEW c \in Commands, NEW i \in At(c)', NEW k \in At(c)' PROVE k - i <= HistoryLen
    BY <1>2 DEF Near
  <2>1. CASE i < k
    <3>1. f[i] \in At(c) /\ f[k] \in At(c) /\ k - i <= f[k] - f[i]
      BY <1>1, <2>1
    <3>2. f[k] - f[i] <= HistoryLen
      BY <3>1 DEF Core, Near
    <3> QED
      BY <1>3, <3>1, <3>2, Numbers
  <2>2. CASE ~(i < k)
    BY <1>3, <2>2, Numbers
  <2> QED
    BY <2>1, <2>2
<1>9. Remembered'
  <2>1. ASSUME NEW c \in Commands, NEW k \in At(c)', Known(c, f[k]) PROVE Known(c, k)'
    <3>1. PICK j \in 0 .. HistoryLen - 1 :
            /\ history[Prev(j)] = sent[c] /\ j + f[k] <= HistoryLen
            /\ task = "dispatch" /\ cur.id # 0 /\ cur.command # c => j > 0
      BY <2>1 DEF Known
    <3>2. j + k <= HistoryLen
      BY <1>1, <1>3, <3>1, Numbers
    <3>3. Prev(j)' = Prev(j)
      BY DEF Prev
    <3> QED
      BY <3>1, <3>2, <3>3 DEF Known
  <2> QED
    BY <1>2, <1>3, <2>1 DEF Core, Remembered
<1>10. Executed'
  BY <1>2 DEF Core, Executed, Prev
<1>11. Sorted'
  <2> SUFFICES ASSUME NEW c \in Commands \ repeated, NEW d \in Commands, c < d, NEW k \in At(c)'
               PROVE  took[d] = 0 /\ ~Underway(d) /\ \A m \in At(d)' : k < m
    BY <1>2 DEF Core, Sorted
  <2>1. took[d] = 0 /\ ~Underway(d) /\ \A m \in At(d) : f[k] < m
    BY <1>3 DEF Core, Sorted
  <2>2. ASSUME NEW m \in At(d)', m < k PROVE FALSE
    <3>1. f[m] < f[k] /\ f[k] < f[m]
      BY <1>1, <2>1, <2>2
    <3> QED
      BY <1>3, <2>2, <3>1
  <2>3. ASSUME NEW m \in At(d)' PROVE m # k
    <3>1. f[k] < f[m] /\ f[k] \in Nat
      BY <1>3, <2>1, <2>3
    <3> QED
      BY <3>1
  <2> QED
    BY <1>3, <2>1, <2>2, <2>3
<1>12. \A c \in Commands : Void(c) => Void(c)'
  BY <1>2, <1>4 DEF Void
<1> QED
  BY <1>6, <1>7, <1>8, <1>9, <1>10, <1>11, <1>12 DEF Core

-----------------------------------------------------------------------------
(* A new command.                                                          *)

LEMMA SendStep ==
  ASSUME TypeOK, Core, NEW id \in 0 .. IdMax, Send(id), UNCHANGED <<repeated, drone>>
  PROVE  /\ Core' /\ \A c \in Commands : Void(c) => Void(c)'
         /\ sent' \in Seq(0 .. IdMax) /\ Len(sent') <= MaxSends
         /\ up' \in Seq(Frames) /\ Len(up') <= LinkCap
         /\ Commands \subseteq Commands' /\ \A c \in Commands : sent'[c] = sent[c]
         /\ Len(sent') \in Commands' /\ sent'[Len(sent')] = id /\ Len(sent') \in Sent
<1> USE DEF drone
<1>1. /\ Len(sent) < MaxSends /\ sent' = Append(sent, id) /\ sent \in Seq(0 .. IdMax)
      /\ Transmit([id |-> id, command |-> Len(sent')])
  BY DEF Send, TypeOK
<1>2. PICK n : n = Len(sent) + 1
  OBVIOUS
<1>3. /\ Len(sent') = n /\ n \in Sent \ Commands /\ n \in Nat
      /\ sent' \in Seq(0 .. IdMax) /\ Commands' = Commands \union {n} /\ sent'[n] = id
      /\ \A c \in Commands : sent'[c] = sent[c] /\ c < n
  BY <1>1, <1>2, Sizes DEF Commands, Sent
<1>4. /\ took[n] = 0 /\ n \notin repeated /\ ~Underway(n)
      /\ \A k \in DOMAIN pipe : pipe[k].command \in Commands
  BY <1>3 DEF Core, Honest, Underway
<1>5. At(n) = {}
  BY <1>3, <1>4 DEF At
<1>6. PICK g \in Frames : g = [id |-> id, command |-> n]
  BY <1>3 DEF Frames
<1>7. up' = up \/ (Len(up) < LinkCap /\ up' = Append(up, g))
  BY <1>1, <1>3, <1>6 DEF Transmit
<1>8. up' \in Seq(Frames) /\ Len(up') <= LinkCap
  <2>1. up \in Seq(Frames) /\ Len(up) <= LinkCap
    BY DEF TypeOK
  <2>2. CASE Len(up) < LinkCap /\ up' = Append(up, g)
    BY <2>1, <2>2, Sizes
  <2> QED
    BY <1>7, <2>1, <2>2
<1>9. /\ \A c : \A k \in At(c)' : k \in At(c) \/ (k = Len(pipe) + 1 /\ c = n)
      /\ \A c : At(c) \subseteq 1 .. Len(pipe) /\ Len(pipe) \in Nat
      /\ \A k \in DOMAIN pipe' : pipe'[k] = g \/ (k \in DOMAIN pipe /\ pipe'[k] = pipe[k])
  <2>1. CASE up' = up
    <3>1. pipe' = pipe
      BY <2>1 DEF pipe
    <3> QED
      BY <3>1, PipeIs DEF At
  <2>2. CASE up' = Append(up, g)
    BY <1>6, <2>2, GrowAt
  <2> QED
    BY <1>7, <2>1, <2>2
<1>10. /\ \A c \in Commands : \A k \in At(c)' : k \in At(c)
       /\ \A k \in At(n)' : k = Len(pipe) + 1
       /\ \A c : Underway(c)' = Underway(c)
  BY <1>3, <1>5, <1>9 DEF Underway
<1>11. Honest'
  <2>1. \A k \in DOMAIN pipe' : pipe'[k].command \in Commands' /\ pipe'[k].id = sent'[pipe'[k].command]
    BY <1>3, <1>6, <1>9 DEF Core, Honest
  <2>2. task = "dispatch" => cur \in Frames /\ cur.command \in Commands' /\ cur.id = sent'[cur.command]
    BY <1>3 DEF Core, Honest
  <2>3. \A c \in Sent \ Commands' : took[c] = 0 /\ c \notin repeated
    BY <1>3 DEF Core, Honest
  <2> QED
    BY <2>1, <2>2, <2>3 DEF Honest
<1>12. Copies'
  <2>1. ASSUME NEW c \in Commands'
        PROVE  /\ \A i, j, k \in At(c)' : ~(i < j /\ j < k)
               /\ took[c] > 0 \/ Underway(c) => Alone(c)'
               /\ took[c] > 0 /\ Underway(c) => At(c)' = {}
               /\ took[c] = 2 => At(c)' = {} /\ ~Underway(c)
               /\ c \notin repeated => /\ Alone(c)'
                                       /\ Underway(c) => At(c)' = {} /\ took[c] = 0
                                       /\ took[c] > 0 => At(c)' = {}
    <3>1. CASE c \in Commands
      BY <1>10, <3>1 DEF Core, Copies, Alone
    <3>2. CASE c = n
      BY <1>4, <1>9, <1>10, <3>2 DEF Alone
    <3> QED
      BY <1>3, <3>1, <3>2
  <2> QED
    BY <1>10, <2>1 DEF Copies
<1>13. Near'
  <2> SUFFICES ASSUME NEW c \in Commands', NEW i \in At(c)', NEW k \in At(c)' PROVE k - i <= HistoryLen
    BY DEF Near
  <2>1. CASE c \in Commands
    BY <1>10, <2>1 DEF Core, Near
  <2>2. CASE c = n
    BY <1>9, <1>10, <2>2, Sizes
  <2> QED
    BY <1>3, <2>1, <2>2
<1>14. Remembered'
  <2>1. ASSUME NEW c \in Commands, NEW k, Known(c, k) PROVE Known(c, k)'
    <3>1. \A j : Prev(j)' = Prev(j)
      BY DEF Prev
    <3> QED
      BY <1>3, <2>1, <3>1 DEF Known
  <2>2. ASSUME NEW c \in Commands, sent[c] # 0
        PROVE  /\ took[c] <= 1 /\ (took[c] > 0 => ~Underway(c))
               /\ took[c] > 0 \/ Underway(c) => \A k \in At(c)' : Known(c, k)'
    BY <1>10, <2>1, <2>2 DEF Core, Remembered
  <2> QED
    BY <1>3, <1>4, <1>10, <2>2 DEF Remembered
<1>15. Executed'
  <2>1. Prev(0)' = Prev(0)
    BY DEF Prev
  <2> QED
    BY <1>3, <1>10, <2>1 DEF Core, Executed
<1>16. Sorted'
  <2>1. ASSUME NEW c \in Commands \ repeated, NEW d \in Commands, c < d
        PROVE  /\ Underway(c) => took[d] = 0
               /\ \A k \in At(c)' : took[d] = 0 /\ ~Underway(d) /\ \A m \in At(d)' : k < m
    BY <1>10, <2>1 DEF Core, Sorted
  <2>2. ASSUME NEW c \in Commands
        PROVE  /\ Underway(c) => took[n] = 0
               /\ \A k \in At(c)' : took[n] = 0 /\ ~Underway(n) /\ \A m \in At(n)' : k < m
    BY <1>4, <1>9, <1>10
  <2>3. \A d \in Commands' : ~(n < d)
    BY <1>3, Numbers
  <2> QED
    BY <1>3, <1>10, <2>1, <2>2, <2>3 DEF Sorted
<1>17. \A c \in Commands : Void(c) => Void(c)'
  BY <1>10 DEF Void
<1>18. Core'
  BY <1>11, <1>12, <1>13, <1>14, <1>15, <1>16 DEF Core
<1>19. Len(sent') <= MaxSends
  BY <1>3, Sizes DEF Sent
<1> QED
  BY <1>3, <1>8, <1>17, <1>18, <1>19

-----------------------------------------------------------------------------
(* A frame arrives once more.                                              *)

LEMMA RepeatStep ==
  ASSUME TypeOK, Core, Repeat
  PROVE  /\ Core' /\ \A c \in Commands : Void(c) => Void(c)'
         /\ up' \in Seq(Frames) /\ Len(up') <= LinkCap /\ repeated' \subseteq Sent
<1> USE DEF drone, ground
<1>1. PICK i \in 1 .. Len(up) :
        /\ up' = Append(up, up[i]) /\ up[i].command \notin repeated
        /\ repeated' = repeated \union {up[i].command}
  BY DEF Repeat
<1>2. PICK g \in Frames : g = up[i]
  BY DEF TypeOK
<1>3. PICK n : n = g.command
  OBVIOUS
<1>4. /\ Len(up) \in Nat /\ Len(up) < LinkCap /\ up' = Append(up, g) /\ queue' = queue
      /\ UNCHANGED <<sent, task, cur, history, slot, took>> /\ i \in 1 .. Len(up)
  BY <1>1, <1>2, PipeIs, Sizes DEF Repeat
<1>5. up' \in Seq(Frames) /\ Len(up') <= LinkCap
  BY <1>2, <1>4, Sizes DEF TypeOK
<1>6. /\ \A c : \A k \in At(c)' : k \in At(c) \/ (k = Len(pipe) + 1 /\ n = c)
      /\ \A c : At(c) \subseteq 1 .. Len(pipe) /\ Len(pipe) \in Nat
      /\ \A k \in DOMAIN pipe' : pipe'[k] = g \/ (k \in DOMAIN pipe /\ pipe'[k] = pipe[k])
  BY <1>2, <1>3, <1>4, GrowAt
<1>7. PICK p \in Nat : p = Len(queue) + i
  BY PipeIs
<1>8. p \in At(n) /\ pipe[p] = g /\ Len(pipe) + 1 - p <= HistoryLen
  <2>1. p \in 1 .. Len(queue) + Len(up) /\ ~(p <= Len(queue)) /\ p - Len(queue) = i
    BY <1>4, <1>7, PipeIs
  <2>2. p \in DOMAIN pipe /\ pipe[p] = up[i]
    BY <1>4, <2>1, PipeIs
  <2>3. Len(pipe) + 1 - p <= HistoryLen
    BY <1>4, <1>7, PipeIs, Sizes
  <2> QED
    BY <1>2, <1>3, <2>2, <2>3 DEF At
<1>9. /\ n \in Commands /\ n \notin repeated /\ repeated' = repeated \union {n} /\ g.id = sent[n]
  BY <1>1, <1>2, <1>3, <1>8 DEF Core, Honest, At
<1>10. At(n) = {p} /\ took[n] = 0 /\ ~Underway(n)
  <2>1. Alone(n) /\ At(n) # {}
    BY <1>8, <1>9 DEF Core, Copies
  <2>2. ~Underway(n) /\ ~(took[n] > 0)
    BY <1>9, <2>1 DEF Core, Copies
  <2>3. took[n] = 0
    BY <1>9, <2>2, Numbers
  <2> QED
    BY <1>8, <2>1, <2>2, <2>3 DEF Alone
<1>11. /\ Commands' = Commands /\ \A c : Underway(c)' = Underway(c)
       /\ \A c : c # n => \A k \in At(c)' : k \in At(c)
       /\ \A k \in At(n)' : k = p \/ k = Len(pipe) + 1
       /\ p < Len(pipe) + 1 /\ Len(pipe) \in Nat
  <2>1. Commands' = Commands /\ \A c : Underway(c)' = Underway(c)
    BY <1>4 DEF Commands, Underway
  <2>2. p \in 1 .. Len(pipe) /\ Len(pipe) \in Nat
    BY <1>6, <1>8
  <2>3. p < Len(pipe) + 1
    BY <2>2
  <2>4. \A k \in At(n)' : k = p \/ k = Len(pipe) + 1
    BY <1>6, <1>10
  <2>5. \A c : c # n => \A k \in At(c)' : k \in At(c)
    BY <1>6
  <2> QED
    BY <2>1, <2>2, <2>3, <2>4, <2>5
<1>12. Honest'
  BY <1>3, <1>4, <1>6, <1>9, <1>11 DEF Core, Honest
<1>13. Copies'
  <2> SUFFICES ASSUME NEW c \in Commands
               PROVE  /\ \A a, j, k \in At(c)' : ~(a < j /\ j < k)
                      /\ took[c] > 0 \/ Underway(c) => Alone(c)'
                      /\ took[c] > 0 /\ Underway(c) => At(c)' = {}
                      /\ took[c] = 2 => At(c)' = {} /\ ~Underway(c)
                      /\ c \notin repeated' => /\ Alone(c)'
                                               /\ Underway(c) => At(c)' = {} /\ took[c] = 0
                                               /\ took[c] > 0 => At(c)' = {}
    BY <1>4, <1>11 DEF Copies
  <2>1. CASE c = n
    BY <1>9, <1>10, <1>11, <2>1
  <2>2. CASE c # n
    BY <1>9, <1>11, <2>2 DEF Core, Copies, Alone
  <2> QED
    BY <2>1, <2>2
<1>14. Near'
  <2> SUFFICES ASSUME NEW c \in Commands, NEW a \in At(c)', NEW k \in At(c)' PROVE k - a <= HistoryLen
    BY <1>11 DEF Near
  <2>1. CASE c = n
    BY <1>8, <1>11, <2>1, Sizes
  <2>2. CASE c # n
    BY <1>11, <2>2 DEF Core, Near
  <2> QED
    BY <2>1, <2>2
<1>15. Remembered'
  <2>1. \A c, k : Known(c, k) => Known(c, k)'
    BY <1>4 DEF Known, Prev
  <2> QED
    BY <1>4, <1>10, <1>11, <2>1 DEF Core, Remembered
<1>16. Executed'
  BY <1>4, <1>11 DEF Core, Executed, Prev
<1>17. Sorted'
  <2> SUFFICES ASSUME NEW c \in Commands \ repeated', NEW d \in Commands, c < d
               PROVE  /\ Underway(c) => took[d] = 0
                      /\ \A k \in At(c)' : took[d] = 0 /\ ~Underway(d) /\ \A m \in At(d)' : k < m
    BY <1>4, <1>11 DEF Sorted
  <2>1. c # n /\ c \notin repeated
    BY <1>9
  <2>2. \A k \in At(c)' : k \in At(c) /\ k \in 1 .. Len(pipe)
    BY <1>6, <1>11, <2>1
  <2>3. \A m \in At(d)' : m \in At(d) \/ m = Len(pipe) + 1
    BY <1>6
  <2> QED
    BY <1>11, <2>1, <2>2, <2>3 DEF Core, Sorted
<1>18. \A c \in Commands : Void(c) => Void(c)'
  BY <1>4, <1>9, <1>11 DEF Void
<1>19. repeated' \subseteq Sent
  BY <1>9, Numbers DEF TypeOK
<1>20. Core'
  BY <1>12, <1>13, <1>14, <1>15, <1>16, <1>17 DEF Core
<1> QED
  BY <1>5, <1>18, <1>19, <1>20

-----------------------------------------------------------------------------
(* Send_Task takes a frame to its handler.                                 *)

LEMMA TakeStep ==
  ASSUME TypeOK, Core, Next1, UNCHANGED <<sent, up, repeated, took>>,
         task' = "dispatch", cur' = Head(queue),
         NEW h, h = Head(queue), NEW c, c = h.command
  PROVE  /\ Honest' /\ Copies' /\ Near' /\ Sorted' /\ \A x \in Commands : Void(x) => Void(x)'
         /\ h \in Frames /\ c \in Commands /\ h.id = sent[c] /\ 1 \in At(c)
         /\ Commands' = Commands /\ (\A x : Underway(x)' = (x = c)) /\ \A x : ~Underway(x)
         /\ \A x : \A k \in At(x)' : k \in Nat /\ k >= 1 /\ k + 1 \in At(x)
<1>1. /\ Kept(pipe, pipe') /\ h \in Frames /\ 1 \in DOMAIN pipe /\ pipe[1] = h
      /\ \A x : \A k \in At(x)' : k \in Nat /\ k >= 1 /\ k + 1 \in At(x)
      /\ task = "loop"
  BY KeptPop
<1>2. /\ Commands' = Commands /\ (\A x : Underway(x)' = (x = c)) /\ \A x : ~Underway(x)
  BY <1>1 DEF Commands, Underway
<1>3. c \in Commands /\ h.id = sent[c] /\ 1 \in At(c)
  BY <1>1 DEF Core, Honest, At
<1>4. \A x : At(x) = {} => At(x)' = {}
  BY <1>1
<1>5. \A x : At(x) \subseteq Nat \ {0}
  BY Numbers
<1>6. \A x : Alone(x) => Alone(x)'
  <2> SUFFICES ASSUME NEW x, Alone(x), NEW j \in At(x)', NEW k \in At(x)' PROVE j = k
    BY DEF Alone
  <2>1. j + 1 = k + 1 /\ j \in Nat /\ k \in Nat
    BY <1>1 DEF Alone
  <2> QED
    BY <2>1
<1>7. Alone(c) => At(c)' = {}
  <2> SUFFICES ASSUME Alone(c), NEW k \in At(c)' PROVE FALSE
    OBVIOUS
  <2>1. k + 1 = 1 /\ k \in Nat /\ k >= 1
    BY <1>1, <1>3 DEF Alone
  <2> QED
    BY <2>1
<1>8. Alone(c)'
  <2> SUFFICES ASSUME NEW j \in At(c)', NEW k \in At(c)', j < k PROVE FALSE
    BY <1>1 DEF Alone
  <2>1. j + 1 \in At(c) /\ k + 1 \in At(c) /\ 1 < j + 1 /\ j + 1 < k + 1
    BY <1>1
  <2> QED
    BY <1>3, <2>1 DEF Core, Copies
<1>9. Honest'
  <2>1. ASSUME NEW k \in DOMAIN pipe'
        PROVE  pipe'[k].command \in Commands /\ pipe'[k].id = sent[pipe'[k].command]
    <3>1. PICK i \in DOMAIN pipe : pipe'[k] = pipe[i]
      BY <1>1, <2>1 DEF Kept
    <3> QED
      BY <3>1 DEF Core, Honest
  <2> QED
    BY <1>1, <1>2, <1>3, <2>1 DEF Core, Honest
<1>10. Copies'
  <2> SUFFICES ASSUME NEW x \in Commands
               PROVE  /\ \A i, j, k \in At(x)' : ~(i < j /\ j < k)
                      /\ took[x] > 0 \/ x = c => Alone(x)'
                      /\ took[x] > 0 /\ x = c => At(x)' = {}
                      /\ took[x] = 2 => At(x)' = {} /\ x # c
                      /\ x \notin repeated => /\ Alone(x)'
                                              /\ x = c => At(x)' = {} /\ took[x] = 0
                                              /\ took[x] > 0 => At(x)' = {}
    BY <1>2 DEF Copies
  <2>1. \A i, j, k \in At(x)' : ~(i < j /\ j < k)
    <3> SUFFICES ASSUME NEW i \in At(x)', NEW j \in At(x)', NEW k \in At(x)', i < j, j < k PROVE FALSE
      OBVIOUS
    <3>1. /\ i + 1 \in At(x) /\ j + 1 \in At(x) /\ k + 1 \in At(x)
          /\ i + 1 < j + 1 /\ j + 1 < k + 1
      BY <1>1
    <3> QED
      BY <3>1 DEF Core, Copies
  <2>2. CASE x = c
    <3>1. took[c] = 2 => FALSE
      BY <1>3, Numbers DEF Core, Copies
    <3>2. c \notin repeated => Alone(c) /\ took[c] = 0
      BY <1>3, Numbers DEF Core, Copies
    <3>3. took[c] > 0 => Alone(c)
      BY <1>3 DEF Core, Copies
    <3> QED
      BY <1>7, <1>8, <2>1, <2>2, <3>1, <3>2, <3>3
  <2>3. CASE x # c
    BY <1>4, <1>6, <2>1, <2>3 DEF Core, Copies
  <2> QED
    BY <2>2, <2>3
<1>11. Near'
  <2> SUFFICES ASSUME NEW x \in Commands, NEW i \in At(x)', NEW k \in At(x)' PROVE k - i <= HistoryLen
    BY <1>2 DEF Near
  <2>1. (k + 1) - (i + 1) <= HistoryLen /\ i \in Nat /\ k \in Nat
    BY <1>1 DEF Core, Near
  <2> QED
    BY <2>1, Sizes
<1>12. Sorted'
  <2> SUFFICES ASSUME NEW x \in Commands \ repeated, NEW d \in Commands, x < d
               PROVE  /\ x = c => took[d] = 0
                      /\ \A k \in At(x)' : took[d] = 0 /\ d # c /\ \A m \in At(d)' : k < m
    BY <1>2 DEF Sorted
  <2>1. x = c => took[d] = 0
    BY <1>3 DEF Core, Sorted
  <2>2. ASSUME NEW k \in At(x)' PROVE took[d] = 0 /\ d # c /\ \A m \in At(d)' : k < m
    <3>1. k + 1 \in At(x) /\ k \in Nat /\ k >= 1
      BY <1>1
    <3>2. took[d] = 0 /\ \A m \in At(d) : k + 1 < m
      BY <3>1 DEF Core, Sorted
    <3>3. d # c
      BY <1>3, <3>1, <3>2
    <3>4. ASSUME NEW m \in At(d)' PROVE k < m
      <4>1. m + 1 \in At(d) /\ m \in Nat /\ k + 1 < m + 1
        BY <1>1, <3>2
      <4> QED
        BY <3>1, <4>1
    <3> QED
      BY <3>2, <3>3, <3>4
  <2> QED
    BY <2>1, <2>2
<1>13. \A x \in Commands : Void(x) => Void(x)'
  BY <1>2, <1>3, <1>4 DEF Void
<1> QED
  BY <1>1, <1>2, <1>3, <1>9, <1>10, <1>11, <1>12, <1>13

(* The ring, one place on.                                                 *)
LEMMA Onward ==
  ASSUME TypeOK, slot' = (slot + 1) % HistoryLen
  PROVE  /\ slot' \in 0 .. HistoryLen - 1 /\ Prev(0)' = slot
         /\ \A j \in 0 .. HistoryLen - 2 : Prev(j + 1)' = Prev(j) /\ Prev(j) # slot
<1>1. /\ slot' = IF slot = HistoryLen - 1 THEN 0 ELSE slot + 1
      /\ slot \in 0 .. HistoryLen - 1 /\ HistoryLen \in Nat \ {0}
  BY Around, Numbers
<1>2. slot' \in 0 .. HistoryLen - 1 /\ Prev(0)' = slot
  BY <1>1 DEF Prev
<1>3. ASSUME NEW j \in 0 .. HistoryLen - 2 PROVE Prev(j + 1)' = Prev(j) /\ Prev(j) # slot
  BY <1>1 DEF Prev
<1> QED
  BY <1>2, <1>3

LEMMA AcceptStep ==
  ASSUME TypeOK, Core, Accept
  PROVE  /\ Core' /\ \A x \in Commands : Void(x) => Void(x)'
         /\ slot' \in 0 .. HistoryLen - 1 /\ history' \in [0 .. HistoryLen - 1 -> 0 .. IdMax]
<1> USE DEF ground
<1>1. PICK h : h = Head(queue)
  OBVIOUS
<1>2. PICK c : c = h.command
  OBVIOUS
<1>3. /\ Next1 /\ h.id # 0 /\ ~Seen(h.id) /\ slot' = (slot + 1) % HistoryLen
      /\ history' = [history EXCEPT ![slot] = h.id] /\ task' = "dispatch" /\ cur' = h
      /\ UNCHANGED <<sent, up, repeated, took>>
  BY <1>1 DEF Accept
<1>4. /\ Honest' /\ Copies' /\ Near' /\ Sorted' /\ \A x \in Commands : Void(x) => Void(x)'
      /\ h \in Frames /\ c \in Commands /\ h.id = sent[c] /\ 1 \in At(c)
      /\ Commands' = Commands /\ (\A x : Underway(x)' = (x = c)) /\ \A x : ~Underway(x)
      /\ \A x : \A k \in At(x)' : k \in Nat /\ k >= 1 /\ k + 1 \in At(x)
  BY <1>1, <1>2, <1>3, TakeStep
<1>5. /\ slot' \in 0 .. HistoryLen - 1 /\ Prev(0)' = slot
      /\ \A j \in 0 .. HistoryLen - 2 : Prev(j + 1)' = Prev(j) /\ Prev(j) # slot
  BY <1>3, Onward
<1>6. history \in [0 .. HistoryLen - 1 -> 0 .. IdMax] /\ slot \in 0 .. HistoryLen - 1
  BY DEF TypeOK
<1>7. history' \in [0 .. HistoryLen - 1 -> 0 .. IdMax]
  BY <1>3, <1>4, <1>6 DEF Frames
<1>8. history'[slot] = h.id /\ \A i \in 0 .. HistoryLen - 1 : i # slot => history'[i] = history[i]
  BY <1>3, <1>6
<1>9. \A j \in 0 .. HistoryLen - 1 : Prev(j) \in 0 .. HistoryLen - 1
  BY <1>6, Numbers DEF Prev
<1>10. Remembered'
  <2> SUFFICES ASSUME NEW x \in Commands, sent[x] # 0
               PROVE  /\ took[x] <= 1 /\ (took[x] > 0 => x # c)
                      /\ took[x] > 0 \/ x = c => \A k \in At(x)' : Known(x, k)'
    BY <1>3, <1>4 DEF Remembered
  (* What was taken is known at its next copy; so it is not this one.      *)
  <2>1. ASSUME took[x] > 0, NEW k \in At(x)
        PROVE  \E j \in 0 .. HistoryLen - 1 : history[Prev(j)] = sent[x] /\ j + k <= HistoryLen
    BY <2>1 DEF Core, Remembered, Known
  <2>2. took[x] > 0 => x # c
    <3> SUFFICES ASSUME took[x] > 0, x = c PROVE FALSE
      OBVIOUS
    <3>1. PICK j \in 0 .. HistoryLen - 1 : history[Prev(j)] = h.id
      BY <1>4, <2>1
    <3> QED
      BY <1>3, <1>6, <1>9, <3>1 DEF Seen
  <2>3. ASSUME took[x] > 0, NEW k \in At(x)' PROVE Known(x, k)'
    <3>1. PICK j \in 0 .. HistoryLen - 1 : history[Prev(j)] = sent[x] /\ j + (k + 1) <= HistoryLen
      BY <1>4, <2>1, <2>3
    <3>2. PICK l : l = j + 1
      OBVIOUS
    <3>3. j \in 0 .. HistoryLen - 2 /\ l \in 0 .. HistoryLen - 1 /\ l + k <= HistoryLen /\ l > 0
      BY <1>4, <2>3, <3>1, <3>2, Numbers
    <3>4. Prev(l)' = Prev(j) /\ Prev(j) # slot
      BY <1>5, <3>2, <3>3
    <3>5. history'[Prev(l)'] = sent'[x]
      BY <1>3, <1>8, <1>9, <3>1, <3>4
    <3> QED
      BY <3>3, <3>5 DEF Known
  <2>4. ASSUME x = c, NEW k \in At(x)' PROVE Known(x, k)'
    <3>1. (k + 1) - 1 <= HistoryLen /\ k \in Nat
      BY <1>4, <2>4 DEF Core, Near
    <3>2. 0 \in 0 .. HistoryLen - 1 /\ 0 + k <= HistoryLen
      BY <3>1, Numbers
    <3>3. history'[Prev(0)'] = sent'[x] /\ cur'.command = x
      BY <1>2, <1>3, <1>4, <1>5, <1>8, <2>4
    <3> QED
      BY <3>2, <3>3 DEF Known
  <2>5. took[x] <= 1
    BY DEF Core, Remembered
  <2> QED
    BY <2>2, <2>3, <2>4, <2>5
<1>11. Executed'
  <2>1. ASSUME NEW i \in 0 .. HistoryLen - 1, history'[i] # 0
        PROVE  \E d \in Commands : sent[d] = history'[i] /\ (took[d] > 0 \/ (d = c /\ i = slot))
    <3>1. CASE i = slot
      BY <1>4, <1>8, <3>1
    <3>2. CASE i # slot
      BY <1>4, <1>8, <2>1, <3>2 DEF Core, Executed
    <3> QED
      BY <3>1, <3>2
  <2> QED
    BY <1>3, <1>4, <1>5, <1>8, <2>1 DEF Executed
<1> QED
  BY <1>4, <1>5, <1>7, <1>10, <1>11 DEF Core

LEMMA LegacyStep ==
  ASSUME TypeOK, Core, AcceptLegacy
  PROVE  Core' /\ \A x \in Commands : Void(x) => Void(x)'
<1> USE DEF ground
<1>1. PICK h : h = Head(queue)
  OBVIOUS
<1>2. PICK c : c = h.command
  OBVIOUS
<1>3. /\ Next1 /\ h.id = 0 /\ task' = "dispatch" /\ cur' = h
      /\ UNCHANGED <<sent, up, repeated, took, history, slot>>
  BY <1>1 DEF AcceptLegacy
<1>4. /\ Honest' /\ Copies' /\ Near' /\ Sorted' /\ \A x \in Commands : Void(x) => Void(x)'
      /\ h \in Frames /\ c \in Commands /\ h.id = sent[c] /\ 1 \in At(c)
      /\ Commands' = Commands /\ (\A x : Underway(x)' = (x = c)) /\ \A x : ~Underway(x)
      /\ \A x : \A k \in At(x)' : k \in Nat /\ k >= 1 /\ k + 1 \in At(x)
  BY <1>1, <1>2, <1>3, TakeStep
<1>5. Remembered'
  <2> SUFFICES ASSUME NEW x \in Commands, sent[x] # 0
               PROVE  /\ took[x] <= 1 /\ (took[x] > 0 => x # c)
                      /\ took[x] > 0 \/ x = c => \A k \in At(x)' : Known(x, k)'
    BY <1>3, <1>4 DEF Remembered
  <2>1. x # c /\ took[x] <= 1
    BY <1>3, <1>4 DEF Core, Remembered
  <2>2. ASSUME took[x] > 0, NEW k \in At(x)' PROVE Known(x, k)'
    <3>1. PICK j \in 0 .. HistoryLen - 1 : history[Prev(j)] = sent[x] /\ j + (k + 1) <= HistoryLen
      BY <1>4, <2>2 DEF Core, Remembered, Known
    <3>2. j + k <= HistoryLen
      BY <1>4, <2>2, <3>1, Numbers
    <3>3. Prev(j)' = Prev(j)
      BY <1>3 DEF Prev
    <3> QED
      BY <1>3, <3>1, <3>2, <3>3 DEF Known
  <2> QED
    BY <2>1, <2>2
<1>6. Executed'
  BY <1>3, <1>4 DEF Core, Executed, Prev
<1> QED
  BY <1>4, <1>5, <1>6 DEF Core

-----------------------------------------------------------------------------
(* The handler returns.                                                    *)

LEMMA ReturnStep ==
  ASSUME TypeOK, Core, Return, UNCHANGED <<sent, up, repeated, queue, slot>>,
         NEW c, c = cur.command,
         \/ took' = [took EXCEPT ![c] = @ + 1] /\ history' = history
         \/ /\ took' = took
            /\ \/ history' = history /\ (cur.id # 0 => history[Prev(0)] # cur.id)
               \/ cur.id # 0 /\ history' = [history EXCEPT ![Prev(0)] = 0]
  PROVE  /\ Core' /\ \A x \in Commands : Void(x) => Void(x)'
         /\ c \in Commands /\ cur.id = sent[c] /\ Underway(c) /\ cur \in Frames
         /\ took' \in [Sent -> 0 .. 2] /\ history' \in [0 .. HistoryLen - 1 -> 0 .. IdMax]
<1>1. task = "dispatch" /\ task' = "loop" /\ pipe' = pipe
  BY DEF Return, pipe
<1>2. /\ Commands' = Commands /\ (\A x : ~Underway(x)') /\ \A x : Underway(x) = (x = c)
      /\ \A x : At(x)' = At(x)
  BY <1>1 DEF Commands, Underway, At
<1>3. c \in Commands /\ cur.id = sent[c] /\ cur \in Frames
  BY <1>1 DEF Core, Honest
<1>4. /\ took \in [Sent -> 0 .. 2] /\ took[c] # 2 /\ c \in Sent
      /\ history \in [0 .. HistoryLen - 1 -> 0 .. IdMax]
      /\ Commands \subseteq Sent
  BY <1>2, <1>3, Numbers DEF Core, Copies, TypeOK
<1>5. /\ \A x \in Sent : x # c => took'[x] = took[x]
      /\ took'[c] \in {took[c], took[c] + 1} /\ took[c] \in 0 .. 1
      /\ took' \in [Sent -> 0 .. 2]
  <2>1. took[c] \in 0 .. 1 /\ took[c] \in 0 .. 2 /\ took[c] + 1 \in 0 .. 2
    BY <1>4
  <2> QED
    BY <1>4, <2>1
<1>6. history' \in [0 .. HistoryLen - 1 -> 0 .. IdMax]
  <2>1. 0 \in 0 .. IdMax
    BY Sizes
  <2> QED
    BY <1>4, <2>1
<1>7. Honest'
  BY <1>1, <1>2, <1>3, <1>5 DEF Core, Honest
<1>8. Copies'
  <2> SUFFICES ASSUME NEW x \in Commands
               PROVE  /\ \A i, j, k \in At(x) : ~(i < j /\ j < k)
                      /\ took'[x] > 0 => Alone(x)
                      /\ took'[x] = 2 => At(x) = {}
                      /\ x \notin repeated => Alone(x) /\ (took'[x] > 0 => At(x) = {})
    BY <1>2 DEF Copies, Alone
  <2>1. CASE x = c
    <3>1. Alone(c) /\ (took[c] > 0 => At(c) = {}) /\ (c \notin repeated => At(c) = {})
          /\ \A i, j, k \in At(c) : ~(i < j /\ j < k)
      BY <1>2, <1>3 DEF Core, Copies
    <3>2. took'[c] = 2 => took[c] > 0
      BY <1>5
    <3> QED
      BY <2>1, <3>1, <3>2
  <2>2. CASE x # c
    BY <1>4, <1>5, <2>2 DEF Core, Copies
  <2> QED
    BY <2>1, <2>2
<1>9. Near'
  BY <1>2 DEF Core, Near
<1>10. Prev(0) \in 0 .. HistoryLen - 1 /\ \A j : Prev(j)' = Prev(j)
  BY Around DEF Prev
<1>11. \A j \in 0 .. HistoryLen - 1 : Prev(j) \in 0 .. HistoryLen - 1 /\ (j > 0 => Prev(j) # Prev(0))
  <2>1. slot \in 0 .. HistoryLen - 1 /\ HistoryLen \in Nat \ {0}
    BY Numbers
  <2>2. ASSUME NEW j \in 0 .. HistoryLen - 1
        PROVE  Prev(j) \in 0 .. HistoryLen - 1 /\ (j > 0 => Prev(j) # Prev(0))
    BY <2>1 DEF Prev
  <2> QED
    BY <2>2
<1>12. Remembered'
  <2> SUFFICES ASSUME NEW x \in Commands, sent[x] # 0
               PROVE  took'[x] <= 1 /\ (took'[x] > 0 => \A k \in At(x) : Known(x, k)')
    BY <1>2 DEF Remembered
  <2>1. took[x] <= 1 /\ (took[x] > 0 => x # c)
        /\ (took[x] > 0 \/ x = c => \A k \in At(x) : Known(x, k))
    BY <1>2 DEF Core, Remembered
  <2>2. took'[x] <= 1
    BY <1>4, <1>5, <2>1
  <2>3. ASSUME took'[x] > 0, NEW k \in At(x) PROVE Known(x, k)'
    <3>1. took[x] > 0 \/ (x = c /\ history' = history)
      BY <1>4, <1>5, <2>3
    <3>2. PICK j \in 0 .. HistoryLen - 1 :
            /\ history[Prev(j)] = sent[x] /\ j + k <= HistoryLen
            /\ task = "dispatch" /\ cur.id # 0 /\ cur.command # x => j > 0
      BY <2>1, <3>1 DEF Known
    <3>3. history'[Prev(j)] = history[Prev(j)]
      <4>1. CASE history' = history
        BY <4>1
      <4>2. CASE cur.id # 0 /\ history' = [history EXCEPT ![Prev(0)] = 0] /\ took[x] > 0
        <5>1. j > 0
          BY <1>1, <2>1, <3>2, <4>2
        <5> QED
          BY <1>4, <1>11, <4>2, <5>1
      <4> QED
        BY <3>1, <4>1, <4>2
    <3> QED
      BY <1>1, <1>10, <3>2, <3>3 DEF Known
  <2> QED
    BY <2>2, <2>3
<1>13. Executed'
  <2> SUFFICES ASSUME NEW i \in 0 .. HistoryLen - 1, history'[i] # 0
               PROVE  \E d \in Commands : sent[d] = history'[i] /\ took'[d] > 0
    BY <1>1, <1>2 DEF Executed
  <2>1. history'[i] = history[i]
    BY <1>4, <1>10
  <2>2. PICK d \in Commands : sent[d] = history[i] /\ (took[d] > 0 \/ (d = c /\ i = Prev(0)))
    BY <1>2, <2>1 DEF Core, Executed
  <2>3. took[d] > 0 => took'[d] > 0
    BY <1>4, <1>5, <2>2
  <2>4. CASE d = c /\ i = Prev(0)
    <3>1. cur.id # 0 /\ history[Prev(0)] = cur.id
      BY <1>1, <1>3, <2>1, <2>2, <2>4 DEF Core, Executed
    <3>2. ~(history' = [history EXCEPT ![Prev(0)] = 0])
      BY <1>4, <1>10, <2>4
    <3>3. took'[c] = took[c] + 1
      BY <1>4, <3>1, <3>2
    <3> QED
      BY <1>5, <2>1, <2>2, <2>4, <3>3
  <2> QED
    BY <2>1, <2>2, <2>3, <2>4
<1>14. Sorted'
  <2> SUFFICES ASSUME NEW x \in Commands \ repeated, NEW d \in Commands, x < d, NEW k \in At(x)
               PROVE  took'[d] = 0 /\ \A m \in At(d) : k < m
    BY <1>2 DEF Sorted
  <2>1. took[d] = 0 /\ ~Underway(d) /\ \A m \in At(d) : k < m
    BY DEF Core, Sorted
  <2> QED
    BY <1>2, <1>4, <1>5, <2>1
<1>15. ASSUME NEW x \in Commands, Void(x) PROVE Void(x)'
  BY <1>2, <1>4, <1>5, <1>15 DEF Void
<1>16. Core'
  BY <1>7, <1>8, <1>9, <1>12, <1>13, <1>14 DEF Core
<1> QED
  BY <1>2, <1>3, <1>5, <1>6, <1>15, <1>16

-----------------------------------------------------------------------------
(* Every step: what is on its way, and what is true of a command stays so. *)

LEMMA NextIds == ASSUME TypeOK PROVE NextId \in Ids /\ Ids \subseteq 0 .. IdMax
  BY Sizes DEF TypeOK, NextId, Ids

LEMMA SendSteps ==
  ASSUME TypeOK, SendCommand \/ SendOther \/ SendLegacy
  PROVE  \E id \in 0 .. IdMax : Send(id) /\ UNCHANGED <<repeated, drone>>
  BY NextIds, Sizes DEF SendCommand, SendOther, SendLegacy, Submit

CoreMoves ==
  /\ Core' /\ Commands \subseteq Commands'
  /\ \A d \in Commands : /\ sent'[d] = sent[d] /\ (took[d] > 0 => took'[d] > 0)
                         /\ (Void(d) => Void(d)')

LEMMA StillMoves ==
  ASSUME TypeOK, Core, Kept(pipe, pipe'), \A c : At(c)' \subseteq Nat,
         UNCHANGED <<sent, repeated, task, cur, history, slot, took>>
  PROVE  CoreMoves
<1>1. Core' /\ \A c \in Commands : Void(c) => Void(c)'
  BY KeptStep
<1>2. Commands' = Commands
  BY DEF Commands
<1> QED
  BY <1>1, <1>2 DEF CoreMoves

LEMMA CoreStep == ASSUME TypeOK, Core, [Next]_vars PROVE CoreMoves
<1> USE DEF drone, ground
<1>1. ASSUME UNCHANGED <<sent, up, repeated, drone>> PROVE CoreMoves
  <2>1. Kept(pipe, pipe')
    BY <1>1, KeptSame
  <2>2. pipe' = pipe
    BY <1>1 DEF pipe
  <2>3. \A c : At(c)' \subseteq Nat
    BY <2>2, PipeIs DEF At
  <2> QED
    BY <1>1, <2>1, <2>3, StillMoves
<1>a. CASE SendCommand \/ SendOther \/ SendLegacy
  <2>1. PICK id \in 0 .. IdMax : Send(id) /\ UNCHANGED <<repeated, drone>>
    BY <1>a, SendSteps
  <2> QED
    BY <2>1, SendStep DEF CoreMoves
<1>b. CASE Poll \/ TakeResult \/ GiveUp \/ Restart
  BY <1>1, <1>b DEF Poll, TakeResult, GiveUp, Restart
<1>c. CASE Repeat
  <2>1. Commands' = Commands /\ UNCHANGED <<sent, took>>
    BY <1>c DEF Repeat, Commands
  <2> QED
    BY <1>c, <2>1, RepeatStep DEF CoreMoves
<1>d. CASE Arrive
  <2>1. Kept(pipe, pipe') /\ TypeOK'
    BY <1>d, KeptArrive
  <2>2. \A c : At(c)' \subseteq Nat
    <3>1. DOMAIN pipe' \subseteq Nat
      <4>1. queue' \in Seq(Frames) /\ up' \in Seq(Frames)
        BY <2>1 DEF TypeOK
      <4>2. DOMAIN pipe' = 1 .. Len(queue') + Len(up')
        BY <4>1, Joined DEF pipe
      <4> QED
        BY <4>2
    <3> QED
      BY <3>1 DEF At
  <2>3. UNCHANGED <<sent, repeated, task, cur, history, slot, took>>
    BY <1>d DEF Arrive
  <2> QED
    BY <2>1, <2>2, <2>3, StillMoves
<1>e. CASE Duplicate \/ Reject
  <2>1. Next1 /\ UNCHANGED <<up, sent, repeated, task, cur, history, slot, took>>
    BY <1>e DEF Duplicate, Reject
  <2>2. Kept(pipe, pipe') /\ \A c : \A k \in At(c)' : k \in Nat
    BY <2>1, KeptPop
  <2> QED
    BY <2>1, <2>2, StillMoves
<1>f. CASE Accept
  <2>1. Commands' = Commands /\ UNCHANGED <<sent, took>>
    BY <1>f DEF Accept, Commands
  <2> QED
    BY <1>f, <2>1, AcceptStep DEF CoreMoves
<1>g. CASE AcceptLegacy
  <2>1. Commands' = Commands /\ UNCHANGED <<sent, took>>
    BY <1>g DEF AcceptLegacy, Commands
  <2> QED
    BY <1>g, <2>1, LegacyStep DEF CoreMoves
<1>h. CASE Apply
  <2>1. /\ Return /\ took' = [took EXCEPT ![cur.command] = @ + 1]
        /\ UNCHANGED <<sent, up, repeated, queue, slot, history>>
    BY <1>h DEF Apply
  <2>2. PICK c : c = cur.command
    OBVIOUS
  <2>3. Core' /\ \A x \in Commands : Void(x) => Void(x)'
    BY <2>1, <2>2, ReturnStep
  <2>4. Commands' = Commands /\ \A d \in Commands : took[d] > 0 => took'[d] > 0
    <3>1. ASSUME NEW d \in Commands, took[d] > 0 PROVE took'[d] > 0
      <4>1. took \in [Sent -> 0 .. 2] /\ d \in Sent /\ took[d] \in 0 .. 2
        BY Numbers DEF TypeOK
      <4>2. CASE d = cur.command
        BY <2>1, <3>1, <4>1, <4>2
      <4>3. CASE d # cur.command
        BY <2>1, <3>1, <4>1, <4>3
      <4> QED
        BY <4>2, <4>3
    <3> QED
      BY <2>1, <3>1 DEF Commands
  <2> QED
    BY <2>1, <2>3, <2>4 DEF CoreMoves
<1>i. CASE Refuse
  <2>1. /\ Return /\ took' = took /\ UNCHANGED <<sent, up, repeated, queue, slot>>
        /\ \/ history' = history /\ (cur.id # 0 => history[Prev(0)] # cur.id)
           \/ cur.id # 0 /\ history' = [history EXCEPT ![Prev(0)] = 0]
    BY <1>i, Around DEF Refuse
  <2>2. PICK c : c = cur.command
    OBVIOUS
  <2>3. Core' /\ \A x \in Commands : Void(x) => Void(x)'
    BY <2>1, <2>2, ReturnStep
  <2>4. Commands' = Commands
    BY <2>1 DEF Commands
  <2> QED
    BY <2>1, <2>3, <2>4 DEF CoreMoves
<1>j. CASE UNCHANGED vars
  BY <1>1, <1>j DEF vars
<1> QED
  BY <1>a, <1>b, <1>c, <1>d, <1>e, <1>f, <1>g, <1>h, <1>i, <1>j DEF Next, Ground, Link, Send_Task

-----------------------------------------------------------------------------
(* The fields.                                                             *)

Waits == [id : Ids, command : Sent, acked : BOOLEAN,
          says : {"waiting", "applied", "rejected", "accepted", "timeout"}]

LEMMA Says ==
  ASSUME NEW c \in Waits, NEW v \in {"waiting", "applied", "rejected", "accepted", "timeout"}
  PROVE  /\ [c EXCEPT !.says = v] \in Waits /\ [c EXCEPT !.says = v].says = v
         /\ [c EXCEPT !.says = v].command = c.command /\ [c EXCEPT !.says = v].id = c.id
         /\ [c EXCEPT !.acked = TRUE] \in Waits /\ [c EXCEPT !.acked = TRUE].says = c.says
         /\ [c EXCEPT !.acked = TRUE].command = c.command /\ [c EXCEPT !.acked = TRUE].id = c.id
  BY DEF Waits

LEMMA Answers ==
  ASSUME TypeOK, NEW outcome \in Outcomes, NEW id \in Ids, Answer(outcome, id)
  PROVE  /\ down' \in Seq([id : Ids, outcome : Outcomes]) /\ Len(down') <= AnswerCap
         /\ \A k \in DOMAIN down' : \/ k \in DOMAIN down /\ down'[k] = down[k]
                                    \/ down'[k].id = id /\ down'[k].outcome = outcome
<1>1. down \in Seq([id : Ids, outcome : Outcomes]) /\ Len(down) <= AnswerCap
  BY DEF TypeOK
<1>2. CASE down' = down
  BY <1>1, <1>2
<1>3. PICK a \in [id : Ids, outcome : Outcomes] : a = [id |-> id, outcome |-> outcome]
  OBVIOUS
<1>4. CASE Len(down) < AnswerCap /\ down' = Append(down, a)
  BY <1>1, <1>3, <1>4, Sizes
<1> QED
  BY <1>2, <1>3, <1>4 DEF Answer

GroundOK ==
  /\ lastId \in 0 .. IdMax /\ restarts \in 0 .. MaxRestarts
  /\ client \in Waits \cup {[says |-> "none"]} /\ results \in [Ids -> Outcomes \cup {"none"}]
SentOK == sent \in Seq(0 .. IdMax) /\ Len(sent) <= MaxSends
PipeOK == /\ up \in Seq(Frames) /\ queue \in Seq(Frames) /\ Len(up) <= LinkCap /\ Len(queue) <= QueueCap
          /\ repeated \subseteq Sent
DownOK == down \in Seq([id : Ids, outcome : Outcomes]) /\ Len(down) <= AnswerCap
TaskOK == task \in {"loop", "dispatch"} /\ cur \in Frames \cup {[id |-> 0]}
RingOK == history \in [0 .. HistoryLen - 1 -> 0 .. IdMax] /\ slot \in 0 .. HistoryLen - 1
TookOK == took \in [Sent -> 0 .. 2]

LEMMA TypeParts ==
  TypeOK <=> GroundOK /\ SentOK /\ PipeOK /\ DownOK /\ TaskOK /\ RingOK /\ TookOK
  BY DEF TypeOK, Waits, GroundOK, SentOK, PipeOK, DownOK, TaskOK, RingOK, TookOK

LEMMA ClientIs ==
  ASSUME GroundOK, client.says # "none"
  PROVE  client \in Waits /\ client.id \in Ids /\ results[client.id] \in Outcomes \cup {"none"}
  BY DEF GroundOK, Waits

LEMMA TypeStep == TypeOK /\ Core /\ [Next]_vars => TypeOK'
<1> SUFFICES ASSUME TypeOK, Core, [Next]_vars PROVE TypeOK'
  OBVIOUS
<1> USE DEF drone, ground
<1>0. GroundOK /\ SentOK /\ PipeOK /\ DownOK /\ TaskOK /\ RingOK /\ TookOK
  BY TypeParts
<1>1. /\ UNCHANGED <<lastId, restarts, client, results>> => GroundOK'
      /\ UNCHANGED sent => SentOK'
      /\ UNCHANGED <<up, queue, repeated>> => PipeOK'
      /\ UNCHANGED down => DownOK'
      /\ UNCHANGED <<task, cur>> => TaskOK'
      /\ UNCHANGED <<history, slot>> => RingOK'
      /\ UNCHANGED took => TookOK'
  BY <1>0 DEF GroundOK, SentOK, PipeOK, DownOK, TaskOK, RingOK, TookOK
<1>2. ASSUME GroundOK', SentOK', PipeOK', DownOK', TaskOK', RingOK', TookOK' PROVE TypeOK'
  BY <1>2 DEF TypeOK, Waits, GroundOK, SentOK, PipeOK, DownOK, TaskOK, RingOK, TookOK
<1>a. ASSUME NEW id \in 0 .. IdMax, Send(id), UNCHANGED <<repeated, queue>>
      PROVE  SentOK' /\ PipeOK' /\ Len(sent') \in Sent
  <2>1. /\ Len(sent) < MaxSends /\ sent' = Append(sent, id) /\ Len(sent) \in Nat
        /\ Transmit([id |-> id, command |-> Len(sent')])
    BY <1>0, <1>a DEF Send, SentOK
  <2>2. SentOK' /\ Len(sent') \in Sent
    BY <1>0, <2>1, Sizes DEF SentOK, Sent
  <2>3. [id |-> id, command |-> Len(sent')] \in Frames
    BY <2>2 DEF Frames
  <2>4. PipeOK'
    <3>1. CASE up' = up
      BY <1>0, <1>a, <3>1 DEF PipeOK
    <3>2. PICK g \in Frames : g = [id |-> id, command |-> Len(sent')]
      BY <2>3
    <3>3. CASE Len(up) < LinkCap /\ up' = Append(up, g)
      BY <1>0, <1>a, <3>3, Sizes DEF PipeOK
    <3> QED
      BY <2>1, <3>1, <3>2, <3>3 DEF Transmit
  <2> QED
    BY <2>2, <2>4
<1>b. CASE SendCommand
  <2>1. lastId' \in Ids /\ Send(lastId') /\ lastId' \in 0 .. IdMax
    BY <1>b, NextIds DEF SendCommand, Submit
  <2>2. SentOK' /\ PipeOK' /\ Len(sent') \in Sent
    BY <1>a, <1>b, <2>1 DEF SendCommand
  <2>3. client' \in Waits
    BY <1>b, <2>1, <2>2 DEF SendCommand, Waits
  <2>4. GroundOK'
    BY <1>0, <1>b, <2>1, <2>3 DEF SendCommand, GroundOK
  <2> QED
    BY <1>1, <1>2, <1>b, <2>2, <2>4 DEF SendCommand
<1>c. CASE SendOther
  <2>1. Send(lastId') /\ lastId' \in 0 .. IdMax
    BY <1>c, NextIds DEF SendOther, Submit
  <2>2. SentOK' /\ PipeOK'
    BY <1>a, <1>c, <2>1 DEF SendOther
  <2>3. GroundOK'
    BY <1>0, <1>c, <2>1 DEF SendOther, GroundOK
  <2> QED
    BY <1>1, <1>2, <1>c, <2>2, <2>3 DEF SendOther
<1>d. CASE SendLegacy
  <2>1. 0 \in 0 .. IdMax
    BY Sizes
  <2>2. SentOK' /\ PipeOK'
    BY <1>a, <1>d, <2>1 DEF SendLegacy
  <2> QED
    BY <1>1, <1>2, <1>d, <2>2 DEF SendLegacy
<1>e. CASE Poll
  <2>1. Head(down) \in [id : Ids, outcome : Outcomes] /\ DownOK'
    <3>1. down # <<>> /\ down' = Tail(down)
      BY <1>e DEF Poll
    <3>2. /\ Head(down) \in [id : Ids, outcome : Outcomes] /\ Len(down') = Len(down) - 1
          /\ down' \in Seq([id : Ids, outcome : Outcomes]) /\ Len(down) \in Nat
      BY <1>0, <3>1, Popped DEF DownOK
    <3> QED
      BY <1>0, <3>2, Sizes DEF DownOK
  <2>2. results' \in [Ids -> Outcomes \cup {"none"}]
    BY <1>0, <1>e, <2>1 DEF Poll, GroundOK
  <2>3. GroundOK'
    BY <1>0, <1>e, <2>2 DEF Poll, GroundOK
  <2> QED
    BY <1>1, <1>2, <1>e, <2>1, <2>3 DEF Poll
<1>f. CASE TakeResult
  <2>1. client \in Waits /\ client.id \in Ids /\ results[client.id] \in Outcomes
    BY <1>0, <1>f, ClientIs DEF TakeResult
  <2>2. client' \in Waits
    <3>1. CASE results[client.id] = "ack"
      <4>1. client' = [client EXCEPT !.acked = TRUE]
        BY <1>f, <3>1 DEF TakeResult
      <4>2. "timeout" \in {"waiting", "applied", "rejected", "accepted", "timeout"}
        OBVIOUS
      <4> QED
        BY <2>1, <4>1, <4>2, Says
    <3>2. CASE results[client.id] # "ack"
      <4>1. results[client.id] \in {"waiting", "applied", "rejected", "accepted", "timeout"}
        BY <2>1, <3>2 DEF Outcomes
      <4> QED
        BY <1>f, <2>1, <3>2, <4>1, Says DEF TakeResult
    <3> QED
      BY <3>1, <3>2
  <2>3. results' \in [Ids -> Outcomes \cup {"none"}]
    BY <1>0, <1>f DEF TakeResult, GroundOK
  <2>4. GroundOK'
    BY <1>0, <1>f, <2>2, <2>3 DEF TakeResult, GroundOK
  <2> QED
    BY <1>1, <1>2, <1>f, <2>4 DEF TakeResult
<1>g. CASE GiveUp
  <2>1. client \in Waits
    BY <1>0, <1>g, ClientIs DEF GiveUp
  <2>2. client' \in Waits
    BY <1>g, <2>1, Says DEF GiveUp
  <2>3. GroundOK'
    BY <1>0, <1>g, <2>2 DEF GiveUp, GroundOK
  <2> QED
    BY <1>1, <1>2, <1>g, <2>3 DEF GiveUp
<1>h. CASE Restart
  <2>1. lastId' = 0 /\ restarts' \in 0 .. MaxRestarts /\ results' \in [Ids -> Outcomes \cup {"none"}]
        /\ client' = [says |-> "none"] /\ down' = <<>>
    BY <1>0, <1>h, Sizes DEF Restart, GroundOK
  <2>2. GroundOK'
    BY <2>1, Sizes DEF GroundOK
  <2>3. DownOK'
    BY <2>1, Sizes DEF DownOK
  <2> QED
    BY <1>1, <1>2, <1>h, <2>2, <2>3 DEF Restart
<1>i. CASE Repeat
  <2>1. up' \in Seq(Frames) /\ Len(up') <= LinkCap /\ repeated' \subseteq Sent
    BY <1>i, RepeatStep
  <2>2. PipeOK'
    BY <1>0, <1>i, <2>1 DEF Repeat, PipeOK
  <2> QED
    BY <1>1, <1>2, <1>i, <2>2 DEF Repeat
<1>j. CASE Arrive
  BY <1>j, KeptArrive
<1>k. ASSUME Next1, UNCHANGED <<up, repeated>> PROVE PipeOK'
  <2>1. queue' \in Seq(Frames) /\ Len(queue') <= QueueCap
    BY <1>k, KeptPop
  <2> QED
    BY <1>0, <1>k, <2>1 DEF PipeOK
<1>l. ASSUME Next1, up' = up PROVE Head(queue) \in Frames /\ (Head(queue).id # 0 => Head(queue).id \in Ids)
  <2>1. Head(queue) \in Frames
    BY <1>l, KeptPop
  <2> QED
    BY <2>1, Sizes DEF Frames, Ids
<1>m. CASE Duplicate \/ Reject
  <2>1. \E o \in Outcomes : \E id \in Ids : Answer(o, id)
    BY <1>l, <1>m DEF Duplicate, Reject, Outcomes
  <2>2. DownOK'
    BY <2>1, Answers DEF DownOK
  <2> QED
    BY <1>1, <1>2, <1>k, <1>m, <2>2 DEF Duplicate, Reject
<1>n. CASE Accept
  <2>1. \E o \in Outcomes : \E id \in Ids : Answer(o, id)
    BY <1>l, <1>n DEF Accept, Outcomes
  <2>2. DownOK'
    BY <2>1, Answers DEF DownOK
  <2>3. RingOK'
    BY <1>n, AcceptStep DEF RingOK
  <2>4. TaskOK'
    BY <1>l, <1>n DEF Accept, TaskOK
  <2> QED
    BY <1>1, <1>2, <1>k, <1>n, <2>2, <2>3, <2>4 DEF Accept
<1>o. CASE AcceptLegacy
  <2>1. TaskOK'
    BY <1>l, <1>o DEF AcceptLegacy, TaskOK
  <2> QED
    BY <1>1, <1>2, <1>k, <1>o, <2>1 DEF AcceptLegacy
<1>p. CASE Apply \/ Refuse
  <2>1. /\ Return /\ UNCHANGED <<sent, up, repeated, queue, slot, lastId, restarts, client, results>>
        /\ \/ took' = [took EXCEPT ![cur.command] = @ + 1] /\ history' = history
           \/ /\ took' = took
              /\ \/ history' = history /\ (cur.id # 0 => history[Prev(0)] # cur.id)
                 \/ cur.id # 0 /\ history' = [history EXCEPT ![Prev(0)] = 0]
        /\ down' = down \/ (cur.id # 0 /\ \E o \in {"applied", "rejected"} : Answer(o, cur.id))
    BY <1>p, Around DEF Apply, Refuse
  <2>2. PICK c : c = cur.command
    OBVIOUS
  <2>3. /\ cur \in Frames
        /\ took' \in [Sent -> 0 .. 2] /\ history' \in [0 .. HistoryLen - 1 -> 0 .. IdMax]
    BY <2>1, <2>2, ReturnStep
  <2>4. RingOK' /\ TookOK' /\ TaskOK'
    BY <1>0, <2>1, <2>3 DEF RingOK, TookOK, TaskOK, Return
  <2>5. DownOK'
    <3>1. CASE down' = down
      BY <1>1, <3>1
    <3>2. CASE cur.id # 0 /\ \E o \in {"applied", "rejected"} : Answer(o, cur.id)
      <4>1. cur.id \in Ids /\ {"applied", "rejected"} \subseteq Outcomes
        BY <2>3, <3>2, Sizes DEF Frames, Ids, Outcomes
      <4> QED
        BY <3>2, <4>1, Answers DEF DownOK
    <3> QED
      BY <2>1, <3>1, <3>2
  <2> QED
    BY <1>1, <1>2, <2>1, <2>4, <2>5
<1>q. CASE UNCHANGED vars
  BY <1>1, <1>2, <1>q DEF vars
<1> QED
  BY <1>b, <1>c, <1>d, <1>e, <1>f, <1>g, <1>h, <1>i, <1>j, <1>m, <1>n, <1>o, <1>p, <1>q
     DEF Next, Ground, Link, Send_Task

-----------------------------------------------------------------------------
(* What is said stays true.                                                *)

LEMMA TruthKept ==
  ASSUME CoreMoves, NEW i, NEW says, Truth(i, says)
  PROVE  Truth(i, says)'
  BY DEF CoreMoves, Truth

LEMMA ToldKept ==
  ASSUME TypeOK, Told, CoreMoves, UNCHANGED <<client, results>>, NEW i, NEW says, Truth(i, says)',
         \A k \in DOMAIN down' : \/ k \in DOMAIN down /\ down'[k] = down[k]
                                 \/ down'[k].id = i /\ down'[k].outcome = says
  PROVE  Told'
<1>1. ASSUME NEW k \in DOMAIN down' PROVE Truth(down[k].id, down[k].outcome)'
  <2>1. CASE k \in DOMAIN down /\ down'[k] = down[k]
    <3>1. PICK a, o : a = down[k].id /\ o = down[k].outcome
      OBVIOUS
    <3>2. Truth(a, o)'
      BY <2>1, <3>1, TruthKept DEF Told
    <3> QED
      BY <2>1, <3>1, <3>2
  <2>2. CASE down'[k].id = i /\ down'[k].outcome = says
    BY <2>2
  <2> QED
    BY <1>1, <2>1, <2>2
<1>2. ASSUME NEW j \in Ids PROVE Truth(j, results[j])'
  <2>1. PICK o : o = results[j]
    OBVIOUS
  <2>2. Truth(j, o)'
    BY <2>1, TruthKept DEF Told
  <2> QED
    BY <2>1, <2>2
<1>3. ASSUME client.says # "none"
      PROVE  client.command \in Commands' /\ client.id = sent'[client.command] /\ Truth(client.id, client.says)'
  <2>1. PICK a, o : a = client.id /\ o = client.says
    OBVIOUS
  <2>2. Truth(a, o)'
    BY <1>3, <2>1, TruthKept DEF Told
  <2> QED
    BY <1>3, <2>1, <2>2 DEF Told, CoreMoves
<1> QED
  BY <1>1, <1>2, <1>3 DEF Told

(* An answer that claims nothing.                                          *)
LEMMA Silent == ASSUME NEW i, NEW says, says \notin {"applied", "rejected"} PROVE Truth(i, says) /\ Truth(i, says)'
  BY DEF Truth

LEMMA ToldStep == TypeOK /\ Core /\ Told /\ [Next]_vars => Told'
<1> SUFFICES ASSUME TypeOK, Core, Told, [Next]_vars PROVE Told'
  OBVIOUS
<1> USE DEF drone, ground
<1>0. CoreMoves /\ GroundOK /\ DownOK
  BY CoreStep, TypeParts
<1>1. ASSUME UNCHANGED <<client, results, down>> PROVE Told'
  <2>1. Truth(0, "ack")' /\ "ack" \notin {"applied", "rejected"}
    BY Silent
  <2> QED
    BY <1>0, <1>1, <2>1, ToldKept
<1>2. ASSUME NEW id \in Ids, NEW o \in Outcomes, Answer(o, id), Truth(id, o)', UNCHANGED <<client, results>>
      PROVE  Told'
  BY <1>0, <1>2, Answers, ToldKept
<1>3. \A i, o : Truth(i, o) => Truth(i, o)'
  BY <1>0, TruthKept
<1>4. \A i, o : o \notin {"applied", "rejected"} => Truth(i, o)'
  BY Silent
<1>5. client.says # "none" => client.command \in Commands' /\ client.id = sent'[client.command]
  BY <1>0 DEF Told, CoreMoves
<1>a. CASE SendCommand
  <2>1. PICK id \in 0 .. IdMax :
        /\ id = lastId' /\ Send(id) /\ UNCHANGED <<repeated, drone>>
        /\ client' = [id |-> lastId', command |-> Len(sent'), acked |-> FALSE, says |-> "waiting"]
        /\ UNCHANGED <<results, down>>
    BY <1>a, NextIds DEF SendCommand, Submit
  <2>2. Len(sent') \in Commands' /\ sent'[Len(sent')] = lastId'
    BY <2>1, SendStep
  <2>3. Truth(id, "waiting")'
    BY DEF Truth
  <2>4. ASSUME NEW k \in DOMAIN down' PROVE Truth(down[k].id, down[k].outcome)'
    <3>1. PICK a, o : a = down[k].id /\ o = down[k].outcome
      OBVIOUS
    <3> QED
      BY <1>3, <2>1, <2>4, <3>1 DEF Told
  <2>5. ASSUME NEW j \in Ids PROVE Truth(j, results[j])'
    <3>1. PICK o : o = results[j]
      OBVIOUS
    <3> QED
      BY <1>3, <2>1, <3>1 DEF Told
  <2> QED
    BY <2>1, <2>2, <2>3, <2>4, <2>5 DEF Told, Truth
<1>b. CASE SendOther \/ SendLegacy
  BY <1>1, <1>b DEF SendOther, SendLegacy
<1>c. CASE Poll
  <2>1. /\ down # <<>> /\ down' = Tail(down) /\ client' = client
        /\ results' \in {results, [results EXCEPT ![Head(down).id] = Head(down).outcome]}
    BY <1>c DEF Poll
  <2>2. /\ Head(down) = down[1] /\ 1 \in DOMAIN down
        /\ \A k \in DOMAIN down' : k + 1 \in DOMAIN down /\ down'[k] = down[k + 1]
    <3>1. /\ Head(down) = down[1] /\ Len(down) \in Nat \ {0}
          /\ down' \in Seq([id : Ids, outcome : Outcomes]) /\ Len(down') = Len(down) - 1
          /\ \A k \in 1 .. Len(down) - 1 : down'[k] = down[k + 1]
      BY <1>0, <2>1, Popped DEF DownOK
    <3>2. DOMAIN down = 1 .. Len(down) /\ DOMAIN down' = 1 .. Len(down')
      BY <1>0, <3>1 DEF DownOK
    <3> QED
      BY <3>1, <3>2
  <2>3. ASSUME NEW k \in DOMAIN down' PROVE Truth(down[k].id, down[k].outcome)'
    <3>1. PICK a, o : a = down[k + 1].id /\ o = down[k + 1].outcome
      OBVIOUS
    <3>2. Truth(a, o)'
      BY <1>3, <2>2, <2>3, <3>1 DEF Told
    <3>3. down'[k].id = a /\ down'[k].outcome = o
      BY <2>2, <2>3, <3>1
    <3> QED
      BY <3>2, <3>3 DEF Truth
  <2>4. ASSUME NEW j \in Ids PROVE Truth(j, results[j])'
    <3>1. PICK a, o : a = down[1].id /\ o = down[1].outcome
      OBVIOUS
    <3>2. Truth(a, o)'
      BY <1>3, <2>2, <3>1 DEF Told
    <3>3. PICK r : r = results[j]
      OBVIOUS
    <3>4. Truth(j, r)'
      BY <1>3, <3>3 DEF Told
    <3>5. results'[j] = r \/ (j = a /\ results'[j] = o)
      BY <1>0, <2>1, <2>2, <3>1, <3>3 DEF GroundOK
    <3> QED
      BY <3>2, <3>4, <3>5 DEF Truth
  <2>5. client.says # "none" => Truth(client.id, client.says)'
    <3>1. PICK a, o : a = client.id /\ o = client.says
      OBVIOUS
    <3> QED
      BY <1>3, <2>1, <3>1 DEF Told
  <2> QED
    BY <1>5, <2>1, <2>3, <2>4, <2>5 DEF Told
<1>d. CASE TakeResult \/ GiveUp
  <2>1. PICK i, r, w : i = client.id /\ r = results[client.id] /\ w = client.says
    OBVIOUS
  <2>2. client \in Waits /\ i \in Ids /\ r \in Outcomes \union {"none"} /\ w = "waiting"
    BY <1>0, <1>d, <2>1, ClientIs DEF TakeResult, GiveUp
  <2>3. Truth(i, r)'
    BY <1>3, <2>1, <2>2 DEF Told
  <2>4. /\ client'.id = i /\ client'.command = client.command
        /\ client'.says = r \/ client'.says \in {"waiting", "accepted", "timeout"}
    <3>1. CASE GiveUp
      <4>1. \E v \in {"accepted", "timeout"} : client' = [client EXCEPT !.says = v]
        BY <3>1 DEF GiveUp
      <4> QED
        BY <2>1, <2>2, <4>1, Says
    <3>2. CASE TakeResult /\ r = "ack"
      <4>1. client' = [client EXCEPT !.acked = TRUE]
        BY <2>1, <3>2 DEF TakeResult
      <4>2. "timeout" \in {"waiting", "applied", "rejected", "accepted", "timeout"}
        OBVIOUS
      <4> QED
        BY <2>1, <2>2, <4>1, <4>2, Says
    <3>3. CASE TakeResult /\ r # "ack"
      <4>1. client' = [client EXCEPT !.says = r] /\ r # "none"
        BY <2>1, <3>3 DEF TakeResult
      <4>2. r \in {"waiting", "applied", "rejected", "accepted", "timeout"}
        BY <2>2, <3>3, <4>1 DEF Outcomes
      <4> QED
        BY <2>1, <2>2, <4>1, <4>2, Says
    <3> QED
      BY <1>d, <3>1, <3>2, <3>3
  <2>5. Truth(client.id, client.says)'
    <3>1. PICK v : v = client'.says
      OBVIOUS
    <3>2. Truth(i, v)'
      BY <1>4, <2>3, <2>4, <3>1
    <3> QED
      BY <2>4, <3>1, <3>2 DEF Truth
  <2>6. client.command \in Commands' /\ i = sent'[client.command]
    BY <1>5, <2>1, <2>2
  <2>7. ASSUME NEW k \in DOMAIN down' PROVE Truth(down[k].id, down[k].outcome)'
    <3>1. PICK a, o : a = down[k].id /\ o = down[k].outcome
      OBVIOUS
    <3>2. Truth(a, o)' /\ down' = down
      BY <1>3, <1>d, <2>7, <3>1 DEF Told, TakeResult, GiveUp
    <3> QED
      BY <3>1, <3>2
  <2>8. ASSUME NEW j \in Ids PROVE Truth(j, results[j])'
    <3>1. PICK o : o = results[j]
      OBVIOUS
    <3>2. Truth(j, o)' /\ Truth(j, "none")'
      BY <1>3, <1>4, <3>1 DEF Told
    <3>3. results'[j] = o \/ results'[j] = "none"
      BY <1>0, <1>d, <3>1 DEF TakeResult, GiveUp, GroundOK
    <3> QED
      BY <3>2, <3>3
  <2> QED
    BY <2>4, <2>5, <2>6, <2>7, <2>8 DEF Told
<1>e. CASE Restart
  <2>1. down' = <<>> /\ client'.says = "none" /\ \A j \in Ids : results'[j] = "none"
    BY <1>e DEF Restart
  <2>2. \A j \in Ids : Truth(j, "none")'
    BY <1>4
  <2>3. ASSUME NEW j \in Ids PROVE Truth(j, results[j])'
    BY <2>1, <2>2
  <2> QED
    BY <2>1, <2>3 DEF Told
<1>f. CASE Repeat \/ Arrive \/ AcceptLegacy
  BY <1>1, <1>f DEF Repeat, Arrive, AcceptLegacy
<1>g. ASSUME Next1, UNCHANGED <<up, sent, repeated, took>>, Head(queue).id # 0
      PROVE  /\ Head(queue).id \in Ids /\ task = "loop" /\ Commands' = Commands
             /\ \E c \in Commands : /\ sent[c] = Head(queue).id
                                    /\ c \notin repeated => took[c] = 0 /\ At(c)' = {}
  <2>1. PICK h : h = Head(queue)
    OBVIOUS
  <2>2. PICK c : c = h.command
    OBVIOUS
  <2>3. /\ h \in Frames /\ 1 \in DOMAIN pipe /\ pipe[1] = h /\ task = "loop"
        /\ \A x : \A k \in At(x)' : k \in Nat /\ k >= 1 /\ k + 1 \in At(x)
    BY <1>g, <2>1, KeptPop
  <2>4. c \in Commands /\ sent[c] = h.id /\ 1 \in At(c)
    BY <2>2, <2>3 DEF Core, Honest, At
  <2>5. h.id \in Ids /\ Commands' = Commands
    BY <1>g, <2>1, <2>3, Sizes DEF Frames, Ids, Commands
  <2>6. ASSUME c \notin repeated PROVE took[c] = 0 /\ At(c)' = {}
    <3>1. Alone(c) /\ ~(took[c] > 0)
      BY <2>4, <2>6 DEF Core, Copies
    <3>2. took[c] = 0
      BY <2>4, <3>1, Numbers
    <3>3. ASSUME NEW k \in At(c)' PROVE FALSE
      <4>1. k + 1 = 1 /\ k \in Nat /\ k >= 1
        BY <2>3, <2>4, <3>1, <3>3 DEF Alone
      <4> QED
        BY <4>1
    <3> QED
      BY <3>2, <3>3
  <2> QED
    BY <2>1, <2>3, <2>4, <2>5, <2>6
<1>h. CASE Duplicate
  <2>1. PICK id : id = Head(queue).id
    OBVIOUS
  <2>2. /\ Next1 /\ id # 0 /\ Seen(id) /\ Answer("applied", id)
        /\ UNCHANGED <<up, sent, repeated, took, client, results>>
    BY <1>h, <2>1 DEF Duplicate
  <2>3. id \in Ids /\ task = "loop" /\ Commands' = Commands
    BY <1>g, <2>1, <2>2
  <2>4. \E d \in Commands : sent[d] = id /\ took[d] > 0
    <3>1. PICK i \in 0 .. HistoryLen - 1 : history[i] = id
      BY <2>2 DEF Seen, TypeOK
    <3> QED
      BY <2>2, <2>3, <3>1 DEF Core, Executed, Underway
  <2>5. Truth(id, "applied")'
    BY <2>2, <2>3, <2>4 DEF Truth
  <2> QED
    BY <1>2, <2>2, <2>3, <2>5 DEF Outcomes
<1>i. CASE Reject
  <2>1. PICK id : id = Head(queue).id
    OBVIOUS
  <2>2. /\ Next1 /\ id # 0 /\ Answer("rejected", id)
        /\ UNCHANGED <<up, sent, repeated, took, task, client, results>>
    BY <1>i, <2>1 DEF Reject
  <2>3. id \in Ids /\ task = "loop" /\ Commands' = Commands
        /\ \E c \in Commands : /\ sent[c] = id
                               /\ c \notin repeated => took[c] = 0 /\ At(c)' = {}
    BY <1>g, <2>1, <2>2
  <2>4. Truth(id, "rejected")'
    BY <2>2, <2>3 DEF Truth, Void, Underway
  <2> QED
    BY <1>2, <2>2, <2>3, <2>4 DEF Outcomes
<1>j. CASE Accept
  <2>1. PICK id : id = Head(queue).id
    OBVIOUS
  <2>2. /\ Next1 /\ id # 0 /\ Answer("ack", id)
        /\ UNCHANGED <<up, sent, repeated, took, client, results>>
    BY <1>j, <2>1 DEF Accept
  <2>3. id \in Ids
    BY <1>g, <2>1, <2>2
  <2> QED
    BY <1>2, <1>4, <2>2, <2>3 DEF Outcomes
<1>k. CASE Apply \/ Refuse
  <2>1. PICK c, id : c = cur.command /\ id = cur.id
    OBVIOUS
  <2>2. /\ Return /\ UNCHANGED <<sent, up, repeated, queue, slot, client, results>>
        /\ \/ took' = [took EXCEPT ![c] = @ + 1] /\ history' = history
           \/ /\ took' = took
              /\ \/ history' = history /\ (cur.id # 0 => history[Prev(0)] # cur.id)
                 \/ cur.id # 0 /\ history' = [history EXCEPT ![Prev(0)] = 0]
    BY <1>k, <2>1, Around DEF Apply, Refuse
  <2>3. c \in Commands /\ id = sent[c] /\ Underway(c) /\ cur \in Frames
    BY <2>1, <2>2, ReturnStep
  <2>4. Commands' = Commands /\ pipe' = pipe /\ c \in Sent
    BY <2>2, <2>3, Numbers DEF Commands, pipe
  <2>5. CASE down' = down
    BY <1>1, <2>2, <2>5
  <2>6. CASE Apply /\ id # 0 /\ Answer("applied", id)
    <3>1. took'[c] > 0
      <4>1. took \in [Sent -> 0 .. 2] /\ took[c] \in 0 .. 2
        BY <2>4 DEF TypeOK
      <4> QED
        BY <2>1, <2>4, <2>6, <4>1 DEF Apply
    <3>2. Truth(id, "applied")'
      BY <2>2, <2>3, <2>4, <3>1 DEF Truth
    <3>3. id \in Ids
      <4>1. cur.id \in 0 .. IdMax
        BY <2>3 DEF Frames
      <4> QED
        BY <4>1, <2>1, <2>6, Sizes DEF Ids
    <3> QED
      BY <1>2, <2>2, <2>6, <3>2, <3>3 DEF Outcomes
  <2>7. CASE Refuse /\ id # 0 /\ Answer("rejected", id)
    <3>1. c \notin repeated => took[c] = 0 /\ At(c) = {}
      BY <2>3 DEF Core, Copies
    <3>2. Void(c)'
      BY <2>2, <2>4, <2>7, <3>1 DEF Void, At, Underway, Return, Refuse
    <3>3. Truth(id, "rejected")'
      BY <2>2, <2>3, <2>4, <3>2 DEF Truth
    <3>4. id \in Ids
      <4>1. cur.id \in 0 .. IdMax
        BY <2>3 DEF Frames
      <4> QED
        BY <4>1, <2>1, <2>7, Sizes DEF Ids
    <3> QED
      BY <1>2, <2>2, <2>7, <3>3, <3>4 DEF Outcomes
  <2> QED
    BY <1>k, <2>1, <2>5, <2>6, <2>7 DEF Apply, Refuse
<1>l. CASE UNCHANGED vars
  BY <1>1, <1>l DEF vars
<1> QED
  BY <1>a, <1>b, <1>c, <1>d, <1>e, <1>f, <1>h, <1>i, <1>j, <1>k, <1>l DEF Next, Ground, Link, Send_Task

-----------------------------------------------------------------------------
(* The invariant.                                                          *)

IInv == TypeOK /\ Core /\ Told

LEMMA IInvInit == Init => IInv
<1> SUFFICES ASSUME Init PROVE IInv
  OBVIOUS
<1>1. TypeOK
  <2>1. 0 \in 0 .. IdMax /\ 0 \in 0 .. HistoryLen - 1 /\ 0 \in 0 .. MaxRestarts
    BY Sizes
  <2>2. GroundOK /\ SentOK
    BY <2>1, Sizes DEF Init, GroundOK, SentOK
  <2>3. PipeOK /\ DownOK /\ TaskOK
    BY Sizes DEF Init, PipeOK, DownOK, TaskOK
  <2>4. RingOK /\ TookOK
    BY <2>1 DEF Init, RingOK, TookOK
  <2> QED
    BY <2>2, <2>3, <2>4, TypeParts
<1>2. Commands = {} /\ \A c \in Sent : took[c] = 0 /\ c \notin repeated
  BY DEF Init, Commands
<1>3. DOMAIN pipe = {}
  BY <1>1, PipeIs DEF Init
<1>4. \A i \in 0 .. HistoryLen - 1 : history[i] = 0
  BY DEF Init
<1>5. Core
  BY <1>2, <1>3, <1>4 DEF Init, Core, Honest, Copies, Near, Remembered, Executed, Sorted
<1>6. Told
  <2>1. DOMAIN down = {} /\ client.says = "none" /\ \A i \in Ids : results[i] = "none"
    BY DEF Init
  <2> QED
    BY <2>1 DEF Told, Truth
<1> QED
  BY <1>1, <1>5, <1>6 DEF IInv

LEMMA IInvStep == IInv /\ [Next]_vars => IInv'
  BY TypeStep, CoreStep, ToldStep DEF IInv, CoreMoves

LEMMA Invariant == Spec => []IInv
  BY IInvInit, IInvStep, PTL DEF Spec

-----------------------------------------------------------------------------
(* The state keeps its types: no identifier leaves the 16-bit counter, and *)
(* nothing that travels is longer than the queues of the code.             *)
THEOREM TypeCorrect == Spec => []TypeOK
<1>1. IInv => TypeOK
  BY DEF IInv
<1> QED
  BY <1>1, Invariant, PTL

(* The replay history of Send_Task keeps a repeated transaction from its   *)
(* handler, wherever its ring stands when the copy arrives.                *)
THEOREM OnlyOnce == Spec => []AtMostOnce
<1>1. IInv => AtMostOnce
  BY DEF IInv, Core, Remembered, AtMostOnce, Legacy
<1> QED
  BY <1>1, Invariant, PTL

(* What _send_cmd returns to the campaign as applied was applied, and what *)
(* it returns as rejected did nothing.                                     *)
THEOREM AnswersTrue == Spec => []AnswersAreTrue
<1>1. IInv => AppliedIsTrue
  BY DEF IInv, Told, Truth, AppliedIsTrue, Unique, Done
<1>2. IInv => RejectedIsTrue
  <2> SUFFICES ASSUME IInv, client.says = "rejected", Unique(client.command),
                      client.command \notin repeated
               PROVE  ~Done(client.command) /\ ~Underway(client.command)
    BY DEF RejectedIsTrue
  <2>1. /\ client.command \in Commands
        /\ \E d \in Commands : sent[d] = sent[client.command] /\ Void(d)
    BY DEF IInv, Told, Truth
  <2>2. Void(client.command)
    BY <2>1 DEF Unique
  <2> QED
    BY <2>2 DEF Void, Done
<1> QED
  BY <1>1, <1>2, Invariant, PTL DEF AnswersAreTrue

(* The commands of the ground station take effect in the order in which    *)
(* the bridge numbered them.                                               *)
THEOREM TakenInOrder == Spec => InOrder
<1>1. IInv /\ [Next]_vars =>
        [\A c, d \in Sent : c < d /\ took[d] > 0 /\ took'[c] > took[c] => c \in repeated]_vars
  <2> SUFFICES ASSUME IInv, [Next]_vars, NEW c \in Sent, NEW d \in Sent,
                      c < d, took[d] > 0, took'[c] > took[c], c \notin repeated
               PROVE  FALSE
    OBVIOUS
  <2>1. took' # took
    <3>1. took[c] \in Nat
      BY DEF IInv, TypeOK
    <3> QED
      BY <3>1
  <2>2. Apply
    BY <2>1 DEF Next, Ground, Link, Send_Task, SendCommand, SendOther, SendLegacy, Poll,
       TakeResult, GiveUp, Restart, Repeat, Arrive, Duplicate, Reject, Accept, AcceptLegacy,
       Refuse, drone, vars, ground
  <2>3. c = cur.command /\ task = "dispatch"
    <3>1. task = "dispatch" /\ took' = [took EXCEPT ![cur.command] = @ + 1]
      BY <2>2 DEF Apply, Return
    <3>2. took \in [Sent -> 0 .. 2] /\ took[c] \in Nat
      BY DEF IInv, TypeOK
    <3>3. c # cur.command => took'[c] = took[c]
      BY <3>1, <3>2
    <3> QED
      BY <3>1, <3>2, <3>3
  <2>4. c \in Commands /\ took[d] = 0
    BY <2>3 DEF IInv, Core, Honest, Sorted, Underway
  <2> QED
    BY <2>4
<1> QED
  BY <1>1, Invariant, PTL DEF Spec, InOrder

-----------------------------------------------------------------------------
(* What becomes of a command.                                              *)

LEMMA CarriesAppend ==
  ASSUME NEW s \in Seq(Frames), NEW f \in Frames, NEW c
  PROVE  Carries(Append(s, f), c) <=> Carries(s, c) \/ f.command = c
<1>1. /\ Len(s) \in Nat /\ DOMAIN s = 1 .. Len(s) /\ DOMAIN Append(s, f) = 1 .. Len(s) + 1
      /\ Append(s, f)[Len(s) + 1] = f /\ \A k \in 1 .. Len(s) : Append(s, f)[k] = s[k]
  OBVIOUS
<1>2. \A k \in 1 .. Len(s) + 1 : k \in 1 .. Len(s) \/ k = Len(s) + 1
  BY <1>1
<1>3. Len(s) + 1 \in 1 .. Len(s) + 1 /\ 1 .. Len(s) \subseteq 1 .. Len(s) + 1
  BY <1>1
<1> HIDE DEF Carries
<1>4. Carries(Append(s, f), c) => Carries(s, c) \/ f.command = c
  BY <1>1, <1>2 DEF Carries
<1>5. Carries(s, c) \/ f.command = c => Carries(Append(s, f), c)
  BY <1>1, <1>3 DEF Carries
<1> QED
  BY <1>4, <1>5

LEMMA CarriesTail ==
  ASSUME NEW s \in Seq(Frames), s # <<>>, NEW c
  PROVE  Carries(s, c) <=> Carries(Tail(s), c) \/ Head(s).command = c
<1>1. /\ Head(s) = s[1] /\ Len(s) \in Nat \ {0} /\ Len(Tail(s)) = Len(s) - 1
      /\ Tail(s) \in Seq(Frames) /\ \A k \in 1 .. Len(s) - 1 : Tail(s)[k] = s[k + 1]
  BY Popped
<1>2. DOMAIN s = 1 .. Len(s) /\ DOMAIN Tail(s) = 1 .. Len(s) - 1
  BY <1>1
<1>3. ASSUME Carries(s, c), Head(s).command # c PROVE Carries(Tail(s), c)
  <2>1. PICK k \in 1 .. Len(s) : s[k].command = c
    BY <1>2, <1>3 DEF Carries
  <2>2. k # 1
    BY <1>1, <1>3, <2>1
  <2>3. k - 1 \in 1 .. Len(s) - 1 /\ (k - 1) + 1 = k
    BY <1>1, <2>1, <2>2
  <2> QED
    BY <1>1, <1>2, <2>1, <2>3 DEF Carries
<1>4. ASSUME Carries(Tail(s), c) PROVE Carries(s, c)
  <2>1. PICK k \in 1 .. Len(s) - 1 : Tail(s)[k].command = c
    BY <1>2, <1>4 DEF Carries
  <2>2. k + 1 \in 1 .. Len(s)
    BY <1>1, <2>1
  <2> QED
    BY <1>1, <1>2, <2>1, <2>2 DEF Carries
<1>5. ASSUME Head(s).command = c PROVE Carries(s, c)
  <2>1. 1 \in 1 .. Len(s)
    BY <1>1
  <2> QED
    BY <1>1, <1>2, <1>5, <2>1 DEF Carries
<1> QED
  BY <1>3, <1>4, <1>5

LEMMA CarriesAt ==
  ASSUME TypeOK, NEW c, Carries(up, c) \/ Carries(queue, c)
  PROVE  At(c) # {}
<1>1. /\ Len(queue) \in Nat /\ Len(up) \in Nat /\ DOMAIN pipe = 1 .. Len(queue) + Len(up)
      /\ \A k \in 1 .. Len(queue) + Len(up) :
           pipe[k] = IF k <= Len(queue) THEN queue[k] ELSE up[k - Len(queue)]
  BY PipeIs
<1>2. DOMAIN queue = 1 .. Len(queue) /\ DOMAIN up = 1 .. Len(up)
  BY DEF TypeOK
<1>3. CASE Carries(queue, c)
  <2>1. PICK k \in 1 .. Len(queue) : queue[k].command = c
    BY <1>2, <1>3 DEF Carries
  <2>2. k \in 1 .. Len(queue) + Len(up) /\ k <= Len(queue)
    BY <1>1, <2>1
  <2> QED
    BY <1>1, <2>1, <2>2 DEF At
<1>4. CASE Carries(up, c)
  <2>1. PICK k \in 1 .. Len(up) : up[k].command = c
    BY <1>2, <1>4 DEF Carries
  <2>2. /\ k + Len(queue) \in 1 .. Len(queue) + Len(up) /\ ~(k + Len(queue) <= Len(queue))
        /\ (k + Len(queue)) - Len(queue) = k
    BY <1>1, <2>1
  <2> QED
    BY <1>1, <2>1, <2>2 DEF At
<1> QED
  BY <1>3, <1>4

(* A step that takes away at most the last of one command.                 *)
LEMMA Closes ==
  ASSUME TypeOK, UNCHANGED <<sent, took, repeated>>, NEW h,
         \A c \in Commands \ {h} : Afoot(c)' <=> Afoot(c), Afoot(h)' => Afoot(h)
  PROVE  [Fates!Next]_(Fates!vars)
<1>1. Commands' = Commands /\ Legacy' = Legacy /\ Len(sent') = Len(sent)
  BY DEF Commands, Legacy
<1>2. Open' = Open \/ (h \in Open /\ Open' = Open \ {h})
  BY <1>1 DEF Open
<1>3. Open \subseteq Sent
  BY Numbers DEF Open
<1>4. CASE Open' = Open
  BY <1>1, <1>4 DEF Fates!vars
<1>5. CASE h \in Open /\ Open' = Open \ {h}
  <2>1. Fates!Lose(h)
    BY <1>1, <1>5 DEF Fates!Lose
  <2> QED
    BY <1>3, <1>5, <2>1 DEF Fates!Next
<1> QED
  BY <1>2, <1>4, <1>5

LEMMA FatesInit == Init => Fates!Init
<1> SUFFICES ASSUME Init PROVE Fates!Init
  OBVIOUS
<1>1. Len(sent) = 0 /\ Commands = {} /\ repeated = {} /\ took = [c \in Sent |-> 0]
  BY DEF Init, Commands
<1> QED
  BY <1>1 DEF Fates!Init, Legacy, Open

LEMMA FatesSend ==
  ASSUME TypeOK, Core, NEW id \in 0 .. IdMax, Send(id), UNCHANGED <<repeated, drone>>
  PROVE  Fates!Send
<1> USE DEF drone
<1>1. /\ Len(sent) < MaxSends /\ sent' = Append(sent, id) /\ sent \in Seq(0 .. IdMax)
      /\ Transmit([id |-> id, command |-> Len(sent')]) /\ up \in Seq(Frames)
  BY DEF Send, TypeOK
<1>2. PICK n : n = Len(sent) + 1
  OBVIOUS
<1>3. /\ Len(sent') = n /\ n \in Sent \ Commands /\ n \in Nat
      /\ Commands' = Commands \union {n} /\ sent'[n] = id
      /\ \A c \in Commands : sent'[c] = sent[c]
  BY <1>1, <1>2, Sizes DEF Commands, Sent
<1>4. PICK g \in Frames : g = [id |-> id, command |-> n]
  BY <1>3 DEF Frames
<1>5. up' = up \/ up' = Append(up, g)
  BY <1>1, <1>3, <1>4 DEF Transmit
<1>6. ASSUME NEW c, c # n PROVE Afoot(c)' <=> Afoot(c)
  <2>1. Carries(up', c) <=> Carries(up, c)
    <3>1. CASE up' = up
      BY <3>1
    <3>2. CASE up' = Append(up, g)
      <4>1. g.command # c
        BY <1>4, <1>6
      <4> QED
        BY <1>1, <3>2, <4>1, CarriesAppend
    <3> QED
      BY <1>5, <3>1, <3>2
  <2> QED
    BY <2>1 DEF Afoot, Carries, Underway
<1>7. Open' \in {Open, Open \union {n}}
  <2>1. Open' \ {n} = Open
    BY <1>3, <1>6 DEF Open
  <2> QED
    BY <2>1
<1>8. Legacy' \in {Legacy, Legacy \union {n}}
  <2>1. Legacy' \ {n} = Legacy
    BY <1>3 DEF Legacy
  <2> QED
    BY <2>1
<1> QED
  BY <1>2, <1>3, <1>7, <1>8 DEF Fates!Send

LEMMA FatesRepeat == ASSUME TypeOK, Core, Repeat PROVE [Fates!Next]_(Fates!vars)
<1>1. PICK i \in 1 .. Len(up) :
        /\ up' = Append(up, up[i])
        /\ up[i].command \notin repeated /\ repeated' = repeated \cup {up[i].command}
  BY DEF Repeat
<1>2. UNCHANGED <<sent, queue, task, cur, took>>
  BY DEF Repeat, ground, drone
<1>3. up \in Seq(Frames) /\ up[i] \in Frames /\ DOMAIN up = 1 .. Len(up)
  BY DEF TypeOK
<1>4. PICK h : h = up[i].command
  OBVIOUS
<1>5. Carries(up, h)
  BY <1>3, <1>4 DEF Carries
<1>6. At(h) # {}
  BY <1>5, CarriesAt
<1>7. h \in Commands
  BY <1>4, <1>6 DEF Core, Honest, At
<1>8. took[h] = 0
  <2>1. ~(took[h] > 0) /\ took[h] \in 0 .. 2
    BY <1>1, <1>4, <1>6, <1>7, Numbers DEF Core, Copies
  <2> QED
    BY <2>1
<1>9. \A c : Afoot(c)' <=> Afoot(c)
  <2> SUFFICES ASSUME NEW c PROVE Afoot(c)' <=> Afoot(c)
    OBVIOUS
  <2>1. Carries(up', c) <=> Carries(up, c)
    BY <1>1, <1>3, <1>4, <1>5, CarriesAppend
  <2> QED
    BY <1>2, <2>1 DEF Afoot, Carries, Underway
<1>10. Open' = Open /\ Legacy' = Legacy /\ Len(sent') = Len(sent)
  BY <1>2, <1>9 DEF Open, Legacy, Commands
<1>11. h \in Open /\ h \in Sent
  BY <1>5, <1>7, <1>8, Numbers DEF Open, Afoot
<1>12. Fates!Repeat(h)
  BY <1>1, <1>2, <1>4, <1>8, <1>10, <1>11 DEF Fates!Repeat
<1> QED
  BY <1>11, <1>12 DEF Fates!Next

LEMMA FatesApply == ASSUME TypeOK, Core, Apply PROVE [Fates!Next]_(Fates!vars)
<1>1. /\ task = "dispatch" /\ task' = "loop" /\ took' = [took EXCEPT ![cur.command] = @ + 1]
      /\ UNCHANGED <<sent, up, queue, repeated>>
  BY DEF Apply, Return, ground
<1>2. PICK h : h = cur.command
  OBVIOUS
<1>3. /\ h \in Commands /\ cur.id = sent[h] /\ Underway(h) /\ \A c : Underway(c) => c = h
      /\ \A c : ~Underway(c)'
  BY <1>1, <1>2 DEF Core, Honest, Underway
<1>4. /\ took \in [Sent -> 0 .. 2] /\ h \in Sent /\ Commands \subseteq Sent /\ took[h] \in 0 .. 2
      /\ took'[h] = took[h] + 1 /\ \A c \in Sent \ {h} : took'[c] = took[c]
  BY <1>1, <1>2, <1>3, Numbers DEF TypeOK
<1>5. took[h] = 0 \/ sent[h] = 0
  BY <1>3, <1>4 DEF Core, Remembered
<1>6. h \in Open
  BY <1>3, <1>5 DEF Open, Afoot
<1>7. h \in repeated \/ \A d \in Sent : h < d => took[d] = 0
  BY <1>3 DEF Core, Sorted, Honest
<1>8. \A c : Afoot(c)' <=> Carries(up, c) \/ Carries(queue, c)
  BY <1>1, <1>3 DEF Afoot, Carries
<1>9. Open' \ {h} = Open \ {h} /\ Legacy' = Legacy /\ Len(sent') = Len(sent)
  <2>1. Commands' = Commands /\ sent' = sent
    BY <1>1 DEF Commands
  <2> QED
    BY <1>3, <1>4, <1>8, <2>1 DEF Open, Legacy, Afoot
<1>10. h \in Open' => h \in Legacy \cap repeated /\ took[h] = 0
  <2> SUFFICES ASSUME h \in Open' PROVE h \in Legacy \cap repeated /\ took[h] = 0
    OBVIOUS
  <2>1. (Carries(up, h) \/ Carries(queue, h)) /\ sent[h] = 0
    BY <1>1, <1>4, <1>8 DEF Open
  <2>2. At(h) # {}
    BY <2>1, CarriesAt
  <2>3. h \in repeated /\ ~(took[h] > 0)
    BY <1>3, <2>2 DEF Core, Copies
  <2> QED
    BY <1>3, <1>4, <2>1, <2>3 DEF Legacy
<1>11. Fates!Do(h)
  <2>1. Open' = Open \ {h} \/ (h \in Legacy \cap repeated /\ took[h] = 0 /\ Open' = Open)
    <3>1. CASE h \in Open'
      <4>1. Open' = Open
        BY <1>6, <1>9, <3>1
      <4> QED
        BY <1>10, <3>1, <4>1
    <3>2. CASE h \notin Open'
      BY <1>9, <3>2
    <3> QED
      BY <3>1, <3>2
  <2> QED
    BY <1>1, <1>2, <1>6, <1>7, <1>9, <2>1 DEF Fates!Do
<1> QED
  BY <1>4, <1>11 DEF Fates!Next

LEMMA FatesStep == ASSUME TypeOK, Core, [Next]_vars PROVE [Fates!Next]_(Fates!vars)
<1> USE DEF drone, ground
<1>0. up \in Seq(Frames) /\ queue \in Seq(Frames)
  BY DEF TypeOK
<1>1. ASSUME UNCHANGED <<sent, up, repeated, queue, task, cur, took>>
      PROVE  [Fates!Next]_(Fates!vars)
  BY <1>1, Closes DEF Afoot, Carries, Underway
<1>a. CASE SendCommand \/ SendOther \/ SendLegacy
  <2>1. PICK id \in 0 .. IdMax : Send(id) /\ UNCHANGED <<repeated, drone>>
    BY <1>a, SendSteps
  <2> QED
    BY <2>1, FatesSend DEF Fates!Next
<1>b. CASE Poll \/ TakeResult \/ GiveUp \/ Restart
  BY <1>1, <1>b DEF Poll, TakeResult, GiveUp, Restart
<1>c. CASE Repeat
  BY <1>c, FatesRepeat
<1>d. CASE Arrive
  <2>1. /\ up # <<>> /\ up' = Tail(up) /\ UNCHANGED <<sent, repeated, task, cur, took>>
        /\ queue' = queue \/ queue' = Append(queue, Head(up))
    BY <1>d DEF Arrive
  <2>2. PICK h : h = Head(up).command
    OBVIOUS
  <2>3. Head(up) \in Frames
    BY <1>0, <2>1, Popped
  <2>4. /\ \A c : Carries(up, c) <=> Carries(up', c) \/ h = c
        /\ \A c : Carries(queue, c) => Carries(queue', c)
        /\ \A c : Carries(queue', c) => Carries(queue, c) \/ h = c
    <3>1. \A c : Carries(up, c) <=> Carries(up', c) \/ h = c
      BY <1>0, <2>1, <2>2, CarriesTail
    <3>2. CASE queue' = Append(queue, Head(up))
      <4>1. \A c : Carries(queue', c) <=> Carries(queue, c) \/ h = c
        BY <1>0, <2>2, <2>3, <3>2, CarriesAppend
      <4> QED
        BY <3>1, <4>1
    <3> QED
      BY <2>1, <3>1, <3>2
  <2>5. (\A c : c # h => (Afoot(c)' <=> Afoot(c))) /\ (Afoot(h)' => Afoot(h))
    BY <2>1, <2>4 DEF Afoot, Carries, Underway
  <2> QED
    BY <2>1, <2>5, Closes
<1>e. CASE Duplicate \/ Reject
  <2>1. /\ queue # <<>> /\ queue' = Tail(queue)
        /\ UNCHANGED <<up, sent, repeated, task, cur, took>>
    BY <1>e DEF Duplicate, Reject, Next1
  <2>2. PICK h : h = Head(queue).command
    OBVIOUS
  <2>3. \A c : Carries(queue, c) <=> Carries(queue', c) \/ h = c
    BY <1>0, <2>1, <2>2, CarriesTail
  <2>4. (\A c : c # h => (Afoot(c)' <=> Afoot(c))) /\ (Afoot(h)' => Afoot(h))
    BY <2>1, <2>3 DEF Afoot, Carries, Underway
  <2> QED
    BY <2>1, <2>4, Closes
<1>f. CASE Accept \/ AcceptLegacy
  <2>1. /\ queue # <<>> /\ queue' = Tail(queue) /\ task = "loop" /\ task' = "dispatch"
        /\ cur' = Head(queue) /\ UNCHANGED <<up, sent, repeated, took>>
    BY <1>f DEF Accept, AcceptLegacy, Next1
  <2>2. PICK h : h = Head(queue).command
    OBVIOUS
  <2>3. \A c : Carries(queue, c) <=> Carries(queue', c) \/ h = c
    BY <1>0, <2>1, <2>2, CarriesTail
  <2>4. \A c : Underway(c)' <=> c = h
    BY <2>1, <2>2 DEF Underway
  <2>5. \A c : Afoot(c)' <=> Afoot(c)
    BY <2>1, <2>3, <2>4 DEF Afoot, Carries, Underway
  <2> QED
    BY <2>1, <2>5, Closes
<1>h. CASE Apply
  BY <1>h, FatesApply
<1>i. CASE Refuse
  <2>1. task = "dispatch" /\ task' = "loop" /\ UNCHANGED <<sent, up, repeated, queue, took>>
    BY <1>i DEF Refuse, Return
  <2>2. PICK h : h = cur.command
    OBVIOUS
  <2>3. (\A c : c # h => (Afoot(c)' <=> Afoot(c))) /\ (Afoot(h)' => Afoot(h))
    BY <2>1, <2>2 DEF Afoot, Carries, Underway
  <2> QED
    BY <2>1, <2>3, Closes
<1>j. CASE UNCHANGED vars
  BY <1>1, <1>j DEF vars
<1> QED
  BY <1>a, <1>b, <1>c, <1>d, <1>e, <1>f, <1>h, <1>i, <1>j DEF Next, Ground, Link, Send_Task

(* GsCommand implements CommandFates: what Send_Task, the link and the     *)
(* counter of the bridge do to a command is one of its moves, so that no   *)
(* command that is lost, refused or done ever takes effect afterwards.     *)
THEOREM FatesRefined == Spec => RefinesFates
<1>1. IInv /\ [Next]_vars => [Fates!Next]_(Fates!vars)
  BY FatesStep DEF IInv
<1> QED
  BY <1>1, FatesInit, Invariant, PTL DEF Spec, RefinesFates, Fates!Spec
=============================================================================
