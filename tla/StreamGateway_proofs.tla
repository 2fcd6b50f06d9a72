------------------------ MODULE StreamGateway_proofs ------------------------
(***************************************************************************)
(* Proofs for StreamGateway, for any number of transactions and any size   *)
(* of the queues, the buffer and the semaphore.                            *)
(*                                                                         *)
(* Three layers, each inductive on top of the one before.  Shape: which    *)
(* parts of the gateway can hold something in which state of the           *)
(* connection.  Losses: what is ahead of the checkpoint in the tasks, the  *)
(* dispatcher, the notification queue and the buffer leaves no hole.       *)
(* Order: what one connection received keeps the order of the chain on its *)
(* way through them.                                                       *)
(***************************************************************************)
EXTENDS StreamGateway, TLAPS

-----------------------------------------------------------------------------
(* Layer 1: types, shape and the entry gate *)

(* What the gateway has received comes before transaction n, what it has    *)
(* queued is among the first n.                                             *)
Taken(n) == [t : 1..n - 1, g : Nat, w : BOOLEAN]
Tasks(n) == [st : {"fetch", "ready", "put"}, item : Taken(n)]
Entries(n) == [t : 1..n, src : {"live", "baseline", "recovery"}, g : Nat]

(* The dispatcher holds an item while it waits for a permit or for room. *)
Holds == disp.st \in {"permit", "put"}

Numbers == chain \in Txs /\ cp \in 0..chain /\ wire \in 1..chain + 1 /\ gen \in Nat /\ faults \in Nat

Controls ==
    /\ conn \in Connected \cup {"down", "ended", "stopping", "off"}
    /\ baseline \in {"none", "warming", "elapsed", "inherited"}
    /\ gates \subseteq Reasons

Booleans ==
    /\ logsOnly \in BOOLEAN /\ recent \in BOOLEAN /\ halt \in BOOLEAN
    /\ recPending \in BOOLEAN /\ reconnect \in BOOLEAN /\ processed \in BOOLEAN

(* Nothing received is ahead of the socket, nothing known is ahead of the   *)
(* chain.                                                                   *)
Buffers == buf \in Seq(1..wire - 1) /\ live \in Seq(1..wire - 1) /\ rec \in Seq(1..chain)

Ingress ==
    /\ notif \in Seq(Taken(wire)) /\ tasks \in Seq(Tasks(wire))
    /\ disp \in [st : {"none", "run", "permit", "put"}, item : Taken(wire) \cup {NoItem}]
    /\ Holds => disp.item \in Taken(wire)

Queue == log \in Seq(Entries(chain)) /\ done \in 0..Len(log)

Rows == gap \in [pending : BOOLEAN, accepted : BOOLEAN] /\ lost \in [Causes -> SUBSET Txs]

Types == Numbers /\ Controls /\ Booleans /\ Buffers /\ Ingress /\ Queue /\ Rows

(* The limits of the queues, of the buffer and of the semaphore. *)
Limits ==
    /\ Len(buf) + Len(live) <= BufLimit /\ Len(notif) <= IngressSize
    /\ Len(tasks) <= MaxTasks /\ Len(log) - done <= QueueSize

Handshake == {"subscribing", "recovering", "committing"}
Quiet == Handshake \cup {"down", "ended", "off"}

(* Nothing is dispatched outside a connection that replays or is live, or   *)
(* a stop that drains it; only the logs fallback fetches block times, and   *)
(* only the oldest fetch dispatches.                                        *)
Shape ==
    /\ conn \in Quiet => disp.st = "none" /\ tasks = <<>>
    /\ conn # "recovering" => live = <<>>
    /\ conn # "committing" => rec = <<>>
    /\ conn = "live" => buf = <<>>
    /\ conn \in Handshake => ~reconnect
    /\ ~logsOnly => tasks = <<>> /\ disp.st # "permit" /\ (reconnect => disp.st = "none")
    /\ logsOnly => disp.st # "put"
    /\ \A i \in 1..Len(tasks) : tasks[i].st = "put" => i = 1

(* Why the gate is closed while the connection is not live, a reconnect is  *)
(* asked for, or the baseline is cold.                                      *)
Gates ==
    /\ conn # "live" => "startup" \in gates \/ "stream_disconnected" \in gates
    /\ reconnect => recPending /\ "stream_fetch_error" \in gates
    /\ conn = "subscribing" => baseline = "none"
    /\ conn \in Connected /\ baseline \notin {"elapsed", "inherited"} => "stream_baseline" \in gates

Inv == Types /\ Limits /\ Shape /\ Gates /\ AcceptedGapIsRecorded

-----------------------------------------------------------------------------
(* Layer 2: losses *)

TaskTimes == {tasks[i].item.t : i \in 1..Len(tasks)}
HeldTimes == IF Holds THEN {disp.item.t} ELSE {}
NotifTimes == {notif[i].t : i \in 1..Len(notif)}
BufTimes == {buf[i] : i \in 1..Len(buf)}

Kept == Logged(log) \cup GivenUp
Known == Kept \cup Blocked

(* The queue can still be dispatched. *)
Dispatching == (conn \in {"replaying", "live"} \/ disp.st # "none") /\ ~reconnect

(* What precedes an entry of the queue is known or ahead of it. *)
LogClosed ==
    \A i \in 1..Len(log) : \A t \in 1..log[i].t :
        t \in GivenUp \/ \E j \in 1..i : log[j].t = t

RecClosed ==
    conn = "committing" =>
        /\ \A i \in 1..Len(rec) : \A t \in 1..rec[i] : t \in Kept \/ \E j \in 1..i : rec[j] = t
        /\ \A t \in 1..wire - 1 : t \in Kept \/ \E j \in 1..Len(rec) : rec[j] = t

TasksClosed ==
    \A i \in 1..Len(tasks) : \A t \in 1..tasks[i].item.t - 1 :
        t \in Known \/ \E j \in 1..i - 1 : tasks[j].item.t = t

HeldClosed ==
    Dispatching /\ Holds => \A t \in 1..disp.item.t - 1 : t \in Known \cup TaskTimes

NotifClosed ==
    Dispatching =>
        \A i \in 1..Len(notif) : \A t \in 1..notif[i].t - 1 :
            t \in Known \cup TaskTimes \cup HeldTimes \/ \E j \in 1..i - 1 : notif[j].t = t

BufClosed ==
    Dispatching /\ conn = "replaying" =>
        \A i \in 1..Len(buf) : \A t \in 1..buf[i] - 1 :
            t \in Known \cup TaskTimes \cup HeldTimes \cup NotifTimes \/ \E j \in 1..i - 1 : buf[j] = t

WireClosed ==
    Dispatching /\ conn \in {"replaying", "live"} =>
        \A t \in 1..wire - 1 : t \in Known \cup TaskTimes \cup HeldTimes \cup NotifTimes \cup BufTimes

Losses ==
    /\ LossesAreKnown /\ LogClosed /\ RecClosed /\ TasksClosed /\ HeldClosed /\ NotifClosed
    /\ BufClosed /\ WireClosed

-----------------------------------------------------------------------------
(* Layer 3: order *)

Before(a, b) == a.g = b.g => a.t < b.t
Precede(A, B) == \A a \in A, b \in B : Before(a, b)

LogItems == {log[i] : i \in {j \in 1..Len(log) : log[j].src # "recovery"}}
TaskItems == {tasks[i].item : i \in 1..Len(tasks)}
HeldItems == IF Holds THEN {disp.item} ELSE {}
NotifItems == {notif[i] : i \in 1..Len(notif)}
Received == LogItems \cup TaskItems \cup HeldItems \cup NotifItems

TasksRise == \A i, j \in 1..Len(tasks) : i < j => Before(tasks[i].item, tasks[j].item)
NotifRise == \A i, j \in 1..Len(notif) : i < j => Before(notif[i], notif[j])
BufRise ==
    /\ \A i, j \in 1..Len(buf) : i < j => buf[i] < buf[j]
    /\ \A i, j \in 1..Len(live) : i < j => live[i] < live[j]
    /\ \A i \in 1..Len(buf), j \in 1..Len(live) : buf[i] < live[j]

(* An item overtakes nothing on its way to the queue. *)
Stages ==
    /\ Precede(LogItems, TaskItems \cup HeldItems \cup NotifItems)
    /\ Precede(TaskItems, HeldItems \cup NotifItems)
    /\ Precede(HeldItems, NotifItems)

(* What this connection has received comes before what it will receive. *)
Past(x) ==
    /\ x.g <= gen
    /\ conn \in Handshake => x.g < gen
    /\ conn \in {"replaying", "live"} /\ x.g = gen => x.t < wire
    /\ conn = "replaying" /\ x.g = gen => \A k \in 1..Len(buf) : x.t < buf[k]

ReceivedIsPast == \A x \in Received : Past(x)

Order == OrderedDispatch /\ TasksRise /\ NotifRise /\ BufRise /\ Stages /\ ReceivedIsPast

-----------------------------------------------------------------------------
(* Proofs of layer 1 *)

(* Sequences over a larger set. *)
LEMMA SeqWiden == ASSUME NEW A, NEW B, A \subseteq B PROVE Seq(A) \subseteq Seq(B)
OBVIOUS

(* What was behind a transaction is behind a later one. *)
LEMMA Widen ==
    ASSUME NEW m \in Nat, NEW n \in Nat, m <= n
    PROVE  /\ Seq(1..m - 1) \subseteq Seq(1..n - 1) /\ Seq(1..m) \subseteq Seq(1..n)
           /\ Taken(m) \subseteq Taken(n) /\ Seq(Taken(m)) \subseteq Seq(Taken(n))
           /\ Seq(Tasks(m)) \subseteq Seq(Tasks(n)) /\ Seq(Entries(m)) \subseteq Seq(Entries(n))
<1>1. 1..m - 1 \subseteq 1..n - 1 /\ 1..m \subseteq 1..n
  OBVIOUS
<1>2. Taken(m) \subseteq Taken(n)
  BY <1>1 DEF Taken
<1>3. Tasks(m) \subseteq Tasks(n)
  BY <1>2 DEF Tasks
<1>4. Entries(m) \subseteq Entries(n)
  BY <1>1 DEF Entries
<1> QED
  BY <1>1, <1>2, <1>3, <1>4, SeqWiden

(* The head of the tasks goes, the others move up. *)
LEMMA RemoveHead == ASSUME NEW S, NEW s \in Seq(S), s # <<>> PROVE RemoveAt(s, 1) = Tail(s)
BY DEF RemoveAt

(* What Head and Tail do to a queue. *)
LEMMA HeadTail ==
    ASSUME NEW S, NEW s \in Seq(S), s # <<>>
    PROVE  /\ Head(s) \in S /\ Head(s) = s[1] /\ Tail(s) \in Seq(S)
           /\ Len(s) \in Nat \ {0} /\ Len(Tail(s)) = Len(s) - 1
           /\ \A j \in 1..Len(Tail(s)) : Tail(s)[j] = s[j + 1]
OBVIOUS

(* What Append does to a queue. *)
LEMMA AppendTo ==
    ASSUME NEW S, NEW s \in Seq(S), NEW e \in S
    PROVE  /\ Append(s, e) \in Seq(S) /\ Len(s) \in Nat /\ Len(Append(s, e)) = Len(s) + 1
           /\ Append(s, e)[Len(s) + 1] = e
           /\ \A j \in 1..Len(s) : Append(s, e)[j] = s[j]
OBVIOUS

(* What a prefix keeps of a queue. *)
LEMMA PrefixOf ==
    ASSUME NEW S, NEW s \in Seq(S), NEW n \in 0..Len(s)
    PROVE  /\ SubSeq(s, 1, n) \in Seq(S) /\ Len(SubSeq(s, 1, n)) = n
           /\ \A j \in 1..n : SubSeq(s, 1, n)[j] = s[j]
OBVIOUS

(* A function on 1..n is a sequence of length n. *)
LEMMA FunctionIsSeq ==
    ASSUME NEW S, NEW n \in Nat, NEW f \in [1..n -> S]
    PROVE  f \in Seq(S) /\ Len(f) = n
OBVIOUS

(* A received transaction is confirmed. *)
LEMMA TakenTime == ASSUME Numbers, NEW x \in Taken(wire) PROVE x.t \in 0..chain
<1>1. wire \in 1..chain + 1 /\ chain \in Nat
  BY StreamAssumption DEF Numbers, Txs
<1>2. x.t \in 1..wire - 1
  BY DEF Taken
<1> QED BY <1>1, <1>2

(* The elements of the queues. *)
LEMMA Elements ==
    ASSUME Inv
    PROVE  /\ \A i \in 1..Len(notif) : notif[i] \in Taken(wire)
           /\ \A i \in 1..Len(tasks) : tasks[i] \in Tasks(wire) /\ tasks[i].item \in Taken(wire)
           /\ \A i \in 1..Len(log) : log[i] \in Entries(chain)
<1>1. \A i \in 1..Len(tasks) : tasks[i] \in Tasks(wire)
  BY DEF Inv, Types, Ingress
<1>2. \A x \in Tasks(wire) : x.item \in Taken(wire)
  BY DEF Tasks
<1>3. \A i \in 1..Len(notif) : notif[i] \in Taken(wire)
  BY DEF Inv, Types, Ingress
<1>4. \A i \in 1..Len(log) : log[i] \in Entries(chain)
  BY DEF Inv, Types, Queue
<1> QED
  BY <1>1, <1>2, <1>3, <1>4

(* An item blocked in queue.put is a transaction. *)
LEMMA BlockedType == Inv => Blocked \subseteq Txs
<1> SUFFICES ASSUME Inv PROVE Blocked \subseteq Txs
  OBVIOUS
<1>1. \A n : n \in 1..wire - 1 => n \in Txs
  BY StreamAssumption DEF Inv, Types, Numbers, Txs
<1>2. disp.st = "put" => disp.item.t \in 1..wire - 1
  BY DEF Inv, Types, Ingress, Holds, Taken
<1>3. \A i \in 1..Len(tasks) : tasks[i].item.t \in 1..wire - 1
  BY Elements DEF Taken
<1> QED
  BY <1>1, <1>2, <1>3 DEF Blocked

(* Produce keeps the first layer. *)
LEMMA ProduceInv == ASSUME Inv, Produce PROVE Inv'
<1> USE StreamAssumption DEF Inv, Types, Produce, socket, ingress, point, queue, base, flags
<1>1. Numbers'
  BY DEF Numbers, Txs
<1>2. Controls'
  BY DEF Controls, Connected, Reasons, Handshake, Quiet
<1>3. Booleans'
  BY DEF Booleans
<1>4. Buffers'
  BY Widen DEF Buffers, Numbers, Txs, Shape
<1>5. Ingress'
  BY Widen DEF Ingress, Holds, Numbers, Taken, Tasks, NoItem, Buffers
<1>6. Queue'
  <2>1. Seq(Entries(chain)) \subseteq Seq(Entries(chain'))
    BY Widen DEF Numbers, Txs
  <2> QED
    BY <2>1 DEF Queue
<1>7. Rows'
  BY DEF Rows, Numbers, Causes, Txs
<1>8. Limits'
  BY DEF Limits, Buffers, Ingress, Queue, Shape
<1>9. Shape'
  BY DEF Controls, Shape, Handshake, Quiet, Connected, Ingress
<1>10. Gates'
  BY DEF Controls, Gates, Shape, Handshake, Quiet, Connected
<1>11. AcceptedGapIsRecorded'
  BY DEF Rows, AcceptedGapIsRecorded, Causes
<1> QED
  BY <1>1, <1>2, <1>3, <1>4, <1>5, <1>6, <1>7, <1>8, <1>9, <1>10, <1>11 DEF Inv, Types

(* BufferMessage keeps the first layer. *)
LEMMA BufferMessageInv == ASSUME Inv, BufferMessage PROVE Inv'
<1> USE StreamAssumption DEF Inv, Types, BufferMessage, socket, ingress, point, queue, base,
     flags
<1>1. Numbers'
  BY DEF Numbers, Txs
<1>2. Controls'
  BY DEF Controls, Connected, Reasons, Handshake, Quiet
<1>3. Booleans'
  BY DEF Booleans
<1>4. Buffers'
  <2>1. wire \in Nat /\ wire' \in Nat /\ wire <= wire'
    BY DEF Numbers, Txs
  <2>2. /\ Seq(1..wire - 1) \subseteq Seq(1..wire' - 1) /\ Taken(wire) \subseteq Taken(wire')
        /\ Seq(Taken(wire)) \subseteq Seq(Taken(wire')) /\ Seq(Tasks(wire)) \subseteq Seq(Tasks(wire'))
    BY <2>1, Widen
  <2>3. wire \in 1..wire' - 1
    BY DEF Numbers, Txs
  <2>4. buf \in Seq(1..wire' - 1) /\ live \in Seq(1..wire' - 1)
    BY <2>2 DEF Buffers
  <2>5. Append(buf, wire) \in Seq(1..wire' - 1) /\ Append(live, wire) \in Seq(1..wire' - 1)
    BY <2>3, <2>4, AppendTo
  <2> QED
    BY <2>4, <2>5 DEF Buffers
<1>5. Ingress'
  <2>1. wire \in Nat /\ wire' \in Nat /\ wire <= wire'
    BY DEF Numbers, Txs
  <2>2. /\ Seq(1..wire - 1) \subseteq Seq(1..wire' - 1) /\ Taken(wire) \subseteq Taken(wire')
        /\ Seq(Taken(wire)) \subseteq Seq(Taken(wire')) /\ Seq(Tasks(wire)) \subseteq Seq(Tasks(wire'))
    BY <2>1, Widen
  <2> QED
    BY <2>2 DEF Ingress, Holds
<1>6. Queue'
  BY Widen DEF Queue, Ingress, Buffers, Holds, Entries, Taken, Numbers, Tasks
<1>7. Rows'
  BY DEF Rows, Numbers, Causes, Txs
<1>8. Limits'
  BY DEF Limits, Buffers, Ingress, Queue, Shape
<1>9. Shape'
  BY DEF Controls, Shape, Handshake, Quiet, Connected, Ingress
<1>10. Gates'
  BY DEF Controls, Gates, Shape, Handshake, Quiet, Connected
<1>11. AcceptedGapIsRecorded'
  BY DEF Rows, AcceptedGapIsRecorded, Causes
<1> QED
  BY <1>1, <1>2, <1>3, <1>4, <1>5, <1>6, <1>7, <1>8, <1>9, <1>10, <1>11 DEF Inv, Types

(* Receive keeps the first layer. *)
LEMMA ReceiveInv == ASSUME Inv, Receive PROVE Inv'
<1> USE StreamAssumption DEF Inv, Types, Receive, EnqueueNotification, Stamp, Running,
     socket, ingress, point, queue, base, flags
<1>1. Numbers'
  BY DEF Numbers, Txs
<1>2. Controls'
  BY DEF Controls, Connected, Reasons, Handshake, Quiet
<1>3. Booleans'
  BY DEF Booleans
<1>4. Buffers'
  BY Widen DEF Buffers, Numbers, Txs, Shape
<1>5. Ingress'
  <2>1. wire \in Nat /\ wire' \in Nat /\ wire <= wire'
    BY DEF Numbers, Txs
  <2>2. /\ Seq(1..wire - 1) \subseteq Seq(1..wire' - 1) /\ Taken(wire) \subseteq Taken(wire')
        /\ Seq(Taken(wire)) \subseteq Seq(Taken(wire')) /\ Seq(Tasks(wire)) \subseteq Seq(Tasks(wire'))
    BY <2>1, Widen
  <2>3. Stamp(wire) \in Taken(wire')
    BY DEF Stamp, Taken, Numbers, Txs
  <2>4. notif' \in Seq(Taken(wire')) /\ tasks' \in Seq(Tasks(wire'))
    BY <2>2, <2>3 DEF Ingress
  <2>5. disp' = disp \/ disp' = Running
    OBVIOUS
  <2> QED
    BY <2>2, <2>4, <2>5 DEF Ingress, Holds, Running
<1>6. Queue'
  BY Widen DEF Queue, Ingress, Buffers, Holds, Entries, Taken, Numbers, Tasks
<1>7. Rows'
  BY DEF Rows, Numbers, Causes, Txs
<1>8. Limits'
  BY DEF Limits, Buffers, Ingress, Queue, Shape
<1>9. Shape'
  BY DEF Controls, Shape, Handshake, Quiet, Connected, Ingress
<1>10. Gates'
  BY DEF Controls, Gates, Shape, Handshake, Quiet, Connected
<1>11. AcceptedGapIsRecorded'
  BY DEF Rows, AcceptedGapIsRecorded, Causes
<1> QED
  BY <1>1, <1>2, <1>3, <1>4, <1>5, <1>6, <1>7, <1>8, <1>9, <1>10, <1>11 DEF Inv, Types

(* Drop keeps the first layer. *)
LEMMA DropInv == ASSUME Inv, Drop PROVE Inv'
<1> USE StreamAssumption DEF Inv, Types, Drop, Leave, CancelDispatch, GateAfterCancel, Lose,
     Fault, NoDisp, socket, ingress, point, queue, base, flags
<1>1. Numbers'
  BY DEF Numbers, Txs
<1>2. Controls'
  BY DEF Controls, Connected, Reasons, Handshake, Quiet
<1>3. Booleans'
  BY DEF Booleans
<1>4. Buffers'
  BY DEF Buffers, Numbers, Txs, Shape
<1>5. Ingress'
  BY DEF Ingress, Holds, Numbers, Taken, Tasks, NoItem, Buffers
<1>6. Queue'
  BY DEF Queue, Ingress, Buffers, Holds, Entries, Taken, Numbers, Tasks
<1>7. Rows'
  BY BlockedType DEF Rows, Numbers, Causes, Txs
<1>8. Limits'
  BY DEF Limits, Buffers, Ingress, Queue, Shape
<1>9. Shape'
  BY DEF Controls, Shape, Handshake, Quiet, Connected, Ingress
<1>10. Gates'
  BY DEF Controls, Gates, Shape, Handshake, Quiet, Connected
<1>11. AcceptedGapIsRecorded'
  BY DEF Rows, AcceptedGapIsRecorded, Causes
<1> QED
  BY <1>1, <1>2, <1>3, <1>4, <1>5, <1>6, <1>7, <1>8, <1>9, <1>10, <1>11 DEF Inv, Types

(* Reconnect keeps the first layer. *)
LEMMA ReconnectInv == ASSUME Inv, Reconnect PROVE Inv'
<1> USE StreamAssumption DEF Inv, Types, Reconnect, Leave, CancelDispatch, GateAfterCancel,
     Lose, NoDisp, socket, ingress, point, queue, base, flags
<1>1. Numbers'
  BY DEF Numbers, Txs
<1>2. Controls'
  BY DEF Controls, Connected, Reasons, Handshake, Quiet
<1>3. Booleans'
  BY DEF Booleans
<1>4. Buffers'
  BY DEF Buffers, Numbers, Txs, Shape
<1>5. Ingress'
  BY DEF Ingress, Holds, Numbers, Taken, Tasks, NoItem, Buffers
<1>6. Queue'
  BY DEF Queue, Ingress, Buffers, Holds, Entries, Taken, Numbers, Tasks
<1>7. Rows'
  BY BlockedType DEF Rows, Numbers, Causes, Txs
<1>8. Limits'
  BY DEF Limits, Buffers, Ingress, Queue, Shape
<1>9. Shape'
  BY DEF Controls, Shape, Handshake, Quiet, Connected, Ingress
<1>10. Gates'
  BY DEF Controls, Gates, Shape, Handshake, Quiet, Connected
<1>11. AcceptedGapIsRecorded'
  BY DEF Rows, AcceptedGapIsRecorded, Causes
<1> QED
  BY <1>1, <1>2, <1>3, <1>4, <1>5, <1>6, <1>7, <1>8, <1>9, <1>10, <1>11 DEF Inv, Types

(* IngressOverflow keeps the first layer. *)
LEMMA IngressOverflowInv == ASSUME Inv, IngressOverflow PROVE Inv'
<1> USE StreamAssumption DEF Inv, Types, IngressOverflow, GateAfterCancel, Lose, NoDisp,
     socket, ingress, point, queue, base, flags
<1>1. Numbers'
  BY DEF Numbers, Txs
<1>2. Controls'
  BY DEF Controls, Connected, Reasons, Handshake, Quiet
<1>3. Booleans'
  BY DEF Booleans
<1>4. Buffers'
  BY DEF Buffers, Numbers, Txs, Shape
<1>5. Ingress'
  BY DEF Ingress, Holds, Numbers, Taken, Tasks, NoItem, Buffers
<1>6. Queue'
  BY DEF Queue, Ingress, Buffers, Holds, Entries, Taken, Numbers, Tasks
<1>7. Rows'
  BY BlockedType DEF Rows, Numbers, Causes, Txs
<1>8. Limits'
  BY DEF Limits, Buffers, Ingress, Queue, Shape
<1>9. Shape'
  BY DEF Controls, Shape, Handshake, Quiet, Connected, Ingress
<1>10. Gates'
  BY DEF Controls, Gates, Shape, Handshake, Quiet, Connected
<1>11. AcceptedGapIsRecorded'
  BY DEF Rows, AcceptedGapIsRecorded, Causes
<1> QED
  BY <1>1, <1>2, <1>3, <1>4, <1>5, <1>6, <1>7, <1>8, <1>9, <1>10, <1>11 DEF Inv, Types

(* Open keeps the first layer. *)
LEMMA OpenInv == ASSUME Inv, Open PROVE Inv'
<1> USE StreamAssumption DEF Inv, Types, Open, BeginBaseline, socket, ingress, point, queue,
     base, flags
<1>1. Numbers'
  BY DEF Numbers, Txs
<1>2. Controls'
  BY DEF Controls, Connected, Reasons, Handshake, Quiet
<1>3. Booleans'
  BY DEF Booleans
<1>4. Buffers'
  BY Widen DEF Buffers, Numbers, Txs, Shape
<1>5. Ingress'
  <2>1. wire \in Nat /\ wire' \in Nat /\ wire <= wire'
    BY DEF Numbers, Txs
  <2>2. /\ Seq(1..wire - 1) \subseteq Seq(1..wire' - 1) /\ Taken(wire) \subseteq Taken(wire')
        /\ Seq(Taken(wire)) \subseteq Seq(Taken(wire')) /\ Seq(Tasks(wire)) \subseteq Seq(Tasks(wire'))
    BY <2>1, Widen
  <2> QED
    BY <2>2 DEF Ingress, Holds
<1>6. Queue'
  BY Widen DEF Queue, Ingress, Buffers, Holds, Entries, Taken, Numbers, Tasks
<1>7. Rows'
  BY DEF Rows, Numbers, Causes, Txs
<1>8. Limits'
  BY DEF Limits, Buffers, Ingress, Queue, Shape
<1>9. Shape'
  BY DEF Controls, Shape, Handshake, Quiet, Connected, Ingress
<1>10. Gates'
  BY DEF Controls, Gates, Shape, Handshake, Quiet, Connected
<1>11. AcceptedGapIsRecorded'
  BY DEF Rows, AcceptedGapIsRecorded, Causes
<1> QED
  BY <1>1, <1>2, <1>3, <1>4, <1>5, <1>6, <1>7, <1>8, <1>9, <1>10, <1>11 DEF Inv, Types

(* Hold keeps the first layer. *)
LEMMA HoldInv == ASSUME Inv, Hold PROVE Inv'
<1> USE StreamAssumption DEF Inv, Types, Hold, socket, ingress, point, queue, base, flags
<1>1. Numbers'
  BY DEF Numbers, Txs
<1>2. Controls'
  BY DEF Controls, Connected, Reasons, Handshake, Quiet
<1>3. Booleans'
  BY DEF Booleans
<1>4. Buffers'
  BY DEF Buffers, Numbers, Txs, Shape
<1>5. Ingress'
  BY DEF Ingress, Holds, Numbers, Taken, Tasks, NoItem, Buffers
<1>6. Queue'
  BY DEF Queue, Ingress, Buffers, Holds, Entries, Taken, Numbers, Tasks
<1>7. Rows'
  BY DEF Rows, Numbers, Causes, Txs
<1>8. Limits'
  BY DEF Limits, Buffers, Ingress, Queue, Shape
<1>9. Shape'
  BY DEF Controls, Shape, Handshake, Quiet, Connected, Ingress
<1>10. Gates'
  BY DEF Controls, Gates, Shape, Handshake, Quiet, Connected
<1>11. AcceptedGapIsRecorded'
  BY DEF Rows, AcceptedGapIsRecorded, Causes
<1> QED
  BY <1>1, <1>2, <1>3, <1>4, <1>5, <1>6, <1>7, <1>8, <1>9, <1>10, <1>11 DEF Inv, Types

(* UseLogsFallback keeps the first layer. *)
LEMMA UseLogsFallbackInv == ASSUME Inv, UseLogsFallback PROVE Inv'
<1> USE StreamAssumption DEF Inv, Types, UseLogsFallback, Leave, CancelDispatch,
     GateAfterCancel, Lose, NoDisp, socket, ingress, point, queue, base, flags
<1>1. Numbers'
  BY DEF Numbers, Txs
<1>2. Controls'
  BY DEF Controls, Connected, Reasons, Handshake, Quiet
<1>3. Booleans'
  BY DEF Booleans
<1>4. Buffers'
  BY DEF Buffers, Numbers, Txs, Shape
<1>5. Ingress'
  BY DEF Ingress, Holds, Numbers, Taken, Tasks, NoItem, Buffers
<1>6. Queue'
  BY DEF Queue, Ingress, Buffers, Holds, Entries, Taken, Numbers, Tasks
<1>7. Rows'
  BY BlockedType DEF Rows, Numbers, Causes, Txs
<1>8. Limits'
  BY DEF Limits, Buffers, Ingress, Queue, Shape
<1>9. Shape'
  BY DEF Controls, Shape, Handshake, Quiet, Connected, Ingress
<1>10. Gates'
  BY DEF Controls, Gates, Shape, Handshake, Quiet, Connected
<1>11. AcceptedGapIsRecorded'
  BY DEF Rows, AcceptedGapIsRecorded, Causes
<1> QED
  BY <1>1, <1>2, <1>3, <1>4, <1>5, <1>6, <1>7, <1>8, <1>9, <1>10, <1>11 DEF Inv, Types

(* HandshakeOverflow keeps the first layer. *)
LEMMA HandshakeOverflowInv == ASSUME Inv, HandshakeOverflow PROVE Inv'
<1> USE StreamAssumption DEF Inv, Types, HandshakeOverflow, Leave, CancelDispatch,
     GateAfterCancel, Lose, NoDisp, socket, ingress, point, queue, base, flags
<1>1. Numbers'
  BY DEF Numbers, Txs
<1>2. Controls'
  BY DEF Controls, Connected, Reasons, Handshake, Quiet
<1>3. Booleans'
  BY DEF Booleans
<1>4. Buffers'
  BY DEF Buffers, Numbers, Txs, Shape
<1>5. Ingress'
  BY DEF Ingress, Holds, Numbers, Taken, Tasks, NoItem, Buffers
<1>6. Queue'
  BY DEF Queue, Ingress, Buffers, Holds, Entries, Taken, Numbers, Tasks
<1>7. Rows'
  BY BlockedType DEF Rows, Numbers, Causes, Txs
<1>8. Limits'
  BY DEF Limits, Buffers, Ingress, Queue, Shape
<1>9. Shape'
  BY DEF Controls, Shape, Handshake, Quiet, Connected, Ingress
<1>10. Gates'
  BY DEF Controls, Gates, Shape, Handshake, Quiet, Connected
<1>11. AcceptedGapIsRecorded'
  BY DEF Rows, AcceptedGapIsRecorded, Causes
<1> QED
  BY <1>1, <1>2, <1>3, <1>4, <1>5, <1>6, <1>7, <1>8, <1>9, <1>10, <1>11 DEF Inv, Types

(* SubscribedFresh keeps the first layer. *)
LEMMA SubscribedFreshInv == ASSUME Inv, SubscribedFresh PROVE Inv'
<1> USE StreamAssumption DEF Inv, Types, SubscribedFresh, Lose, socket, ingress, point,
     queue, base, flags
<1>1. Numbers'
  BY DEF Numbers, Txs
<1>2. Controls'
  BY DEF Controls, Connected, Reasons, Handshake, Quiet
<1>3. Booleans'
  BY DEF Booleans
<1>4. Buffers'
  BY DEF Buffers, Numbers, Txs, Shape
<1>5. Ingress'
  BY DEF Ingress, Holds, Numbers, Taken, Tasks, NoItem, Buffers
<1>6. Queue'
  BY DEF Queue, Ingress, Buffers, Holds, Entries, Taken, Numbers, Tasks
<1>7. Rows'
  BY BlockedType DEF Rows, Numbers, Causes, Txs
<1>8. Limits'
  BY DEF Limits, Buffers, Ingress, Queue, Shape
<1>9. Shape'
  BY DEF Controls, Shape, Handshake, Quiet, Connected, Ingress
<1>10. Gates'
  BY DEF Controls, Gates, Shape, Handshake, Quiet, Connected
<1>11. AcceptedGapIsRecorded'
  BY DEF Rows, AcceptedGapIsRecorded, Causes
<1> QED
  BY <1>1, <1>2, <1>3, <1>4, <1>5, <1>6, <1>7, <1>8, <1>9, <1>10, <1>11 DEF Inv, Types

(* AcceptGap keeps the first layer. *)
LEMMA AcceptGapInv == ASSUME Inv, AcceptGap PROVE Inv'
<1> USE StreamAssumption DEF Inv, Types, AcceptGap, BeginBaseline, Lose, socket, ingress,
     point, queue, base, flags
<1>1. Numbers'
  BY DEF Numbers, Txs
<1>2. Controls'
  BY DEF Controls, Connected, Reasons, Handshake, Quiet
<1>3. Booleans'
  BY DEF Booleans
<1>4. Buffers'
  BY DEF Buffers, Numbers, Txs, Shape
<1>5. Ingress'
  BY DEF Ingress, Holds, Numbers, Taken, Tasks, NoItem, Buffers
<1>6. Queue'
  BY DEF Queue, Ingress, Buffers, Holds, Entries, Taken, Numbers, Tasks
<1>7. Rows'
  BY BlockedType DEF Rows, Numbers, Causes, Txs
<1>8. Limits'
  BY DEF Limits, Buffers, Ingress, Queue, Shape
<1>9. Shape'
  BY DEF Controls, Shape, Handshake, Quiet, Connected, Ingress
<1>10. Gates'
  BY DEF Controls, Gates, Shape, Handshake, Quiet, Connected
<1>11. AcceptedGapIsRecorded'
  BY DEF Rows, AcceptedGapIsRecorded, Causes
<1> QED
  BY <1>1, <1>2, <1>3, <1>4, <1>5, <1>6, <1>7, <1>8, <1>9, <1>10, <1>11 DEF Inv, Types

(* SubscribedRecent keeps the first layer. *)
LEMMA SubscribedRecentInv == ASSUME Inv, SubscribedRecent PROVE Inv'
<1> USE StreamAssumption DEF Inv, Types, SubscribedRecent, socket, ingress, point, queue,
     base, flags
<1>1. Numbers'
  BY DEF Numbers, Txs
<1>2. Controls'
  BY DEF Controls, Connected, Reasons, Handshake, Quiet
<1>3. Booleans'
  BY DEF Booleans
<1>4. Buffers'
  BY DEF Buffers, Numbers, Txs, Shape
<1>5. Ingress'
  BY DEF Ingress, Holds, Numbers, Taken, Tasks, NoItem, Buffers
<1>6. Queue'
  BY DEF Queue, Ingress, Buffers, Holds, Entries, Taken, Numbers, Tasks
<1>7. Rows'
  BY DEF Rows, Numbers, Causes, Txs
<1>8. Limits'
  BY DEF Limits, Buffers, Ingress, Queue, Shape
<1>9. Shape'
  BY DEF Controls, Shape, Handshake, Quiet, Connected, Ingress
<1>10. Gates'
  BY DEF Controls, Gates, Shape, Handshake, Quiet, Connected
<1>11. AcceptedGapIsRecorded'
  BY DEF Rows, AcceptedGapIsRecorded, Causes
<1> QED
  BY <1>1, <1>2, <1>3, <1>4, <1>5, <1>6, <1>7, <1>8, <1>9, <1>10, <1>11 DEF Inv, Types

(* RecoverGap keeps the first layer. *)
LEMMA RecoverGapInv == ASSUME Inv, RecoverGap PROVE Inv'
<1> USE StreamAssumption DEF Inv, Types, RecoverGap, Lose, Fault, socket, ingress, point,
     queue, base, flags
<1>1. Numbers'
  BY DEF Numbers, Txs
<1>2. Controls'
  BY DEF Controls, Connected, Reasons, Handshake, Quiet
<1>3. Booleans'
  BY DEF Booleans
<1>4. Buffers'
  <2>1. buf' \in Seq(1..wire' - 1) /\ live' \in Seq(1..wire' - 1)
    BY DEF Buffers
  <2>2. CASE rec' = [k \in 1..chain - cp |-> cp + k]
    BY <2>1, <2>2 DEF Buffers, Numbers, Txs
  <2>3. CASE \E skipped \in cp + 1..chain :
              rec' = [k \in 1..chain - cp - 1 |-> IF cp + k < skipped THEN cp + k ELSE cp + k + 1]
    <3>1. PICK skipped \in cp + 1..chain :
              rec' = [k \in 1..chain - cp - 1 |-> IF cp + k < skipped THEN cp + k ELSE cp + k + 1]
      BY <2>3
    <3>2. chain - cp - 1 \in Nat /\ chain \in Nat /\ cp \in Nat
      BY DEF Numbers, Txs
    <3>3. rec' \in [1..chain - cp - 1 -> 1..chain]
      BY <3>1, <3>2
    <3>4. rec' \in Seq(1..chain)
      BY <3>2, <3>3, FunctionIsSeq
    <3> QED
      BY <2>1, <3>4 DEF Buffers
  <2> QED
    BY <2>2, <2>3
<1>5. Ingress'
  BY DEF Ingress, Holds, Numbers, Taken, Tasks, NoItem, Buffers
<1>6. Queue'
  BY DEF Queue, Ingress, Buffers, Holds, Entries, Taken, Numbers, Tasks
<1>7. Rows'
  BY BlockedType DEF Rows, Numbers, Causes, Txs
<1>8. Limits'
  BY DEF Limits, Buffers, Ingress, Queue, Shape
<1>9. Shape'
  BY DEF Controls, Shape, Handshake, Quiet, Connected, Ingress
<1>10. Gates'
  BY DEF Controls, Gates, Shape, Handshake, Quiet, Connected
<1>11. AcceptedGapIsRecorded'
  BY DEF Rows, AcceptedGapIsRecorded, Causes
<1> QED
  BY <1>1, <1>2, <1>3, <1>4, <1>5, <1>6, <1>7, <1>8, <1>9, <1>10, <1>11 DEF Inv, Types

(* GapTimeout keeps the first layer. *)
LEMMA GapTimeoutInv == ASSUME Inv, GapTimeout PROVE Inv'
<1> USE StreamAssumption DEF Inv, Types, GapTimeout, CancelDispatch, GateAfterCancel, Lose,
     Fault, NoDisp, socket, ingress, point, queue, base, flags
<1>1. Numbers'
  BY DEF Numbers
<1>2. Controls'
  BY DEF Controls, Connected, Reasons, Handshake, Quiet
<1>3. Booleans'
  BY DEF Booleans
<1>4. Buffers'
  BY DEF Buffers, Numbers, Txs, Shape
<1>5. Ingress'
  BY DEF Ingress, Holds, Numbers, Taken, Tasks, NoItem, Buffers
<1>6. Queue'
  BY DEF Queue, Ingress, Buffers, Holds, Entries, Taken, Numbers, Tasks
<1>7. Rows'
  BY BlockedType DEF Rows, Numbers, Causes, Txs
<1>8. Limits'
  BY DEF Limits, Buffers, Ingress, Queue, Shape
<1>9. Shape'
  BY DEF Controls, Shape, Handshake, Quiet, Connected, Ingress
<1>10. Gates'
  BY DEF Controls, Gates, Shape, Handshake, Quiet, Connected
<1>11. AcceptedGapIsRecorded'
  BY DEF Rows, AcceptedGapIsRecorded, Causes
<1> QED
  BY <1>1, <1>2, <1>3, <1>4, <1>5, <1>6, <1>7, <1>8, <1>9, <1>10, <1>11 DEF Inv, Types

(* CommitRecovered keeps the first layer. *)
LEMMA CommitRecoveredInv == ASSUME Inv, CommitRecovered PROVE Inv'
<1> USE StreamAssumption DEF Inv, Types, CommitRecovered, Room, socket, ingress, point,
     queue, base, flags
<1>1. Numbers'
  <2>1. Head(rec) \in 1..chain
    BY HeadTail DEF Buffers
  <2>2. Head(rec) \in 0..chain
    BY <2>1
  <2> QED
    BY <2>2 DEF Numbers
<1>2. Controls'
  BY DEF Controls, Connected, Reasons, Handshake, Quiet
<1>3. Booleans'
  BY DEF Booleans
<1>4. Buffers'
  BY DEF Buffers, Numbers, Txs, Shape
<1>5. Ingress'
  BY DEF Ingress, Holds, Numbers, Taken, Tasks, NoItem, Buffers
<1>6. Queue'
  <2>1. Head(rec) \in 1..chain
    BY HeadTail DEF Buffers
  <2>2. [t |-> Head(rec), src |-> "recovery", g |-> gen] \in Entries(chain)
    BY <2>1 DEF Entries, Numbers
  <2> QED
    BY <2>2 DEF Queue
<1>7. Rows'
  BY DEF Rows, Numbers, Causes, Txs
<1>8. Limits'
  BY DEF Limits, Buffers, Ingress, Queue, Shape
<1>9. Shape'
  BY DEF Controls, Shape, Handshake, Quiet, Connected, Ingress
<1>10. Gates'
  BY DEF Controls, Gates, Shape, Handshake, Quiet, Connected
<1>11. AcceptedGapIsRecorded'
  BY DEF Rows, AcceptedGapIsRecorded, Causes
<1> QED
  BY <1>1, <1>2, <1>3, <1>4, <1>5, <1>6, <1>7, <1>8, <1>9, <1>10, <1>11 DEF Inv, Types

(* GapRecovered keeps the first layer. *)
LEMMA GapRecoveredInv == ASSUME Inv, GapRecovered PROVE Inv'
<1> USE StreamAssumption DEF Inv, Types, GapRecovered, socket, ingress, point, queue, base,
     flags
<1>1. Numbers'
  BY DEF Numbers, Txs
<1>2. Controls'
  BY DEF Controls, Connected, Reasons, Handshake, Quiet
<1>3. Booleans'
  BY DEF Booleans
<1>4. Buffers'
  BY DEF Buffers, Numbers, Txs, Shape
<1>5. Ingress'
  BY DEF Ingress, Holds, Numbers, Taken, Tasks, NoItem, Buffers
<1>6. Queue'
  BY DEF Queue, Ingress, Buffers, Holds, Entries, Taken, Numbers, Tasks
<1>7. Rows'
  BY DEF Rows, Numbers, Causes, Txs
<1>8. Limits'
  BY DEF Limits, Buffers, Ingress, Queue, Shape
<1>9. Shape'
  BY DEF Controls, Shape, Handshake, Quiet, Connected, Ingress
<1>10. Gates'
  BY DEF Controls, Gates, Shape, Handshake, Quiet, Connected
<1>11. AcceptedGapIsRecorded'
  BY DEF Rows, AcceptedGapIsRecorded, Causes
<1> QED
  BY <1>1, <1>2, <1>3, <1>4, <1>5, <1>6, <1>7, <1>8, <1>9, <1>10, <1>11 DEF Inv, Types

(* GapRowFails keeps the first layer. *)
LEMMA GapRowFailsInv == ASSUME Inv, GapRowFails PROVE Inv'
<1> USE StreamAssumption DEF Inv, Types, GapRowFails, CancelDispatch, GateAfterCancel, Lose,
     Fault, NoDisp, socket, ingress, point, queue, base, flags
<1>1. Numbers'
  BY DEF Numbers, Txs
<1>2. Controls'
  BY DEF Controls, Connected, Reasons, Handshake, Quiet
<1>3. Booleans'
  BY DEF Booleans
<1>4. Buffers'
  BY DEF Buffers, Numbers, Txs, Shape
<1>5. Ingress'
  BY DEF Ingress, Holds, Numbers, Taken, Tasks, NoItem, Buffers
<1>6. Queue'
  BY DEF Queue, Ingress, Buffers, Holds, Entries, Taken, Numbers, Tasks
<1>7. Rows'
  BY BlockedType DEF Rows, Numbers, Causes, Txs
<1>8. Limits'
  BY DEF Limits, Buffers, Ingress, Queue, Shape
<1>9. Shape'
  BY DEF Controls, Shape, Handshake, Quiet, Connected, Ingress
<1>10. Gates'
  BY DEF Controls, Gates, Shape, Handshake, Quiet, Connected
<1>11. AcceptedGapIsRecorded'
  BY DEF Rows, AcceptedGapIsRecorded, Causes
<1> QED
  BY <1>1, <1>2, <1>3, <1>4, <1>5, <1>6, <1>7, <1>8, <1>9, <1>10, <1>11 DEF Inv, Types

(* Replay keeps the first layer. *)
LEMMA ReplayInv == ASSUME Inv, Replay PROVE Inv'
<1> USE StreamAssumption DEF Inv, Types, Replay, EnqueueNotification, Stamp, Running,
     socket, ingress, point, queue, base, flags
<1>1. Numbers'
  BY DEF Numbers, Txs
<1>2. Controls'
  BY DEF Controls, Connected, Reasons, Handshake, Quiet
<1>3. Booleans'
  BY DEF Booleans
<1>4. Buffers'
  BY DEF Buffers, Numbers, Txs, Shape
<1>5. Ingress'
  BY DEF Ingress, Holds, Numbers, Taken, Tasks, NoItem, Buffers
<1>6. Queue'
  BY DEF Queue, Ingress, Buffers, Holds, Entries, Taken, Numbers, Tasks
<1>7. Rows'
  BY DEF Rows, Numbers, Causes, Txs
<1>8. Limits'
  BY DEF Limits, Buffers, Ingress, Queue, Shape
<1>9. Shape'
  BY DEF Controls, Shape, Handshake, Quiet, Connected, Ingress
<1>10. Gates'
  BY DEF Controls, Gates, Shape, Handshake, Quiet, Connected
<1>11. AcceptedGapIsRecorded'
  BY DEF Rows, AcceptedGapIsRecorded, Causes
<1> QED
  BY <1>1, <1>2, <1>3, <1>4, <1>5, <1>6, <1>7, <1>8, <1>9, <1>10, <1>11 DEF Inv, Types

(* GoLive keeps the first layer. *)
LEMMA GoLiveInv == ASSUME Inv, GoLive PROVE Inv'
<1> USE StreamAssumption DEF Inv, Types, GoLive, socket, ingress, point, queue, base, flags
<1>1. Numbers'
  BY DEF Numbers, Txs
<1>2. Controls'
  BY DEF Controls, Connected, Reasons, Handshake, Quiet
<1>3. Booleans'
  BY DEF Booleans
<1>4. Buffers'
  BY DEF Buffers, Numbers, Txs, Shape
<1>5. Ingress'
  BY DEF Ingress, Holds, Numbers, Taken, Tasks, NoItem, Buffers
<1>6. Queue'
  BY DEF Queue, Ingress, Buffers, Holds, Entries, Taken, Numbers, Tasks
<1>7. Rows'
  BY DEF Rows, Numbers, Causes, Txs
<1>8. Limits'
  BY DEF Limits, Buffers, Ingress, Queue, Shape
<1>9. Shape'
  BY DEF Controls, Shape, Handshake, Quiet, Connected, Ingress
<1>10. Gates'
  BY DEF Controls, Gates, Shape, Handshake, Quiet, Connected
<1>11. AcceptedGapIsRecorded'
  BY DEF Rows, AcceptedGapIsRecorded, Causes
<1> QED
  BY <1>1, <1>2, <1>3, <1>4, <1>5, <1>6, <1>7, <1>8, <1>9, <1>10, <1>11 DEF Inv, Types

(* DispatchTake keeps the first layer. *)
LEMMA DispatchTakeInv == ASSUME Inv, DispatchTake PROVE Inv'
<1> USE StreamAssumption DEF Inv, Types, DispatchTake, BaselineAfter, socket, ingress,
     point, queue, base, flags
<1>1. Numbers'
  <2>1. Head(notif) \in Taken(wire)
    BY DEF Ingress
  <2>2. Head(notif).t \in 0..chain
    BY <2>1, TakenTime
  <2> QED
    BY <2>2 DEF Numbers
<1>2. Controls'
  BY DEF Controls, Connected, Reasons, Handshake, Quiet
<1>3. Booleans'
  BY DEF Booleans
<1>4. Buffers'
  BY DEF Buffers, Numbers, Txs, Shape
<1>5. Ingress'
  <2>1. Head(notif) \in Taken(wire) /\ Tail(notif) \in Seq(Taken(wire))
    BY DEF Ingress
  <2>2. disp' = [st |-> "permit", item |-> Head(notif)] \/ disp' = [st |-> "put", item |-> Head(notif)]
    OBVIOUS
  <2> QED
    BY <2>1, <2>2 DEF Ingress, Holds
<1>6. Queue'
  BY DEF Queue, Ingress, Buffers, Holds, Entries, Taken, Numbers, Tasks
<1>7. Rows'
  BY DEF Rows, Numbers, Causes, Txs
<1>8. Limits'
  BY DEF Limits, Buffers, Ingress, Queue, Shape
<1>9. Shape'
  BY DEF Controls, Shape, Handshake, Quiet, Connected, Ingress
<1>10. Gates'
  BY DEF Controls, Gates, Shape, Handshake, Quiet, Connected
<1>11. AcceptedGapIsRecorded'
  BY DEF Rows, AcceptedGapIsRecorded, Causes
<1> QED
  BY <1>1, <1>2, <1>3, <1>4, <1>5, <1>6, <1>7, <1>8, <1>9, <1>10, <1>11 DEF Inv, Types

(* DispatchPut keeps the first layer. *)
LEMMA DispatchPutInv == ASSUME Inv, DispatchPut PROVE Inv'
<1> USE StreamAssumption DEF Inv, Types, DispatchPut, Room, Entry, SourceOf, Running,
     socket, ingress, point, queue, base, flags
<1>1. Numbers'
  BY DEF Numbers, Txs
<1>2. Controls'
  BY DEF Controls, Connected, Reasons, Handshake, Quiet
<1>3. Booleans'
  BY DEF Booleans
<1>4. Buffers'
  BY DEF Buffers, Numbers, Txs, Shape
<1>5. Ingress'
  BY DEF Ingress, Holds, Numbers, Taken, Tasks, NoItem, Buffers
<1>6. Queue'
  <2>1. disp.item \in Taken(wire)
    BY DEF Ingress, Holds
  <2>2. Entry(disp.item, baseline) \in Entries(chain)
    BY <2>1 DEF Entries, Taken, Numbers, Txs
  <2> QED
    BY <2>2 DEF Queue
<1>7. Rows'
  BY DEF Rows, Numbers, Causes, Txs
<1>8. Limits'
  BY DEF Limits, Buffers, Ingress, Queue, Shape
<1>9. Shape'
  BY DEF Controls, Shape, Handshake, Quiet, Connected, Ingress
<1>10. Gates'
  BY DEF Controls, Gates, Shape, Handshake, Quiet, Connected
<1>11. AcceptedGapIsRecorded'
  BY DEF Rows, AcceptedGapIsRecorded, Causes
<1> QED
  BY <1>1, <1>2, <1>3, <1>4, <1>5, <1>6, <1>7, <1>8, <1>9, <1>10, <1>11 DEF Inv, Types

(* DispatchSpawn keeps the first layer. *)
LEMMA DispatchSpawnInv == ASSUME Inv, DispatchSpawn PROVE Inv'
<1> USE StreamAssumption DEF Inv, Types, DispatchSpawn, Running, socket, ingress, point,
     queue, base, flags
<1>1. Numbers'
  BY DEF Numbers, Txs
<1>2. Controls'
  BY DEF Controls, Connected, Reasons, Handshake, Quiet
<1>3. Booleans'
  BY DEF Booleans
<1>4. Buffers'
  BY DEF Buffers, Numbers, Txs, Shape
<1>5. Ingress'
  BY DEF Ingress, Holds, Numbers, Taken, Tasks, NoItem, Buffers
<1>6. Queue'
  BY DEF Queue, Ingress, Buffers, Holds, Entries, Taken, Numbers, Tasks
<1>7. Rows'
  BY DEF Rows, Numbers, Causes, Txs
<1>8. Limits'
  BY DEF Limits, Buffers, Ingress, Queue, Shape
<1>9. Shape'
  BY DEF Controls, Shape, Handshake, Quiet, Connected, Ingress
<1>10. Gates'
  BY DEF Controls, Gates, Shape, Handshake, Quiet, Connected
<1>11. AcceptedGapIsRecorded'
  BY DEF Rows, AcceptedGapIsRecorded, Causes
<1> QED
  BY <1>1, <1>2, <1>3, <1>4, <1>5, <1>6, <1>7, <1>8, <1>9, <1>10, <1>11 DEF Inv, Types

(* DispatchRefused keeps the first layer. *)
LEMMA DispatchRefusedInv == ASSUME Inv, DispatchRefused PROVE Inv'
<1> USE StreamAssumption DEF Inv, Types, DispatchRefused, NoDisp, socket, ingress, point,
     queue, base, flags
<1>1. Numbers'
  BY DEF Numbers, Txs
<1>2. Controls'
  BY DEF Controls, Connected, Reasons, Handshake, Quiet
<1>3. Booleans'
  BY DEF Booleans
<1>4. Buffers'
  BY DEF Buffers, Numbers, Txs, Shape
<1>5. Ingress'
  BY DEF Ingress, Holds, Numbers, Taken, Tasks, NoItem, Buffers
<1>6. Queue'
  BY DEF Queue, Ingress, Buffers, Holds, Entries, Taken, Numbers, Tasks
<1>7. Rows'
  BY DEF Rows, Numbers, Causes, Txs
<1>8. Limits'
  BY DEF Limits, Buffers, Ingress, Queue, Shape
<1>9. Shape'
  BY DEF Controls, Shape, Handshake, Quiet, Connected, Ingress
<1>10. Gates'
  BY DEF Controls, Gates, Shape, Handshake, Quiet, Connected
<1>11. AcceptedGapIsRecorded'
  BY DEF Rows, AcceptedGapIsRecorded, Causes
<1> QED
  BY <1>1, <1>2, <1>3, <1>4, <1>5, <1>6, <1>7, <1>8, <1>9, <1>10, <1>11 DEF Inv, Types

(* FetchOk keeps the first layer. *)
LEMMA FetchOkInv == ASSUME Inv, NEW i \in 1..MaxTasks, FetchOk(i) PROVE Inv'
<1> USE StreamAssumption DEF Inv, Types, FetchOk, socket, ingress, point, queue, base, flags
<1>1. Numbers'
  BY DEF Numbers, Txs
<1>2. Controls'
  BY DEF Controls, Connected, Reasons, Handshake, Quiet
<1>3. Booleans'
  BY DEF Booleans
<1>4. Buffers'
  BY DEF Buffers, Numbers, Txs, Shape
<1>5. Ingress'
  <2>1. i \in 1..Len(tasks) /\ tasks[i] \in Tasks(wire)
    BY DEF Ingress
  <2>2. [tasks[i] EXCEPT !.st = "ready"] \in Tasks(wire)
    BY <2>1 DEF Tasks
  <2>3. tasks' = [tasks EXCEPT ![i] = [tasks[i] EXCEPT !.st = "ready"]]
    BY <2>1
  <2>4. tasks' \in Seq(Tasks(wire))
    BY <2>2, <2>3 DEF Ingress
  <2> QED
    BY <2>4 DEF Ingress, Holds
<1>6. Queue'
  BY DEF Queue, Ingress, Buffers, Holds, Entries, Taken, Numbers, Tasks
<1>7. Rows'
  BY DEF Rows, Numbers, Causes, Txs
<1>8. Limits'
  BY DEF Limits, Buffers, Ingress, Queue, Shape
<1>9. Shape'
  BY DEF Controls, Shape, Handshake, Quiet, Connected, Ingress
<1>10. Gates'
  BY DEF Controls, Gates, Shape, Handshake, Quiet, Connected
<1>11. AcceptedGapIsRecorded'
  BY DEF Rows, AcceptedGapIsRecorded, Causes
<1> QED
  BY <1>1, <1>2, <1>3, <1>4, <1>5, <1>6, <1>7, <1>8, <1>9, <1>10, <1>11 DEF Inv, Types

(* FetchFails keeps the first layer. *)
LEMMA FetchFailsInv == ASSUME Inv, NEW i \in 1..MaxTasks, FetchFails(i) PROVE Inv'
<1> USE StreamAssumption DEF Inv, Types, FetchFails, Fault, socket, ingress, point, queue,
     base, flags
<1>1. Numbers'
  BY DEF Numbers, Txs
<1>2. Controls'
  BY DEF Controls, Connected, Reasons, Handshake, Quiet
<1>3. Booleans'
  BY DEF Booleans
<1>4. Buffers'
  BY DEF Buffers, Numbers, Txs, Shape
<1>5. Ingress'
  <2>1. tasks' \in Seq(Tasks(wire))
    BY DEF Ingress
  <2> QED
    BY <2>1 DEF Ingress, Holds
<1>6. Queue'
  BY DEF Queue, Ingress, Buffers, Holds, Entries, Taken, Numbers, Tasks
<1>7. Rows'
  BY DEF Rows, Numbers, Causes, Txs
<1>8. Limits'
  BY DEF Limits, Buffers, Ingress, Queue, Shape
<1>9. Shape'
  BY DEF Controls, Shape, Handshake, Quiet, Connected, Ingress
<1>10. Gates'
  BY DEF Controls, Gates, Shape, Handshake, Quiet, Connected
<1>11. AcceptedGapIsRecorded'
  BY DEF Rows, AcceptedGapIsRecorded, Causes
<1> QED
  BY <1>1, <1>2, <1>3, <1>4, <1>5, <1>6, <1>7, <1>8, <1>9, <1>10, <1>11 DEF Inv, Types

(* TaskObserve keeps the first layer. *)
LEMMA TaskObserveInv == ASSUME Inv, NEW i \in 1..MaxTasks, TaskObserve(i) PROVE Inv'
<1> USE StreamAssumption DEF Inv, Types, TaskObserve, MayDispatch, Observe, BaselineAfter,
     socket, ingress, point, queue, base, flags
<1>1. Numbers'
  <2>1. i \in 1..Len(tasks)
    BY DEF Ingress
  <2>2. tasks[i].item \in Taken(wire)
    BY <2>1, Elements
  <2>3. tasks[i].item.t \in 0..chain
    BY <2>2, TakenTime
  <2> QED
    BY <2>3 DEF Numbers
<1>2. Controls'
  BY DEF Controls, Connected, Reasons, Handshake, Quiet
<1>3. Booleans'
  BY DEF Booleans
<1>4. Buffers'
  BY DEF Buffers, Numbers, Txs, Shape
<1>5. Ingress'
  <2>1. i \in 1..Len(tasks) /\ tasks[i] \in Tasks(wire)
    BY DEF Ingress
  <2>2. [tasks[i] EXCEPT !.st = "put"] \in Tasks(wire)
    BY <2>1 DEF Tasks
  <2>3. tasks' = [tasks EXCEPT ![i] = [tasks[i] EXCEPT !.st = "put"]]
    BY <2>1
  <2>4. tasks' \in Seq(Tasks(wire))
    BY <2>2, <2>3 DEF Ingress
  <2> QED
    BY <2>4 DEF Ingress, Holds
<1>6. Queue'
  BY DEF Queue, Ingress, Buffers, Holds, Entries, Taken, Numbers, Tasks
<1>7. Rows'
  BY DEF Rows, Numbers, Causes, Txs
<1>8. Limits'
  BY DEF Limits, Buffers, Ingress, Queue, Shape
<1>9. Shape'
  BY DEF Controls, Shape, Handshake, Quiet, Connected, Ingress
<1>10. Gates'
  BY DEF Controls, Gates, Shape, Handshake, Quiet, Connected
<1>11. AcceptedGapIsRecorded'
  BY DEF Rows, AcceptedGapIsRecorded, Causes
<1> QED
  BY <1>1, <1>2, <1>3, <1>4, <1>5, <1>6, <1>7, <1>8, <1>9, <1>10, <1>11 DEF Inv, Types

(* TaskPut keeps the first layer. *)
LEMMA TaskPutInv == ASSUME Inv, NEW i \in 1..MaxTasks, TaskPut(i) PROVE Inv'
<1> USE StreamAssumption DEF Inv, Types, TaskPut, Room, Entry, SourceOf, socket, ingress,
     point, queue, base, flags
<1>a. i = 1 /\ tasks # <<>> /\ tasks' = Tail(tasks)
  BY RemoveHead DEF Ingress, Shape
<1>b. tasks[1].item \in Taken(wire)
  BY <1>a, Elements DEF Ingress
<1>c. /\ Tail(tasks) \in Seq(Tasks(wire))
      /\ Len(Tail(tasks)) = Len(tasks) - 1 /\ Len(tasks) \in Nat \ {0}
      /\ \A j \in 1..Len(Tail(tasks)) : Tail(tasks)[j] = tasks[j + 1]
  <2> HIDE DEF TaskPut, Inv, Types
  <2>1. tasks \in Seq(Tasks(wire))
    BY DEF Inv, Types, Ingress
  <2> QED
    BY <1>a, <2>1, HeadTail
<1>1. Numbers'
  BY DEF Numbers, Txs
<1>2. Controls'
  BY DEF Controls, Connected, Reasons, Handshake, Quiet
<1>3. Booleans'
  BY DEF Booleans
<1>4. Buffers'
  BY DEF Buffers, Numbers, Txs, Shape
<1>5. Ingress'
  <2>1. tasks' \in Seq(Tasks(wire))
    BY <1>a, <1>c
  <2> QED
    BY <2>1 DEF Ingress, Holds
<1>6. Queue'
  <2>1. Entry(tasks[1].item, baseline) \in Entries(chain)
    BY <1>b DEF Entries, Taken, Numbers, Txs
  <2> QED
    BY <1>a, <2>1 DEF Queue
<1>7. Rows'
  BY DEF Rows, Numbers, Causes, Txs
<1>8. Limits'
  <2>1. Len(tasks') <= Len(tasks)
    BY <1>a DEF Ingress
  <2>2. Len(log') = Len(log) + 1
    BY DEF Queue
  <2> QED
    BY <2>1, <2>2 DEF Limits, Ingress, Queue
<1>9. Shape'
  <2>1. /\ Len(tasks') = Len(tasks) - 1 /\ Len(tasks) \in Nat \ {0}
        /\ \A j \in 1..Len(tasks') : tasks'[j] = tasks[j + 1]
    BY <1>a, <1>c
  <2>2. \A j \in 1..Len(tasks') : tasks'[j].st # "put"
    BY <2>1 DEF Shape
  <2> QED
    BY <1>a, <2>2 DEF Shape
<1>10. Gates'
  BY DEF Controls, Gates, Shape, Handshake, Quiet, Connected
<1>11. AcceptedGapIsRecorded'
  BY DEF Rows, AcceptedGapIsRecorded, Causes
<1> QED
  BY <1>1, <1>2, <1>3, <1>4, <1>5, <1>6, <1>7, <1>8, <1>9, <1>10, <1>11 DEF Inv, Types

(* WorkerHandle keeps the first layer. *)
LEMMA WorkerHandleInv == ASSUME Inv, WorkerHandle PROVE Inv'
<1> USE StreamAssumption DEF Inv, Types, WorkerHandle, socket, ingress, point, queue, base,
     flags
<1>1. Numbers'
  BY DEF Numbers, Txs
<1>2. Controls'
  BY DEF Controls, Connected, Reasons, Handshake, Quiet
<1>3. Booleans'
  BY DEF Booleans
<1>4. Buffers'
  BY DEF Buffers, Numbers, Txs, Shape
<1>5. Ingress'
  BY DEF Ingress, Holds, Numbers, Taken, Tasks, NoItem, Buffers
<1>6. Queue'
  BY DEF Queue, Ingress, Buffers, Holds, Entries, Taken, Numbers, Tasks
<1>7. Rows'
  BY DEF Rows, Numbers, Causes, Txs
<1>8. Limits'
  BY DEF Limits, Buffers, Ingress, Queue, Shape
<1>9. Shape'
  BY DEF Controls, Shape, Handshake, Quiet, Connected, Ingress
<1>10. Gates'
  BY DEF Controls, Gates, Shape, Handshake, Quiet, Connected
<1>11. AcceptedGapIsRecorded'
  BY DEF Rows, AcceptedGapIsRecorded, Causes
<1> QED
  BY <1>1, <1>2, <1>3, <1>4, <1>5, <1>6, <1>7, <1>8, <1>9, <1>10, <1>11 DEF Inv, Types

(* WorkerFails keeps the first layer. *)
LEMMA WorkerFailsInv == ASSUME Inv, WorkerFails PROVE Inv'
<1> USE StreamAssumption DEF Inv, Types, WorkerFails, Fault, socket, ingress, point, queue,
     base, flags
<1>1. Numbers'
  BY DEF Numbers, Txs
<1>2. Controls'
  BY DEF Controls, Connected, Reasons, Handshake, Quiet
<1>3. Booleans'
  BY DEF Booleans
<1>4. Buffers'
  BY DEF Buffers, Numbers, Txs, Shape
<1>5. Ingress'
  BY DEF Ingress, Holds, Numbers, Taken, Tasks, NoItem, Buffers
<1>6. Queue'
  BY DEF Queue, Ingress, Buffers, Holds, Entries, Taken, Numbers, Tasks
<1>7. Rows'
  BY DEF Rows, Numbers, Causes, Txs
<1>8. Limits'
  BY DEF Limits, Buffers, Ingress, Queue, Shape
<1>9. Shape'
  BY DEF Controls, Shape, Handshake, Quiet, Connected, Ingress
<1>10. Gates'
  BY DEF Controls, Gates, Shape, Handshake, Quiet, Connected
<1>11. AcceptedGapIsRecorded'
  BY DEF Rows, AcceptedGapIsRecorded, Causes
<1> QED
  BY <1>1, <1>2, <1>3, <1>4, <1>5, <1>6, <1>7, <1>8, <1>9, <1>10, <1>11 DEF Inv, Types

(* RefreshFreshness keeps the first layer. *)
LEMMA RefreshFreshnessInv == ASSUME Inv, RefreshFreshness PROVE Inv'
<1> USE StreamAssumption DEF Inv, Types, RefreshFreshness, MayForgetRecovery, socket,
     ingress, point, queue, base, flags
<1>1. Numbers'
  BY DEF Numbers, Txs
<1>2. Controls'
  BY DEF Controls, Connected, Reasons, Handshake, Quiet
<1>3. Booleans'
  BY DEF Booleans
<1>4. Buffers'
  BY DEF Buffers, Numbers, Txs, Shape
<1>5. Ingress'
  BY DEF Ingress, Holds, Numbers, Taken, Tasks, NoItem, Buffers
<1>6. Queue'
  BY DEF Queue, Ingress, Buffers, Holds, Entries, Taken, Numbers, Tasks
<1>7. Rows'
  BY DEF Rows, Numbers, Causes, Txs
<1>8. Limits'
  BY DEF Limits, Buffers, Ingress, Queue, Shape
<1>9. Shape'
  BY DEF Controls, Shape, Handshake, Quiet, Connected, Ingress
<1>10. Gates'
  BY DEF Controls, Gates, Shape, Handshake, Quiet, Connected
<1>11. AcceptedGapIsRecorded'
  BY DEF Rows, AcceptedGapIsRecorded, Causes
<1> QED
  BY <1>1, <1>2, <1>3, <1>4, <1>5, <1>6, <1>7, <1>8, <1>9, <1>10, <1>11 DEF Inv, Types

(* WarmupElapses keeps the first layer. *)
LEMMA WarmupElapsesInv == ASSUME Inv, WarmupElapses PROVE Inv'
<1> USE StreamAssumption DEF Inv, Types, WarmupElapses, socket, ingress, point, queue, base,
     flags
<1>1. Numbers'
  BY DEF Numbers, Txs
<1>2. Controls'
  BY DEF Controls, Connected, Reasons, Handshake, Quiet
<1>3. Booleans'
  BY DEF Booleans
<1>4. Buffers'
  BY DEF Buffers, Numbers, Txs, Shape
<1>5. Ingress'
  BY DEF Ingress, Holds, Numbers, Taken, Tasks, NoItem, Buffers
<1>6. Queue'
  BY DEF Queue, Ingress, Buffers, Holds, Entries, Taken, Numbers, Tasks
<1>7. Rows'
  BY DEF Rows, Numbers, Causes, Txs
<1>8. Limits'
  BY DEF Limits, Buffers, Ingress, Queue, Shape
<1>9. Shape'
  BY DEF Controls, Shape, Handshake, Quiet, Connected, Ingress
<1>10. Gates'
  BY DEF Controls, Gates, Shape, Handshake, Quiet, Connected
<1>11. AcceptedGapIsRecorded'
  BY DEF Rows, AcceptedGapIsRecorded, Causes
<1> QED
  BY <1>1, <1>2, <1>3, <1>4, <1>5, <1>6, <1>7, <1>8, <1>9, <1>10, <1>11 DEF Inv, Types

(* Age keeps the first layer. *)
LEMMA AgeInv == ASSUME Inv, Age PROVE Inv'
<1> USE StreamAssumption DEF Inv, Types, Age, Fault, socket, ingress, point, queue, base,
     flags
<1>1. Numbers'
  BY DEF Numbers, Txs
<1>2. Controls'
  BY DEF Controls, Connected, Reasons, Handshake, Quiet
<1>3. Booleans'
  BY DEF Booleans
<1>4. Buffers'
  BY DEF Buffers, Numbers, Txs, Shape
<1>5. Ingress'
  BY DEF Ingress, Holds, Numbers, Taken, Tasks, NoItem, Buffers
<1>6. Queue'
  BY DEF Queue, Ingress, Buffers, Holds, Entries, Taken, Numbers, Tasks
<1>7. Rows'
  BY DEF Rows, Numbers, Causes, Txs
<1>8. Limits'
  BY DEF Limits, Buffers, Ingress, Queue, Shape
<1>9. Shape'
  BY DEF Controls, Shape, Handshake, Quiet, Connected, Ingress
<1>10. Gates'
  BY DEF Controls, Gates, Shape, Handshake, Quiet, Connected
<1>11. AcceptedGapIsRecorded'
  BY DEF Rows, AcceptedGapIsRecorded, Causes
<1> QED
  BY <1>1, <1>2, <1>3, <1>4, <1>5, <1>6, <1>7, <1>8, <1>9, <1>10, <1>11 DEF Inv, Types

(* BeginStop keeps the first layer. *)
LEMMA BeginStopInv == ASSUME Inv, BeginStop PROVE Inv'
<1> USE StreamAssumption DEF Inv, Types, BeginStop, Fault, socket, ingress, point, queue,
     base, flags
<1>1. Numbers'
  BY DEF Numbers, Txs
<1>2. Controls'
  BY DEF Controls, Connected, Reasons, Handshake, Quiet
<1>3. Booleans'
  BY DEF Booleans
<1>4. Buffers'
  BY DEF Buffers, Numbers, Txs, Shape
<1>5. Ingress'
  BY DEF Ingress, Holds, Numbers, Taken, Tasks, NoItem, Buffers
<1>6. Queue'
  BY DEF Queue, Ingress, Buffers, Holds, Entries, Taken, Numbers, Tasks
<1>7. Rows'
  BY DEF Rows, Numbers, Causes, Txs
<1>8. Limits'
  BY DEF Limits, Buffers, Ingress, Queue, Shape
<1>9. Shape'
  BY DEF Controls, Shape, Handshake, Quiet, Connected, Ingress
<1>10. Gates'
  BY DEF Controls, Gates, Shape, Handshake, Quiet, Connected
<1>11. AcceptedGapIsRecorded'
  BY DEF Rows, AcceptedGapIsRecorded, Causes
<1> QED
  BY <1>1, <1>2, <1>3, <1>4, <1>5, <1>6, <1>7, <1>8, <1>9, <1>10, <1>11 DEF Inv, Types

(* StopTimesOut keeps the first layer. *)
LEMMA StopTimesOutInv == ASSUME Inv, StopTimesOut PROVE Inv'
<1> USE StreamAssumption DEF Inv, Types, StopTimesOut, CancelDispatch, Lose, NoDisp, socket,
     ingress, point, queue, base, flags
<1>1. Numbers'
  BY DEF Numbers, Txs
<1>2. Controls'
  BY DEF Controls, Connected, Reasons, Handshake, Quiet
<1>3. Booleans'
  BY DEF Booleans
<1>4. Buffers'
  BY DEF Buffers, Numbers, Txs, Shape
<1>5. Ingress'
  BY DEF Ingress, Holds, Numbers, Taken, Tasks, NoItem, Buffers
<1>6. Queue'
  BY DEF Queue, Ingress, Buffers, Holds, Entries, Taken, Numbers, Tasks
<1>7. Rows'
  BY BlockedType DEF Rows, Numbers, Causes, Txs
<1>8. Limits'
  BY DEF Limits, Buffers, Ingress, Queue, Shape
<1>9. Shape'
  BY DEF Controls, Shape, Handshake, Quiet, Connected, Ingress
<1>10. Gates'
  BY DEF Controls, Gates, Shape, Handshake, Quiet, Connected
<1>11. AcceptedGapIsRecorded'
  BY DEF Rows, AcceptedGapIsRecorded, Causes
<1> QED
  BY <1>1, <1>2, <1>3, <1>4, <1>5, <1>6, <1>7, <1>8, <1>9, <1>10, <1>11 DEF Inv, Types

(* Stopped keeps the first layer. *)
LEMMA StoppedInv == ASSUME Inv, Stopped PROVE Inv'
<1> USE StreamAssumption DEF Inv, Types, Stopped, NoDisp, socket, ingress, point, queue,
     base, flags
<1>1. Numbers'
  BY DEF Numbers, Txs
<1>2. Controls'
  BY DEF Controls, Connected, Reasons, Handshake, Quiet
<1>3. Booleans'
  BY DEF Booleans
<1>4. Buffers'
  BY DEF Buffers, Numbers, Txs, Shape
<1>5. Ingress'
  BY DEF Ingress, Holds, Numbers, Taken, Tasks, NoItem, Buffers
<1>6. Queue'
  BY DEF Queue, Ingress, Buffers, Holds, Entries, Taken, Numbers, Tasks
<1>7. Rows'
  BY DEF Rows, Numbers, Causes, Txs
<1>8. Limits'
  BY DEF Limits, Buffers, Ingress, Queue, Shape
<1>9. Shape'
  BY DEF Controls, Shape, Handshake, Quiet, Connected, Ingress
<1>10. Gates'
  BY DEF Controls, Gates, Shape, Handshake, Quiet, Connected
<1>11. AcceptedGapIsRecorded'
  BY DEF Rows, AcceptedGapIsRecorded, Causes
<1> QED
  BY <1>1, <1>2, <1>3, <1>4, <1>5, <1>6, <1>7, <1>8, <1>9, <1>10, <1>11 DEF Inv, Types

(* Start keeps the first layer. *)
LEMMA StartInv == ASSUME Inv, Start PROVE Inv'
<1> USE StreamAssumption DEF Inv, Types, Start, Boot, NoDisp, Restored, socket, ingress,
     point, queue, base, flags
<1>a. log' = SubSeq(log, 1, done) /\ done \in 0..Len(log) /\ log \in Seq(Entries(chain))
  BY DEF Queue
<1>1. Numbers'
  <2>1. \E k \in 1..Len(log) : cp' = log[k].t
    BY DEF Logged
  <2>2. cp' \in 0..chain
    BY <2>1, Elements DEF Numbers, Entries, Txs
  <2> QED
    BY <2>2 DEF Numbers
<1>2. Controls'
  BY DEF Controls, Connected, Reasons, Handshake, Quiet
<1>3. Booleans'
  BY DEF Booleans
<1>4. Buffers'
  BY DEF Buffers, Numbers, Txs, Shape
<1>5. Ingress'
  BY DEF Ingress, Holds, Numbers, Taken, Tasks, NoItem, Buffers
<1>6. Queue'
  <2>1. log' \in Seq(Entries(chain)) /\ Len(log') = done
    BY <1>a
  <2> QED
    BY <1>a, <2>1 DEF Queue
<1>7. Rows'
  BY DEF Rows, Numbers, Causes, Txs
<1>8. Limits'
  BY DEF Limits, Buffers, Ingress, Queue, Shape
<1>9. Shape'
  BY DEF Controls, Shape, Handshake, Quiet, Connected, Ingress
<1>10. Gates'
  BY DEF Controls, Gates, Shape, Handshake, Quiet, Connected
<1>11. AcceptedGapIsRecorded'
  BY DEF Rows, AcceptedGapIsRecorded, Causes
<1> QED
  BY <1>1, <1>2, <1>3, <1>4, <1>5, <1>6, <1>7, <1>8, <1>9, <1>10, <1>11 DEF Inv, Types

(* Crash keeps the first layer. *)
LEMMA CrashInv == ASSUME Inv, Crash PROVE Inv'
<1> USE StreamAssumption DEF Inv, Types, Crash, Boot, NoDisp, Restored, Fault, socket,
     ingress, point, queue, base, flags
<1>a. log' = SubSeq(log, 1, done) /\ done \in 0..Len(log) /\ log \in Seq(Entries(chain))
  BY DEF Queue
<1>1. Numbers'
  <2>1. \E k \in 1..Len(log) : cp' = log[k].t
    BY DEF Logged
  <2>2. cp' \in 0..chain
    BY <2>1, Elements DEF Numbers, Entries, Txs
  <2> QED
    BY <2>2 DEF Numbers
<1>2. Controls'
  BY DEF Controls, Connected, Reasons, Handshake, Quiet
<1>3. Booleans'
  BY DEF Booleans
<1>4. Buffers'
  BY DEF Buffers, Numbers, Txs, Shape
<1>5. Ingress'
  BY DEF Ingress, Holds, Numbers, Taken, Tasks, NoItem, Buffers
<1>6. Queue'
  <2>1. log' \in Seq(Entries(chain)) /\ Len(log') = done
    BY <1>a
  <2> QED
    BY <1>a, <2>1 DEF Queue
<1>7. Rows'
  BY DEF Rows, Numbers, Causes, Txs
<1>8. Limits'
  BY DEF Limits, Buffers, Ingress, Queue, Shape
<1>9. Shape'
  BY DEF Controls, Shape, Handshake, Quiet, Connected, Ingress
<1>10. Gates'
  BY DEF Controls, Gates, Shape, Handshake, Quiet, Connected
<1>11. AcceptedGapIsRecorded'
  BY DEF Rows, AcceptedGapIsRecorded, Causes
<1> QED
  BY <1>1, <1>2, <1>3, <1>4, <1>5, <1>6, <1>7, <1>8, <1>9, <1>10, <1>11 DEF Inv, Types

(* The initial state: a restored checkpoint, nothing received. *)
LEMMA InitInv == Init => Inv
<1> SUFFICES ASSUME Init PROVE Inv
  OBVIOUS
<1> USE StreamAssumption DEF Init
<1>0. Numbers
  BY DEF Numbers, Txs
<1>1. Booleans
  BY DEF Booleans
<1>2. Controls
  BY DEF Controls, Reasons, Connected
<1>3. Buffers
  BY DEF Buffers
<1>4. Ingress
  <2>1. disp \in [st : {"none", "run", "permit", "put"}, item : Taken(wire) \cup {NoItem}] /\ ~Holds
    BY DEF NoDisp, Holds
  <2>2. notif \in Seq(Taken(wire)) /\ tasks \in Seq(Tasks(wire))
    OBVIOUS
  <2> QED
    BY <2>1, <2>2 DEF Ingress
<1>5. Queue
  <2>1. [t |-> 1, src |-> "baseline", g |-> 0] \in Entries(chain)
    BY DEF Entries
  <2>2. <<[t |-> 1, src |-> "baseline", g |-> 0]>> \in Seq(Entries(chain))
    BY <2>1
  <2> QED
    BY <2>2 DEF Queue
<1>6. Rows /\ AcceptedGapIsRecorded
  BY DEF Rows, AcceptedGapIsRecorded, Causes
<1>7. Limits
  BY DEF Limits
<1>8. Shape /\ Gates
  BY DEF Shape, Gates, NoDisp, Handshake, Quiet, Connected
<1> QED
  BY <1>0, <1>1, <1>2, <1>3, <1>4, <1>5, <1>6, <1>7, <1>8 DEF Inv, Types

(* Every step keeps the first layer. *)
LEMMA NextInv == Inv /\ [Next]_vars => Inv'
<1> SUFFICES ASSUME Inv, [Next]_vars PROVE Inv'
  OBVIOUS
<1>1. CASE UNCHANGED vars
  <2>1. Types'
    BY <1>1 DEF vars, socket, ingress, point, queue, base, flags, Inv, Types, Numbers, Controls,
       Booleans, Buffers, Ingress, Queue, Rows, Holds
  <2>2. Limits' /\ Shape' /\ Gates' /\ AcceptedGapIsRecorded'
    BY <1>1 DEF vars, socket, ingress, point, queue, base, flags, Inv, Limits, Shape, Gates,
       AcceptedGapIsRecorded
  <2> QED
    BY <2>1, <2>2 DEF Inv
<1>2. CASE Next
  BY <1>2, ProduceInv, BufferMessageInv, ReceiveInv, DropInv, ReconnectInv, IngressOverflowInv,
     OpenInv, HoldInv, UseLogsFallbackInv, HandshakeOverflowInv, SubscribedFreshInv,
     AcceptGapInv, SubscribedRecentInv, RecoverGapInv, GapTimeoutInv, CommitRecoveredInv,
     GapRecoveredInv, GapRowFailsInv, ReplayInv, GoLiveInv, DispatchTakeInv, DispatchPutInv,
     DispatchSpawnInv, DispatchRefusedInv, FetchOkInv, FetchFailsInv, TaskObserveInv,
     TaskPutInv, WorkerHandleInv, WorkerFailsInv, RefreshFreshnessInv, WarmupElapsesInv,
     AgeInv, BeginStopInv, StopTimesOutInv, StoppedInv, StartInv, CrashInv
     DEF Next
<1> QED
  BY <1>1, <1>2

(* Every state of the gateway satisfies the first layer. *)
THEOREM SpecInv == Spec => []Inv
BY InitInv, NextInv, PTL DEF Spec

(* The first layer gives the stated types and limits. *)
LEMMA TypesAreOK == ASSUME Inv PROVE TypeOK
<1> USE StreamAssumption DEF Inv, Types
<1>1. chain \in Nat /\ wire \in Nat /\ wire - 1 <= N /\ chain <= N
  BY DEF Numbers, Txs
<1>2. 1..wire - 1 \subseteq Txs /\ 1..chain \subseteq Txs
  BY <1>1 DEF Txs
<1>3. Taken(wire) \subseteq Items
  BY <1>2 DEF Taken, Items
<1>4. buf \in Seq(Txs) /\ live \in Seq(Txs) /\ rec \in Seq(Txs) /\ notif \in Seq(Items)
  BY <1>2, <1>3, SeqWiden DEF Buffers, Ingress
<1>5. Len(buf \o live) <= BufLimit /\ Len(notif) <= IngressSize /\ Len(tasks) <= MaxTasks
      /\ Len(log) - done <= QueueSize
  BY <1>4 DEF Limits
<1>6. \A i \in 1..Len(tasks) : tasks[i].st \in {"fetch", "ready", "put"} /\ tasks[i].item \in Items
  BY <1>3, Elements DEF Tasks
<1>7. disp.st \in {"none", "run", "permit", "put"} /\ done \in 0..Len(log)
  BY DEF Ingress, Queue
<1> QED
  BY <1>4, <1>5, <1>6, <1>7 DEF TypeOK, Numbers, Controls, Booleans

(* The types of the gateway and the limits of its queues, its buffer and    *)
(* its semaphore hold in every state.                                       *)
THEOREM SpecTypeOK == Spec => []TypeOK
<1>1. Inv => TypeOK
  BY TypesAreOK
<1> QED
  BY <1>1, SpecInv, PTL

(* Entries are open only over a live connection whose recovery is complete  *)
(* and whose baseline is warm, with no reconnect asked for (EntryGate).     *)
THEOREM SpecGateMeansLive == Spec => []GateMeansLive
<1>1. Inv => GateMeansLive
  BY DEF Inv, Gates, GateMeansLive, Connected
<1> QED
  BY <1>1, SpecInv, PTL

(* A checkpoint is discarded only with its gap on record                    *)
(* (record_stream_recovery_gap).                                            *)
THEOREM SpecAcceptedGap == Spec => []AcceptedGapIsRecorded
<1>1. Inv => AcceptedGapIsRecorded
  BY DEF Inv
<1> QED
  BY <1>1, SpecInv, PTL

-----------------------------------------------------------------------------
(* Proofs of layer 2 *)

(* What is lost is added to what was given up. *)
LEMMA LoseAdds ==
    ASSUME Inv, NEW c \in Causes, NEW S, Lose(c, S) PROVE GivenUp' = GivenUp \cup S
<1>1. lost' = [lost EXCEPT ![c] = @ \cup S] /\ DOMAIN lost = Causes
  BY DEF Lose, Inv, Types, Rows
<1>2. lost'[c] = lost[c] \cup S /\ \A d \in Causes \ {c} : lost'[d] = lost[d]
  BY <1>1
<1> QED
  BY <1>2 DEF GivenUp

(* An entry is added to what is queued. *)
LEMMA LogAdds ==
    ASSUME NEW S, log \in Seq(S), NEW e \in S, log' = Append(log, e)
    PROVE  Logged(log') = Logged(log) \cup {e.t}
<1>1. /\ Len(log') = Len(log) + 1 /\ Len(log) \in Nat /\ log'[Len(log) + 1] = e
      /\ \A j \in 1..Len(log) : log'[j] = log[j]
  BY AppendTo
<1> QED
  BY <1>1 DEF Logged

(* The numbers the proofs below count with. *)
LEMMA Bounds ==
    ASSUME Inv
    PROVE  /\ chain \in Nat /\ cp \in Nat /\ wire \in Nat /\ wire - 1 <= chain /\ cp <= chain
           /\ \A i \in 1..Len(notif) : notif[i].t \in 1..wire - 1
           /\ \A i \in 1..Len(tasks) : tasks[i].item.t \in 1..wire - 1
           /\ \A i \in 1..Len(log) : log[i].t \in 1..chain
           /\ \A i \in 1..Len(buf) : buf[i] \in 1..wire - 1
           /\ \A i \in 1..Len(rec) : rec[i] \in 1..chain
           /\ Holds => disp.item.t \in 1..wire - 1
           /\ Len(notif) \in Nat /\ Len(tasks) \in Nat /\ Len(log) \in Nat /\ Len(buf) \in Nat
           /\ Len(rec) \in Nat
<1>1. chain \in Nat /\ cp \in Nat /\ wire \in Nat /\ wire - 1 <= chain /\ cp <= chain
  BY StreamAssumption DEF Inv, Types, Numbers, Txs
<1>2. \A x \in Taken(wire) : x.t \in 1..wire - 1
  BY DEF Taken
<1>3. \A x \in Entries(chain) : x.t \in 1..chain
  BY DEF Entries
<1>4. /\ \A i \in 1..Len(buf) : buf[i] \in 1..wire - 1
      /\ \A i \in 1..Len(rec) : rec[i] \in 1..chain
  <2>1. \A S : \A q \in Seq(S) : \A i \in 1..Len(q) : q[i] \in S
    OBVIOUS
  <2>2. buf \in Seq(1..wire - 1) /\ rec \in Seq(1..chain)
    BY DEF Inv, Types, Buffers
  <2> QED
    BY <2>1, <2>2
<1>6. Holds => disp.item \in Taken(wire)
  BY DEF Inv, Types, Ingress
<1>5. /\ Len(notif) \in Nat /\ Len(tasks) \in Nat /\ Len(log) \in Nat /\ Len(buf) \in Nat
      /\ Len(rec) \in Nat
  BY DEF Inv, Types, Buffers, Ingress, Queue
<1> QED
  BY <1>1, <1>2, <1>3, <1>4, <1>5, <1>6, Elements

(* A step that dispatches nothing and loses nothing. *)
LEMMA InertLosses ==
    ASSUME Losses, UNCHANGED <<log, lost, tasks, disp, notif, cp>>,
           conn' = "committing" => conn = "committing" /\ rec' = rec /\ wire' = wire,
           Dispatching' => Dispatching,
           Dispatching' /\ conn' \in {"replaying", "live"} =>
               conn \in {"replaying", "live"} /\ wire' = wire /\ buf' = buf,
           Dispatching' /\ conn' = "replaying" => conn = "replaying"
    PROVE  Losses'
<1>1. /\ GivenUp' = GivenUp /\ Logged(log)' = Logged(log) /\ Blocked' = Blocked /\ Holds' = Holds
      /\ TaskTimes' = TaskTimes /\ HeldTimes' = HeldTimes /\ NotifTimes' = NotifTimes
  BY DEF GivenUp, Blocked, TaskTimes, HeldTimes, NotifTimes, Holds, Logged
<1>2. Kept' = Kept /\ Known' = Known
  BY <1>1 DEF Kept, Known
<1>3. LossesAreKnown' /\ LogClosed' /\ TasksClosed'
  BY <1>1, <1>2 DEF Losses, LossesAreKnown, LogClosed, TasksClosed
<1>4. RecClosed'
  BY <1>2 DEF Losses, RecClosed
<1>5. HeldClosed'
  BY <1>1, <1>2 DEF Losses, HeldClosed
<1>6. NotifClosed'
  BY <1>1, <1>2 DEF Losses, NotifClosed
<1>7. BufClosed'
  BY <1>1, <1>2 DEF Losses, BufClosed
<1>8. WireClosed'
  <2>1. buf' = buf => BufTimes' = BufTimes
    BY DEF BufTimes
  <2> QED
    BY <1>1, <1>2, <2>1 DEF Losses, WireClosed
<1> QED
  BY <1>3, <1>4, <1>5, <1>6, <1>7, <1>8 DEF Losses

(* The dispatcher and the tasks are cancelled: what was blocked is lost,    *)
(* and nothing is dispatched until the next connection.                     *)
LEMMA CancelLosses ==
    ASSUME Inv, Losses, log' = log, cp' = cp, disp' = NoDisp, tasks' = <<>>,
           Lose("cancelled", Blocked), conn' \notin {"committing", "replaying", "live"}
    PROVE  Losses'
<1>1. GivenUp' = GivenUp \cup Blocked
  BY LoseAdds DEF Causes
<1>2. Logged(log)' = Logged(log)
  BY DEF Logged
<1>3. Known \subseteq Known' /\ Kept \subseteq Kept'
  BY <1>1, <1>2 DEF Known, Kept
<1>4. ~Dispatching'
  BY DEF Dispatching, NoDisp
<1>5. LossesAreKnown'
  BY <1>3 DEF Losses, LossesAreKnown, Known, Kept
<1>6. LogClosed'
  BY <1>1 DEF Losses, LogClosed
<1>7. TasksClosed'
  BY DEF TasksClosed
<1> QED
  BY <1>4, <1>5, <1>6, <1>7 DEF Losses, RecClosed, HeldClosed, NotifClosed, BufClosed, WireClosed

(* Produce dispatches nothing. *)
LEMMA ProduceLosses == ASSUME Inv, Inv', Losses, Produce PROVE Losses'
BY InertLosses DEF Produce, socket, ingress, point, queue, base, flags, Dispatching, Inv

(* Hold dispatches nothing. *)
LEMMA HoldLosses == ASSUME Inv, Inv', Losses, Hold PROVE Losses'
BY InertLosses DEF Hold, socket, ingress, point, queue, base, flags, Dispatching, Inv

(* SubscribedRecent dispatches nothing. *)
LEMMA SubscribedRecentLosses == ASSUME Inv, Inv', Losses, SubscribedRecent PROVE Losses'
BY InertLosses DEF SubscribedRecent, socket, ingress, point, queue, base, flags, Dispatching, Inv

(* WorkerHandle dispatches nothing. *)
LEMMA WorkerHandleLosses == ASSUME Inv, Inv', Losses, WorkerHandle PROVE Losses'
BY InertLosses DEF WorkerHandle, socket, ingress, point, queue, base, flags, Dispatching, Inv

(* WorkerFails dispatches nothing. *)
LEMMA WorkerFailsLosses == ASSUME Inv, Inv', Losses, WorkerFails PROVE Losses'
BY InertLosses DEF WorkerFails, socket, ingress, point, queue, base, flags, Dispatching, Inv

(* RefreshFreshness dispatches nothing. *)
LEMMA RefreshFreshnessLosses == ASSUME Inv, Inv', Losses, RefreshFreshness PROVE Losses'
BY InertLosses DEF RefreshFreshness, socket, ingress, point, queue, base, flags, Dispatching, Inv

(* WarmupElapses dispatches nothing. *)
LEMMA WarmupElapsesLosses == ASSUME Inv, Inv', Losses, WarmupElapses PROVE Losses'
BY InertLosses DEF WarmupElapses, socket, ingress, point, queue, base, flags, Dispatching, Inv

(* Age dispatches nothing. *)
LEMMA AgeLosses == ASSUME Inv, Inv', Losses, Age PROVE Losses'
BY InertLosses DEF Age, socket, ingress, point, queue, base, flags, Dispatching, Inv

(* GoLive dispatches nothing. *)
LEMMA GoLiveLosses == ASSUME Inv, Inv', Losses, GoLive PROVE Losses'
BY InertLosses DEF GoLive, socket, ingress, point, queue, base, flags, Dispatching, Inv, Shape

(* Open dispatches nothing. *)
LEMMA OpenLosses == ASSUME Inv, Inv', Losses, Open PROVE Losses'
BY InertLosses DEF Open, socket, ingress, point, queue, base, flags, Dispatching, Inv, Shape, Quiet, Handshake

(* BeginStop dispatches nothing. *)
LEMMA BeginStopLosses == ASSUME Inv, Inv', Losses, BeginStop PROVE Losses'
BY InertLosses DEF BeginStop, socket, ingress, point, queue, base, flags, Dispatching, Inv

(* BufferMessage dispatches nothing. *)
LEMMA BufferMessageLosses == ASSUME Inv, Inv', Losses, BufferMessage PROVE Losses'
BY InertLosses DEF BufferMessage, socket, ingress, point, queue, base, flags, Dispatching, Inv, Shape, Quiet, Handshake

(* Drop cancels the dispatch. *)
LEMMA DropLosses == ASSUME Inv, Inv', Losses, Drop PROVE Losses'
BY CancelLosses DEF Drop, Leave, CancelDispatch, socket, ingress, point, queue, base, flags

(* Reconnect cancels the dispatch. *)
LEMMA ReconnectLosses == ASSUME Inv, Inv', Losses, Reconnect PROVE Losses'
BY CancelLosses DEF Reconnect, Leave, CancelDispatch, socket, ingress, point, queue, base, flags

(* IngressOverflow cancels the dispatch. *)
LEMMA IngressOverflowLosses == ASSUME Inv, Inv', Losses, IngressOverflow PROVE Losses'
BY CancelLosses DEF IngressOverflow, socket, ingress, point, queue, base, flags

(* UseLogsFallback cancels the dispatch. *)
LEMMA UseLogsFallbackLosses == ASSUME Inv, Inv', Losses, UseLogsFallback PROVE Losses'
BY CancelLosses DEF UseLogsFallback, Leave, CancelDispatch, socket, ingress, point, queue, base, flags

(* HandshakeOverflow cancels the dispatch. *)
LEMMA HandshakeOverflowLosses == ASSUME Inv, Inv', Losses, HandshakeOverflow PROVE Losses'
BY CancelLosses DEF HandshakeOverflow, Leave, CancelDispatch, socket, ingress, point, queue, base, flags

(* GapTimeout cancels the dispatch. *)
LEMMA GapTimeoutLosses == ASSUME Inv, Inv', Losses, GapTimeout PROVE Losses'
BY CancelLosses DEF GapTimeout, CancelDispatch, socket, ingress, point, queue, base, flags

(* GapRowFails cancels the dispatch. *)
LEMMA GapRowFailsLosses == ASSUME Inv, Inv', Losses, GapRowFails PROVE Losses'
BY CancelLosses DEF GapRowFails, CancelDispatch, socket, ingress, point, queue, base, flags

(* StopTimesOut cancels the dispatch. *)
LEMMA StopTimesOutLosses == ASSUME Inv, Inv', Losses, StopTimesOut PROVE Losses'
BY CancelLosses DEF StopTimesOut, CancelDispatch, socket, ingress, point, queue, base, flags

(* The drained gateway is off. *)
LEMMA StoppedLosses == ASSUME Inv, Inv', Losses, Stopped PROVE Losses'
<1>1. UNCHANGED <<log, lost, tasks, notif, cp>> /\ disp.st \in {"none", "run"} /\ disp' = NoDisp /\ conn' = "off"
  BY DEF Stopped, point, queue
<1>2. GivenUp' = GivenUp /\ Logged(log)' = Logged(log) /\ Blocked' = Blocked
  BY <1>1 DEF GivenUp, Logged, Blocked, NoDisp
<1>3. Known' = Known /\ ~Dispatching'
  BY <1>1, <1>2 DEF Known, Kept, Dispatching, NoDisp
<1> QED
  BY <1>1, <1>2, <1>3 DEF Losses, LossesAreKnown, Known, Kept, LogClosed, TasksClosed, RecClosed, HeldClosed,
     NotifClosed, BufClosed, WireClosed

(* The dispatcher ends with a reconnect asked for. *)
LEMMA DispatchRefusedLosses == ASSUME Inv, Inv', Losses, DispatchRefused PROVE Losses'
<1>1. /\ UNCHANGED <<log, lost, tasks, notif, cp, conn, rec, wire, buf, reconnect>>
      /\ disp.st = "permit" /\ disp' = NoDisp /\ reconnect
  BY DEF DispatchRefused, socket, point, queue
<1>2. GivenUp' = GivenUp /\ Logged(log)' = Logged(log) /\ Blocked' = Blocked
  BY <1>1 DEF GivenUp, Logged, Blocked, NoDisp
<1>3. Known' = Known /\ Kept' = Kept /\ ~Dispatching'
  BY <1>1, <1>2 DEF Known, Kept, Dispatching
<1>4. LossesAreKnown' /\ LogClosed' /\ TasksClosed' /\ RecClosed'
  BY <1>1, <1>2, <1>3 DEF Losses, LossesAreKnown, Known, Kept, LogClosed, TasksClosed, RecClosed
<1> QED
  BY <1>3, <1>4 DEF Losses, HeldClosed, NotifClosed, BufClosed, WireClosed

(* A live message is queued behind everything before it. *)
LEMMA ReceiveLosses == ASSUME Inv, Inv', Losses, Receive PROVE Losses'
<1>1. /\ UNCHANGED <<log, lost, tasks, cp, conn, rec, reconnect>> /\ ~reconnect /\ conn = "live"
      /\ disp' = disp \/ (disp.st = "none" /\ disp' = Running)
      /\ notif' = Append(notif, Stamp(wire)) /\ Stamp(wire).t = wire
  BY DEF Receive, EnqueueNotification, Stamp, point, queue, flags
<1>2. /\ GivenUp' = GivenUp /\ Logged(log)' = Logged(log) /\ Blocked' = Blocked /\ (Holds' <=> Holds)
      /\ TaskTimes' = TaskTimes /\ HeldTimes' = HeldTimes
  <2>1. GivenUp' = GivenUp /\ Logged(log)' = Logged(log) /\ TaskTimes' = TaskTimes
    BY <1>1 DEF GivenUp, Logged, TaskTimes
  <2>2. CASE disp' = disp
    BY <1>1, <2>1, <2>2 DEF Blocked, HeldTimes, Holds
  <2>3. CASE disp.st = "none" /\ disp' = Running
    BY <1>1, <2>1, <2>3 DEF Blocked, HeldTimes, Holds, Running
  <2> QED
    BY <1>1, <2>2, <2>3
<1>3. Known' = Known /\ Kept' = Kept /\ Dispatching /\ Dispatching'
  BY <1>1, <1>2 DEF Known, Kept, Dispatching
<1>4. /\ Len(notif') = Len(notif) + 1 /\ Len(notif) \in Nat /\ notif'[Len(notif) + 1].t = wire
      /\ \A j \in 1..Len(notif) : notif'[j] = notif[j]
  <2>1. notif \in Seq(Items)
    BY TypesAreOK DEF TypeOK
  <2>2. wire \in Txs
    BY TypesAreOK, StreamAssumption DEF TypeOK, Receive, Txs
  <2>3. Stamp(wire) \in Items
    BY <2>2 DEF Stamp, Items, Inv, Types, Numbers
  <2> QED
    BY <1>1, <2>1, <2>3, AppendTo
<1>5. NotifTimes' = NotifTimes \cup {wire}
  BY <1>4 DEF NotifTimes
<1>6. wire' = wire + 1 /\ wire \in Nat /\ buf' = buf /\ BufTimes' = BufTimes /\ BufTimes = {}
  BY <1>1, Bounds DEF Receive, BufTimes, Inv, Shape
<1>7. LossesAreKnown' /\ LogClosed' /\ TasksClosed' /\ RecClosed' /\ HeldClosed' /\ BufClosed'
  <2>1. LossesAreKnown' /\ LogClosed'
    BY <1>1, <1>2 DEF Losses, LossesAreKnown, LogClosed
  <2>2. TasksClosed' /\ RecClosed' /\ BufClosed'
    BY <1>1, <1>3 DEF Losses, TasksClosed, RecClosed, BufClosed
  <2>3. HeldClosed'
    BY <1>1, <1>2, <1>3 DEF Losses, HeldClosed, Holds, Running
  <2> QED
    BY <2>1, <2>2, <2>3
<1>8. NotifClosed'
  <2> SUFFICES ASSUME NEW k \in 1..Len(notif'), NEW t \in 1..notif'[k].t - 1
               PROVE  t \in Known \cup TaskTimes \cup HeldTimes \/ \E j \in 1..k - 1 : notif'[j].t = t
    BY <1>2, <1>3 DEF NotifClosed
  <2>1. CASE k \in 1..Len(notif)
    BY <1>3, <1>4, <2>1 DEF Losses, NotifClosed
  <2>2. CASE k = Len(notif) + 1
    <3>1. t \in Known \cup TaskTimes \cup HeldTimes \cup NotifTimes
      BY <1>1, <1>3, <1>4, <1>6, <2>2 DEF Losses, WireClosed
    <3> QED
      BY <1>4, <2>2, <3>1 DEF NotifTimes
  <2> QED
    BY <1>4, <2>1, <2>2
<1>9. WireClosed'
  <2> SUFFICES ASSUME NEW t \in 1..wire
               PROVE  t \in Known \cup TaskTimes \cup HeldTimes \cup NotifTimes'
    BY <1>2, <1>3, <1>6 DEF WireClosed
  <2>1. t = wire \/ t \in 1..wire - 1
    BY <1>6
  <2> QED
    BY <1>1, <1>3, <1>5, <1>6, <2>1 DEF Losses, WireClosed
<1> QED
  BY <1>7, <1>8, <1>9 DEF Losses

(* A buffered message is queued behind everything before it. *)
LEMMA ReplayLosses == ASSUME Inv, Inv', Losses, Replay PROVE Losses'
<1>1. /\ UNCHANGED <<log, lost, tasks, cp, conn, rec, reconnect>> /\ ~reconnect /\ conn = "replaying"
      /\ disp' = disp \/ (disp.st = "none" /\ disp' = Running)
      /\ notif' = Append(notif, Stamp(Head(buf))) /\ Stamp(Head(buf)).t = Head(buf)
  BY DEF Replay, EnqueueNotification, Stamp, point, queue, flags
<1>2. /\ GivenUp' = GivenUp /\ Logged(log)' = Logged(log) /\ Blocked' = Blocked /\ (Holds' <=> Holds)
      /\ TaskTimes' = TaskTimes /\ HeldTimes' = HeldTimes
  <2>1. GivenUp' = GivenUp /\ Logged(log)' = Logged(log) /\ TaskTimes' = TaskTimes
    BY <1>1 DEF GivenUp, Logged, TaskTimes
  <2>2. CASE disp' = disp
    BY <1>1, <2>1, <2>2 DEF Blocked, HeldTimes, Holds
  <2>3. CASE disp.st = "none" /\ disp' = Running
    BY <1>1, <2>1, <2>3 DEF Blocked, HeldTimes, Holds, Running
  <2> QED
    BY <1>1, <2>2, <2>3
<1>3. Known' = Known /\ Kept' = Kept /\ Dispatching /\ Dispatching'
  BY <1>1, <1>2 DEF Known, Kept, Dispatching
<1>4. /\ Len(notif') = Len(notif) + 1 /\ Len(notif) \in Nat /\ notif'[Len(notif) + 1].t = Head(buf)
      /\ \A j \in 1..Len(notif) : notif'[j] = notif[j]
  <2>1. notif \in Seq(Items)
    BY TypesAreOK DEF TypeOK
  <2>2. Head(buf) \in Txs
    BY TypesAreOK, HeadTail DEF TypeOK, Replay
  <2>3. Stamp(Head(buf)) \in Items
    BY <2>2 DEF Stamp, Items, Inv, Types, Numbers
  <2> QED
    BY <1>1, <2>1, <2>3, AppendTo
<1>5. NotifTimes' = NotifTimes \cup {Head(buf)}
  BY <1>4 DEF NotifTimes
<1>6. /\ buf # <<>> /\ buf' = Tail(buf) /\ wire' = wire /\ Head(buf) = buf[1]
      /\ Len(buf) \in Nat \ {0} /\ Len(buf') = Len(buf) - 1
      /\ \A j \in 1..Len(buf') : buf'[j] = buf[j + 1]
  BY HeadTail DEF Replay, Inv, Types, Buffers
<1>7. LossesAreKnown' /\ LogClosed' /\ TasksClosed' /\ RecClosed' /\ HeldClosed'
  <2>1. LossesAreKnown' /\ LogClosed'
    BY <1>1, <1>2 DEF Losses, LossesAreKnown, LogClosed
  <2>2. TasksClosed' /\ RecClosed'
    BY <1>1, <1>3 DEF Losses, TasksClosed, RecClosed
  <2>3. HeldClosed'
    BY <1>1, <1>2, <1>3 DEF Losses, HeldClosed, Holds, Running
  <2> QED
    BY <2>1, <2>2, <2>3
<1>8. NotifClosed'
  <2> SUFFICES ASSUME NEW k \in 1..Len(notif'), NEW t \in 1..notif'[k].t - 1
               PROVE  t \in Known \cup TaskTimes \cup HeldTimes \/ \E j \in 1..k - 1 : notif'[j].t = t
    BY <1>2, <1>3 DEF NotifClosed
  <2>1. CASE k \in 1..Len(notif)
    BY <1>3, <1>4, <2>1 DEF Losses, NotifClosed
  <2>2. CASE k = Len(notif) + 1
    <3>1. t \in Known \cup TaskTimes \cup HeldTimes \cup NotifTimes
      BY <1>1, <1>3, <1>4, <1>6, <2>2 DEF Losses, BufClosed
    <3> QED
      BY <1>4, <2>2, <3>1 DEF NotifTimes
  <2> QED
    BY <1>4, <2>1, <2>2
<1>9. BufClosed'
  <2> SUFFICES ASSUME NEW k \in 1..Len(buf'), NEW t \in 1..buf'[k] - 1
               PROVE  t \in Known \cup TaskTimes \cup HeldTimes \cup NotifTimes'
                      \/ \E j \in 1..k - 1 : buf'[j] = t
    BY <1>2, <1>3 DEF BufClosed
  <2>1. t \in Known \cup TaskTimes \cup HeldTimes \cup NotifTimes \/ \E j \in 1..k : buf[j] = t
    BY <1>1, <1>3, <1>6 DEF Losses, BufClosed
  <2>2. ASSUME NEW j \in 1..k, buf[j] = t, j # 1 PROVE j - 1 \in 1..k - 1 /\ buf'[j - 1] = t
    BY <1>6, <2>2
  <2> QED
    BY <1>5, <1>6, <2>1, <2>2
<1>10. WireClosed'
  <2>1. BufTimes \subseteq BufTimes' \cup {Head(buf)}
    <3> SUFFICES ASSUME NEW j \in 1..Len(buf), j # 1 PROVE buf[j] \in BufTimes'
      BY <1>6 DEF BufTimes
    <3>1. j - 1 \in 1..Len(buf') /\ buf'[j - 1] = buf[j]
      BY <1>6
    <3> QED
      BY <3>1 DEF BufTimes
  <2> QED
    BY <1>1, <1>2, <1>3, <1>5, <1>6, <2>1 DEF Losses, WireClosed
<1> QED
  BY <1>7, <1>8, <1>9, <1>10 DEF Losses

(* A connection that replays once everything before its first message is    *)
(* kept.                                                                    *)
LEMMA ReplayingLosses ==
    ASSUME Inv, Inv', Losses, UNCHANGED <<log, tasks, disp, notif, buf, wire>>,
           conn \in Handshake, conn' = "replaying", cp' \in {0, cp}, Kept \subseteq Kept',
           GivenUp \subseteq GivenUp', \A t \in 1..wire - 1 : t \in Kept'
    PROVE  Losses'
<1>1. tasks = <<>> /\ tasks' = <<>> /\ disp.st = "none" /\ disp'.st = "none"
  BY DEF Inv, Shape, Quiet
<1>2. Blocked = {} /\ ~Holds /\ ~Holds'
  BY <1>1 DEF Blocked, Holds
<1>3. Kept' \subseteq Known'
  BY DEF Known
<1>4. LossesAreKnown'
  BY <1>2, Bounds DEF Losses, LossesAreKnown, Kept
<1>5. LogClosed' /\ TasksClosed' /\ RecClosed' /\ HeldClosed'
  BY <1>1, <1>2 DEF Losses, LogClosed, TasksClosed, RecClosed, HeldClosed
<1>6. \A t \in Nat : (\E n \in 1..wire - 1 : t \in 1..n - 1) => t \in Kept'
  BY Bounds
<1>7. NotifClosed'
  BY <1>3, <1>6, Bounds DEF NotifClosed
<1>8. BufClosed'
  BY <1>3, <1>6, Bounds DEF BufClosed
<1>9. WireClosed'
  BY <1>3 DEF WireClosed
<1> QED
  BY <1>4, <1>5, <1>7, <1>8, <1>9 DEF Losses

(* Without a checkpoint what the socket has not shown is given up. *)
LEMMA SubscribedFreshLosses == ASSUME Inv, Inv', Losses, SubscribedFresh PROVE Losses'
<1>1. GivenUp' = GivenUp \cup ((1..wire - 1) \ Logged(log))
  BY LoseAdds DEF SubscribedFresh, Causes
<1>2. /\ UNCHANGED <<log, tasks, disp, notif, buf, wire, cp>> /\ conn = "subscribing" /\ conn' = "replaying"
  BY DEF SubscribedFresh, ingress, point, queue
<1>3. Logged(log)' = Logged(log)
  BY <1>2 DEF Logged
<1> QED
  BY <1>1, <1>2, <1>3, ReplayingLosses DEF Kept, Handshake

(* An accepted gap is given up as a whole. *)
LEMMA AcceptGapLosses == ASSUME Inv, Inv', Losses, AcceptGap PROVE Losses'
<1>1. GivenUp' = GivenUp \cup ((1..chain) \ Logged(log))
  BY LoseAdds DEF AcceptGap, Causes
<1>2. /\ UNCHANGED <<log, tasks, disp, notif, buf, wire>> /\ conn = "subscribing" /\ conn' = "replaying"
      /\ cp' = 0
  BY DEF AcceptGap, ingress, queue
<1>3. Logged(log)' = Logged(log)
  BY <1>2 DEF Logged
<1>4. \A t \in 1..wire - 1 : t \in 1..chain
  BY Bounds
<1> QED
  BY <1>1, <1>2, <1>3, <1>4, ReplayingLosses DEF Kept, Handshake

(* Everything recovered is queued. *)
LEMMA GapRecoveredLosses == ASSUME Inv, Inv', Losses, GapRecovered PROVE Losses'
<1>1. /\ UNCHANGED <<log, lost, tasks, disp, notif, buf, wire, cp>>
      /\ conn = "committing" /\ conn' = "replaying" /\ rec = <<>>
  BY DEF GapRecovered, ingress, point, queue
<1>2. Logged(log)' = Logged(log) /\ GivenUp' = GivenUp
  BY <1>1 DEF Logged, GivenUp
<1>3. Kept' = Kept
  BY <1>2 DEF Kept
<1>4. \A t \in 1..wire - 1 : t \in Kept
  BY <1>1 DEF Losses, RecClosed
<1> QED
  BY <1>1, <1>2, <1>3, <1>4, ReplayingLosses DEF Handshake

(* The gap to the checkpoint is fetched; what is unknown is given up. *)
LEMMA RecoverGapLosses == ASSUME Inv, Inv', Losses, RecoverGap PROVE Losses'
<1>1. /\ UNCHANGED <<log, tasks, disp, notif, cp, wire, chain>> /\ conn = "recovering" /\ conn' = "committing"
  BY DEF RecoverGap, ingress, point, queue
<1>2. tasks = <<>> /\ disp.st = "none" /\ ~Holds /\ Blocked = {} /\ Blocked' = {}
  BY <1>1 DEF Inv, Shape, Quiet, Handshake, Blocked, Holds
<1>3. Logged(log)' = Logged(log)
  BY <1>1 DEF Logged
<1>4. \A t \in 1..cp : t \in Kept
  BY <1>2 DEF Losses, LossesAreKnown, Kept
<1>5. chain \in Nat /\ cp \in Nat /\ cp <= chain /\ wire \in Nat /\ wire - 1 <= chain
  BY Bounds
<1>6. \E u \in Nat :
        /\ GivenUp' = GivenUp \cup (IF u \in cp + 1..chain THEN {u} ELSE {})
        /\ Len(rec') = chain - cp - (IF u \in cp + 1..chain THEN 1 ELSE 0)
        /\ \A i \in 1..Len(rec') : rec'[i] = IF cp + i < u THEN cp + i ELSE cp + i + 1
        /\ u \in cp + 1..chain + 1
  <2>1. CASE rec' = [i \in 1..chain - cp |-> cp + i] /\ lost' = lost
    <3>1. GivenUp' = GivenUp
      BY <2>1 DEF GivenUp
    <3>2. Len(rec') = chain - cp
      BY <1>5, <2>1
    <3> QED
      BY <1>5, <2>1, <3>1, <3>2
  <2>2. CASE \E u \in cp + 1..chain :
               /\ rec' = [i \in 1..chain - cp - 1 |-> IF cp + i < u THEN cp + i ELSE cp + i + 1]
               /\ Lose("unavailable", {u})
    <3>1. PICK u \in cp + 1..chain :
               /\ rec' = [i \in 1..chain - cp - 1 |-> IF cp + i < u THEN cp + i ELSE cp + i + 1]
               /\ Lose("unavailable", {u})
      BY <2>2
    <3>2. GivenUp' = GivenUp \cup {u}
      BY <3>1, LoseAdds DEF Causes
    <3>3. Len(rec') = chain - cp - 1 /\ u \in Nat
      BY <1>5, <3>1
    <3> QED
      BY <1>5, <3>1, <3>2, <3>3
  <2> QED
    BY <2>1, <2>2 DEF RecoverGap
<1>7. PICK u \in Nat :
        /\ GivenUp' = GivenUp \cup (IF u \in cp + 1..chain THEN {u} ELSE {})
        /\ Len(rec') = chain - cp - (IF u \in cp + 1..chain THEN 1 ELSE 0)
        /\ \A i \in 1..Len(rec') : rec'[i] = IF cp + i < u THEN cp + i ELSE cp + i + 1
        /\ u \in cp + 1..chain + 1
  BY <1>6
<1>8. Kept \subseteq Kept' /\ (u \in cp + 1..chain => u \in Kept')
  BY <1>3, <1>7 DEF Kept
<1>9. ASSUME NEW t \in cp + 1..chain, t # u
      PROVE  \E j \in 1..Len(rec') : rec'[j] = t /\ j = IF t < u THEN t - cp ELSE t - cp - 1
  <2>1. CASE t < u
    BY <1>5, <1>7, <2>1
  <2>2. CASE t > u
    <3>1. u \in cp + 1..chain /\ Len(rec') = chain - cp - 1
      BY <1>5, <1>7, <2>2
    <3>2. t - cp - 1 \in 1..Len(rec') /\ ~(cp + (t - cp - 1) < u)
      BY <1>5, <2>2, <3>1
    <3>3. rec'[t - cp - 1] = t
      BY <1>5, <1>7, <3>2
    <3> QED
      BY <1>5, <2>2, <3>2, <3>3
  <2> QED
    BY <1>5, <1>9, <2>1, <2>2
<1>10. RecClosed'
  <2>1. ASSUME NEW i \in 1..Len(rec'), NEW t \in 1..rec'[i]
        PROVE  t \in Kept' \/ \E j \in 1..i : rec'[j] = t
    <3>1. t \in 1..cp \/ t \in cp + 1..chain
      BY <1>5, <1>7
    <3>2. CASE t \in cp + 1..chain /\ t # u
      <4>1. PICK j \in 1..Len(rec') : rec'[j] = t /\ j = IF t < u THEN t - cp ELSE t - cp - 1
        BY <1>9, <3>2
      <4>2. rec'[i] = (IF cp + i < u THEN cp + i ELSE cp + i + 1) /\ i \in Nat /\ Len(rec') \in Nat
        BY <1>5, <1>7
      <4>3. j <= i
        BY <1>5, <3>2, <4>1, <4>2
      <4> QED
        BY <4>1, <4>2, <4>3
    <3> QED
      BY <1>4, <1>8, <3>1, <3>2
  <2>2. ASSUME NEW t \in 1..wire - 1
        PROVE  t \in Kept' \/ \E j \in 1..Len(rec') : rec'[j] = t
    <3>1. t \in 1..cp \/ t \in cp + 1..chain
      BY <1>5
    <3> QED
      BY <1>4, <1>8, <1>9, <3>1
  <2> QED
    BY <1>1, <2>1, <2>2 DEF RecClosed
<1>11. LossesAreKnown' /\ LogClosed' /\ TasksClosed'
  <2>1. GivenUp \subseteq GivenUp'
    BY <1>7
  <2> QED
    BY <1>1, <1>2, <1>3, <2>1 DEF Losses, LossesAreKnown, LogClosed, TasksClosed
<1>12. ~Dispatching'
  BY <1>1, <1>2 DEF Dispatching
<1> QED
  BY <1>10, <1>11, <1>12 DEF Losses, HeldClosed, NotifClosed, BufClosed, WireClosed

(* An entry whose predecessors are kept is queued. *)
LEMMA LogStaysClosed ==
    ASSUME Losses, NEW S, log \in Seq(S), NEW e \in S, log' = Append(log, e), e.t \in Nat,
           GivenUp' = GivenUp, \A t \in 1..e.t - 1 : t \in Kept
    PROVE  LogClosed'
<1>1. /\ Len(log') = Len(log) + 1 /\ Len(log) \in Nat /\ log'[Len(log) + 1] = e
      /\ \A j \in 1..Len(log) : log'[j] = log[j]
  BY AppendTo
<1> SUFFICES ASSUME NEW k \in 1..Len(log'), NEW t \in 1..log'[k].t
             PROVE  t \in GivenUp \/ \E j \in 1..k : log'[j].t = t
  BY DEF LogClosed
<1>2. CASE k \in 1..Len(log)
  BY <1>1, <1>2 DEF Losses, LogClosed
<1>3. CASE k = Len(log) + 1
  <2>1. t = e.t \/ t \in 1..e.t - 1
    BY <1>1, <1>3
  <2>2. t \in Logged(log) => \E j \in 1..Len(log) : log[j].t = t
    BY DEF Logged
  <2> QED
    BY <1>1, <1>3, <2>1, <2>2 DEF Kept
<1> QED
  BY <1>1, <1>2, <1>3

(* A recovered transaction is queued and the checkpoint follows it. *)
LEMMA CommitRecoveredLosses == ASSUME Inv, Inv', Losses, CommitRecovered PROVE Losses'
<1>1. /\ UNCHANGED <<lost, tasks, disp, notif, wire, chain, conn>> /\ conn = "committing"
      /\ rec # <<>> /\ rec' = Tail(rec) /\ cp' = Head(rec)
  BY DEF CommitRecovered, ingress
<1> DEFINE e == [t |-> Head(rec), src |-> "recovery", g |-> gen]
<1>2. log' = Append(log, e) /\ e.t = Head(rec)
  BY DEF CommitRecovered
<1>3. tasks = <<>> /\ disp.st = "none" /\ ~Holds /\ Blocked = {} /\ Blocked' = {}
  BY <1>1 DEF Inv, Shape, Quiet, Handshake, Blocked, Holds
<1>4. GivenUp' = GivenUp
  BY <1>1 DEF GivenUp
<1>5. /\ Head(rec) = rec[1] /\ rec[1] \in Nat
      /\ Len(rec) \in Nat \ {0} /\ Len(rec') = Len(rec) - 1
      /\ \A j \in 1..Len(rec') : rec'[j] = rec[j + 1]
  BY <1>1, HeadTail, Bounds DEF Inv, Types, Buffers
<1>6. log \in Seq(Entries(chain)) /\ e \in Entries(chain)
  <2>1. Head(rec) \in 1..chain
    BY <1>1, HeadTail DEF Inv, Types, Buffers
  <2> QED
    BY <2>1 DEF Entries, Inv, Types, Queue, Numbers
<1> HIDE DEF e
<1>7. Logged(log)' = Logged(log) \cup {Head(rec)}
  BY <1>2, <1>6, LogAdds
<1>8. Kept' = Kept \cup {Head(rec)}
  BY <1>4, <1>7 DEF Kept
<1>9. \A t \in 1..rec[1] : t \in Kept \/ t = rec[1]
  BY <1>1, <1>5 DEF Losses, RecClosed
<1>10. LogClosed'
  <2>1. \A t \in 1..e.t - 1 : t \in Kept
    BY <1>2, <1>5, <1>9
  <2> QED
    BY <1>2, <1>4, <1>5, <1>6, <2>1, LogStaysClosed
<1>11. LossesAreKnown'
  BY <1>1, <1>3, <1>5, <1>8, <1>9 DEF LossesAreKnown, Kept
<1>12. RecClosed'
  <2>1. ASSUME NEW n \in 1..Len(rec), NEW j \in 1..n, j # 1
        PROVE  j - 1 \in 1..n - 1 /\ rec'[j - 1] = rec[j]
    BY <1>5, <2>1
  <2>2. ASSUME NEW i \in 1..Len(rec'), NEW t \in 1..rec'[i]
        PROVE  t \in Kept' \/ \E j \in 1..i : rec'[j] = t
    <3>1. i + 1 \in 1..Len(rec) /\ t \in 1..rec[i + 1]
      BY <1>5
    <3>2. t \in Kept \/ \E j \in 1..i + 1 : rec[j] = t
      BY <1>1, <3>1 DEF Losses, RecClosed
    <3>3. \A j \in 1..i + 1 : j # 1 => j - 1 \in 1..i /\ rec'[j - 1] = rec[j]
      BY <1>5, <3>1
    <3> QED
      BY <1>5, <1>8, <3>2, <3>3
  <2>3. ASSUME NEW t \in 1..wire - 1
        PROVE  t \in Kept' \/ \E j \in 1..Len(rec') : rec'[j] = t
    <3>1. t \in Kept \/ \E j \in 1..Len(rec) : rec[j] = t
      BY <1>1 DEF Losses, RecClosed
    <3>2. \A j \in 1..Len(rec) : j # 1 => j - 1 \in 1..Len(rec') /\ rec'[j - 1] = rec[j]
      BY <1>5
    <3> QED
      BY <1>5, <1>8, <3>1, <3>2
  <2> QED
    BY <1>1, <2>2, <2>3 DEF RecClosed
<1>13. TasksClosed' /\ ~Dispatching'
  BY <1>1, <1>3 DEF TasksClosed, Dispatching
<1> QED
  BY <1>10, <1>11, <1>12, <1>13 DEF Losses, HeldClosed, NotifClosed, BufClosed, WireClosed

(* The tasks that are left wait for what they waited for. *)
LEMMA TasksStayClosed ==
    ASSUME Losses, Known \subseteq Known', Len(tasks) \in Nat, Len(tasks') \in Nat, Len(tasks') <= Len(tasks),
           \A j \in 1..Len(tasks') : tasks'[j].item = tasks[j].item
    PROVE  TasksClosed'
<1> SUFFICES ASSUME NEW k \in 1..Len(tasks'), NEW t \in 1..tasks'[k].item.t - 1
             PROVE  t \in Known' \/ \E j \in 1..k - 1 : tasks'[j].item.t = t
  BY DEF TasksClosed
<1>1. k \in 1..Len(tasks) /\ tasks'[k].item = tasks[k].item
  OBVIOUS
<1>2. t \in Known \/ \E j \in 1..k - 1 : tasks[j].item.t = t
  BY <1>1 DEF Losses, TasksClosed
<1>3. \A j \in 1..k - 1 : tasks'[j].item = tasks[j].item
  OBVIOUS
<1> QED
  BY <1>2, <1>3

(* The oldest notification is taken; without the fallback the checkpoint moves to it. *)
LEMMA DispatchTakeLosses == ASSUME Inv, Inv', Losses, DispatchTake PROVE Losses'
<1>1. /\ UNCHANGED <<log, lost, tasks, conn, rec, wire, buf, reconnect, logsOnly>> /\ disp.st = "run"
      /\ notif # <<>> /\ notif' = Tail(notif) /\ disp'.item = Head(notif)
      /\ \/ logsOnly /\ disp'.st = "permit" /\ cp' = cp
         \/ ~logsOnly /\ disp'.st = "put" /\ cp' = Head(notif).t
  BY DEF DispatchTake, socket, queue, flags
<1>2. /\ Head(notif) = notif[1] /\ notif[1].t \in Nat
      /\ Len(notif) \in Nat \ {0} /\ Len(notif') = Len(notif) - 1
      /\ \A j \in 1..Len(notif') : notif'[j] = notif[j + 1]
  BY <1>1, HeadTail, Bounds DEF Inv, Types, Ingress
<1> DEFINE n == notif[1].t
<1>3. /\ HeldTimes = {} /\ HeldTimes' = {n} /\ Holds' /\ ~Holds
  BY <1>1, <1>2 DEF HeldTimes, Holds
<1>4. GivenUp' = GivenUp /\ Logged(log)' = Logged(log) /\ TaskTimes' = TaskTimes
  BY <1>1 DEF GivenUp, Logged, TaskTimes
<1>5. Blocked \subseteq Blocked' /\ (~logsOnly => n \in Blocked')
  BY <1>1, <1>2 DEF Blocked
<1>6. Known \subseteq Known' /\ Kept' = Kept /\ (~logsOnly => n \in Known')
  BY <1>4, <1>5 DEF Known, Kept
<1>7. Dispatching' => Dispatching
  BY <1>1 DEF Dispatching
<1>8. Dispatching => \A t \in 1..n - 1 : t \in Known \cup TaskTimes
  BY <1>2, <1>3 DEF Losses, NotifClosed
<1>9. NotifTimes \subseteq NotifTimes' \cup {n}
  <2> SUFFICES ASSUME NEW j \in 1..Len(notif), j # 1 PROVE notif[j].t \in NotifTimes'
    BY DEF NotifTimes
  <2>1. j - 1 \in 1..Len(notif') /\ notif'[j - 1] = notif[j]
    BY <1>2
  <2> QED
    BY <2>1 DEF NotifTimes
<1> HIDE DEF n
<1>10. LossesAreKnown'
  <2>1. CASE logsOnly
    BY <1>1, <1>4, <1>5, <2>1 DEF Losses, LossesAreKnown
  <2>2. CASE ~logsOnly
    <3>1. Dispatching /\ TaskTimes = {}
      BY <1>1, <2>2 DEF Inv, Shape, Dispatching, TaskTimes
    <3>2. \A t \in 1..n : t \in Known'
      BY <1>2, <1>6, <1>8, <2>2, <3>1 DEF n
    <3> QED
      BY <1>1, <1>2, <2>2, <3>2 DEF LossesAreKnown, Known, Kept, n
  <2> QED
    BY <2>1, <2>2
<1>11. LogClosed' /\ RecClosed'
  BY <1>1, <1>4, <1>6 DEF Losses, LogClosed, RecClosed
<1>12. TasksClosed'
  BY <1>1, <1>6, Bounds, TasksStayClosed
<1>13. HeldClosed'
  BY <1>1, <1>2, <1>4, <1>6, <1>7, <1>8 DEF HeldClosed, n
<1>14. NotifClosed'
  <2> SUFFICES ASSUME Dispatching, NEW k \in 1..Len(notif'), NEW t \in 1..notif'[k].t - 1
               PROVE  t \in Known' \cup TaskTimes' \cup {n} \/ \E j \in 1..k - 1 : notif'[j].t = t
    BY <1>3, <1>7 DEF NotifClosed
  <2>1. k + 1 \in 1..Len(notif) /\ t \in 1..notif[k + 1].t - 1
    BY <1>2
  <2>2. t \in Known \cup TaskTimes \/ \E j \in 1..k : notif[j].t = t
    BY <1>3, <2>1 DEF Losses, NotifClosed
  <2>3. \A j \in 1..k : j # 1 => j - 1 \in 1..k - 1 /\ notif'[j - 1] = notif[j]
    BY <1>2, <2>1
  <2> QED
    BY <1>4, <1>6, <2>2, <2>3 DEF n
<1>15. BufClosed'
  BY <1>1, <1>3, <1>4, <1>6, <1>7, <1>9 DEF Losses, BufClosed
<1>16. WireClosed'
  <2>1. BufTimes' = BufTimes
    BY <1>1 DEF BufTimes
  <2> QED
    BY <1>1, <1>3, <1>4, <1>6, <1>7, <1>9, <2>1 DEF Losses, WireClosed
<1> QED
  BY <1>10, <1>11, <1>12, <1>13, <1>14, <1>15, <1>16 DEF Losses

(* A step after which as much is known and as much is ahead keeps what is   *)
(* behind the dispatcher closed.                                            *)
LEMMA AheadLosses ==
    ASSUME Losses, UNCHANGED <<conn, wire, buf, notif>>, Dispatching' => Dispatching,
           Known \cup TaskTimes \cup HeldTimes \subseteq Known' \cup TaskTimes' \cup HeldTimes'
    PROVE  NotifClosed' /\ BufClosed' /\ WireClosed'
<1>1. NotifTimes' = NotifTimes /\ BufTimes' = BufTimes
  BY DEF NotifTimes, BufTimes
<1>2. NotifClosed'
  BY DEF Losses, NotifClosed
<1>3. BufClosed'
  BY <1>1 DEF Losses, BufClosed
<1>4. WireClosed'
  BY <1>1 DEF Losses, WireClosed
<1> QED
  BY <1>2, <1>3, <1>4

(* The item the dispatcher holds is queued. *)
LEMMA DispatchPutLosses == ASSUME Inv, Inv', Losses, DispatchPut PROVE Losses'
<1>1. /\ UNCHANGED <<lost, tasks, conn, rec, wire, buf, notif, reconnect, cp>> /\ disp.st = "put" /\ disp' = Running
      /\ log' = Append(log, Entry(disp.item, baseline))
  BY DEF DispatchPut, socket, point, flags
<1> DEFINE n == disp.item.t
<1>2. Holds /\ ~Holds' /\ HeldTimes' = {} /\ HeldTimes = {n}
  BY <1>1 DEF Holds, HeldTimes, Running
<1>3. ~logsOnly /\ tasks = <<>> /\ Dispatching /\ TaskTimes = {} /\ TaskTimes' = {}
  BY <1>1 DEF Inv, Shape, Booleans, Types, Dispatching, TaskTimes
<1>4. Blocked = {n} /\ Blocked' = {}
  BY <1>1, <1>3 DEF Blocked, Running
<1>5. log \in Seq(Entries(chain)) /\ Entry(disp.item, baseline) \in Entries(chain)
      /\ Entry(disp.item, baseline).t = n /\ n \in Nat
  <2>1. disp.item \in Taken(wire)
    BY <1>2 DEF Inv, Types, Ingress
  <2>2. n \in 1..chain /\ disp.item.g \in Nat
    BY <1>2, <2>1, Bounds DEF Taken
  <2> QED
    BY <2>2 DEF Entries, Entry, SourceOf, Inv, Types, Queue
<1>6. GivenUp' = GivenUp /\ Logged(log)' = Logged(log) \cup {n}
  BY <1>1, <1>5, LogAdds DEF GivenUp
<1>7. Known' = Known /\ Kept' = Kept \cup {n} /\ Known = Kept \cup {n}
  BY <1>4, <1>6 DEF Known, Kept
<1>8. \A t \in 1..n - 1 : t \in Kept
  <2>1. \A t \in 1..n - 1 : t \in Known /\ t # n
    BY <1>2, <1>3, <1>5 DEF Losses, HeldClosed
  <2> QED
    BY <1>7, <2>1
<1> HIDE DEF n
<1>9. LogClosed'
  BY <1>1, <1>5, <1>6, <1>8, LogStaysClosed
<1>10. LossesAreKnown' /\ RecClosed'
  BY <1>1, <1>4, <1>6, <1>7 DEF Losses, LossesAreKnown, RecClosed
<1>11. TasksClosed' /\ HeldClosed'
  BY <1>1, <1>2, <1>3 DEF TasksClosed, HeldClosed
<1>12. NotifClosed' /\ BufClosed' /\ WireClosed'
  <2>1. Known \cup TaskTimes \cup HeldTimes \subseteq Known' \cup TaskTimes' \cup HeldTimes'
    BY <1>2, <1>3, <1>7
  <2> QED
    BY <1>1, <1>3, <2>1, AheadLosses
<1> QED
  BY <1>9, <1>10, <1>11, <1>12 DEF Losses

(* The item the dispatcher holds becomes the youngest task. *)
LEMMA DispatchSpawnLosses == ASSUME Inv, Inv', Losses, DispatchSpawn PROVE Losses'
<1>1. /\ UNCHANGED <<log, lost, conn, rec, wire, buf, notif, reconnect, cp>> /\ disp.st = "permit" /\ ~reconnect
      /\ disp' = Running /\ tasks' = Append(tasks, [st |-> "fetch", item |-> disp.item])
  BY DEF DispatchSpawn, socket, point, queue, flags
<1> DEFINE n == disp.item.t
<1>2. Holds /\ ~Holds' /\ HeldTimes' = {} /\ HeldTimes = {n} /\ Dispatching
  BY <1>1 DEF Holds, HeldTimes, Running, Dispatching
<1>3. /\ Len(tasks') = Len(tasks) + 1 /\ Len(tasks) \in Nat
      /\ tasks'[Len(tasks) + 1] = [st |-> "fetch", item |-> disp.item]
      /\ \A j \in 1..Len(tasks) : tasks'[j] = tasks[j]
  <2>1. [st |-> "fetch", item |-> disp.item] \in Tasks(wire) /\ tasks \in Seq(Tasks(wire))
    BY <1>2 DEF Inv, Types, Ingress, Tasks
  <2> QED
    BY <1>1, <2>1, AppendTo
<1>4. TaskTimes' = TaskTimes \cup {n}
  BY <1>3 DEF TaskTimes
<1>5. GivenUp' = GivenUp /\ Logged(log)' = Logged(log)
  BY <1>1 DEF GivenUp, Logged
<1>6. Blocked' = Blocked
  BY <1>1, <1>3 DEF Blocked, Running
<1>7. Known' = Known /\ Kept' = Kept
  BY <1>5, <1>6 DEF Known, Kept
<1>8. \A t \in 1..n - 1 : t \in Known \cup TaskTimes
  BY <1>2 DEF Losses, HeldClosed
<1>9. LossesAreKnown' /\ LogClosed' /\ RecClosed'
  BY <1>1, <1>5, <1>6, <1>7 DEF Losses, LossesAreKnown, LogClosed, RecClosed
<1>10. TasksClosed'
  <2> SUFFICES ASSUME NEW k \in 1..Len(tasks'), NEW t \in 1..tasks'[k].item.t - 1
               PROVE  t \in Known \/ \E j \in 1..k - 1 : tasks'[j].item.t = t
    BY <1>7 DEF TasksClosed
  <2>1. CASE k \in 1..Len(tasks)
    <3>1. tasks'[k] = tasks[k] /\ \A j \in 1..k - 1 : tasks'[j] = tasks[j]
      BY <1>3, <2>1
    <3>2. t \in Known \/ \E j \in 1..k - 1 : tasks[j].item.t = t
      BY <2>1, <3>1 DEF Losses, TasksClosed
    <3> QED
      BY <3>1, <3>2
  <2>2. CASE k = Len(tasks) + 1
    <3>1. t \in Known \cup TaskTimes
      BY <1>3, <1>8, <2>2
    <3> QED
      BY <1>3, <2>2, <3>1 DEF TaskTimes
  <2> QED
    BY <1>3, <2>1, <2>2
<1>11. HeldClosed'
  BY <1>2 DEF HeldClosed
<1>12. NotifClosed' /\ BufClosed' /\ WireClosed'
  <2>1. Known \cup TaskTimes \cup HeldTimes \subseteq Known' \cup TaskTimes' \cup HeldTimes'
    BY <1>2, <1>4, <1>7
  <2> QED
    BY <1>1, <1>2, <2>1, AheadLosses
<1> QED
  BY <1>9, <1>10, <1>11, <1>12 DEF Losses

(* A fetched task waits for the tasks before it. *)
LEMMA FetchOkLosses == ASSUME Inv, Inv', Losses, NEW i \in 1..MaxTasks, FetchOk(i) PROVE Losses'
<1>1. /\ UNCHANGED <<log, lost, disp, conn, rec, wire, buf, notif, reconnect, cp>>
      /\ i \in 1..Len(tasks) /\ tasks[i].st = "fetch" /\ tasks' = [tasks EXCEPT ![i].st = "ready"]
  BY Bounds DEF FetchOk, socket, point, queue, flags
<1>2. /\ Len(tasks') = Len(tasks) /\ Len(tasks) \in Nat
      /\ \A j \in 1..Len(tasks) : tasks'[j].item = tasks[j].item /\ (tasks'[j].st = "put" <=> tasks[j].st = "put")
  <2>1. tasks \in Seq(Tasks(wire)) /\ \A j \in 1..Len(tasks) : tasks[j] \in Tasks(wire)
    BY Elements DEF Inv, Types, Ingress
  <2>2. /\ tasks'[i] = [tasks[i] EXCEPT !.st = "ready"]
        /\ \A j \in 1..Len(tasks) : j # i => tasks'[j] = tasks[j]
    BY <1>1, <2>1
  <2>3. tasks'[i].item = tasks[i].item /\ tasks'[i].st = "ready"
    BY <1>1, <2>1, <2>2 DEF Tasks
  <2> QED
    BY <1>1, <2>1, <2>2, <2>3
<1>3. TaskTimes' = TaskTimes /\ Blocked' = Blocked
  BY <1>1, <1>2 DEF TaskTimes, Blocked
<1>4. GivenUp' = GivenUp /\ Logged(log)' = Logged(log) /\ HeldTimes' = HeldTimes /\ (Holds' <=> Holds)
  BY <1>1 DEF GivenUp, Logged, HeldTimes, Holds
<1>5. Known' = Known /\ Kept' = Kept /\ (Dispatching' <=> Dispatching)
  BY <1>1, <1>3, <1>4 DEF Known, Kept, Dispatching
<1>6. LossesAreKnown' /\ LogClosed' /\ RecClosed'
  BY <1>1, <1>3, <1>4, <1>5 DEF Losses, LossesAreKnown, LogClosed, RecClosed
<1>7. TasksClosed'
  BY <1>2, <1>5, TasksStayClosed
<1>8. HeldClosed'
  BY <1>1, <1>3, <1>4, <1>5 DEF Losses, HeldClosed
<1>9. NotifClosed' /\ BufClosed' /\ WireClosed'
  BY <1>1, <1>3, <1>4, <1>5, AheadLosses
<1> QED
  BY <1>6, <1>7, <1>8, <1>9 DEF Losses

(* A failed fetch ends its task and the younger ones, with a reconnect asked for. *)
LEMMA FetchFailsLosses == ASSUME Inv, Inv', Losses, NEW i \in 1..MaxTasks, FetchFails(i) PROVE Losses'
<1>1. /\ UNCHANGED <<log, lost, disp, conn, rec, wire, buf, notif, cp>> /\ reconnect'
      /\ i \in 1..Len(tasks) /\ tasks[i].st = "fetch" /\ tasks' = SubSeq(tasks, 1, i - 1)
  BY Bounds DEF FetchFails, socket, point, queue
<1>2. /\ Len(tasks') = i - 1 /\ Len(tasks) \in Nat /\ \A j \in 1..i - 1 : tasks'[j] = tasks[j]
  <2>1. tasks \in Seq(Tasks(wire)) /\ i - 1 \in 0..Len(tasks)
    BY <1>1, Bounds DEF Inv, Types, Ingress
  <2> QED
    BY <1>1, <2>1, PrefixOf
<1>3. \A j \in 1..Len(tasks) : tasks[j].st = "put" => j \in 1..i - 1
  BY <1>1, <1>2 DEF Inv, Shape
<1>4. Blocked' = Blocked
  <2>1. {j \in 1..Len(tasks') : tasks'[j].st = "put"} = {j \in 1..Len(tasks) : tasks[j].st = "put"}
    BY <1>1, <1>2, <1>3
  <2>2. \A j \in {m \in 1..Len(tasks) : tasks[m].st = "put"} : tasks'[j] = tasks[j]
    BY <1>2, <1>3
  <2> QED
    BY <1>1, <2>1, <2>2 DEF Blocked
<1>5. GivenUp' = GivenUp /\ Logged(log)' = Logged(log)
  BY <1>1 DEF GivenUp, Logged
<1>6. Known' = Known /\ Kept' = Kept /\ ~Dispatching'
  BY <1>1, <1>4, <1>5 DEF Known, Kept, Dispatching
<1>7. LossesAreKnown' /\ LogClosed' /\ RecClosed'
  BY <1>1, <1>4, <1>5, <1>6 DEF Losses, LossesAreKnown, LogClosed, RecClosed
<1>8. TasksClosed'
  BY <1>1, <1>2, <1>6, TasksStayClosed
<1> QED
  BY <1>6, <1>7, <1>8 DEF Losses, HeldClosed, NotifClosed, BufClosed, WireClosed

(* The oldest task moves the checkpoint and blocks in queue.put. *)
LEMMA TaskObserveLosses == ASSUME Inv, Inv', Losses, NEW i \in 1..MaxTasks, TaskObserve(i) PROVE Losses'
<1>1. /\ UNCHANGED <<log, lost, disp, conn, rec, wire, buf, notif, reconnect>> /\ i = 1
      /\ 1 \in 1..Len(tasks) /\ cp' = tasks[1].item.t /\ tasks' = [tasks EXCEPT ![1].st = "put"]
  <2>1. tasks # <<>> => 1 \in 1..Len(tasks)
    BY Bounds DEF Inv, Types, Ingress
  <2> QED
    BY <2>1 DEF TaskObserve, MayDispatch, Observe, socket, queue, flags
<1>2. /\ Len(tasks') = Len(tasks) /\ Len(tasks) \in Nat /\ tasks'[1].st = "put"
      /\ \A j \in 1..Len(tasks) : tasks'[j].item = tasks[j].item /\ (tasks[j].st = "put" => tasks'[j].st = "put")
  <2>1. tasks \in Seq(Tasks(wire)) /\ \A j \in 1..Len(tasks) : tasks[j] \in Tasks(wire)
    BY Elements DEF Inv, Types, Ingress
  <2>2. /\ tasks'[1] = [tasks[1] EXCEPT !.st = "put"]
        /\ \A j \in 1..Len(tasks) : j # 1 => tasks'[j] = tasks[j]
    BY <1>1, <2>1
  <2>3. tasks'[1].item = tasks[1].item /\ tasks'[1].st = "put"
    BY <1>1, <2>1, <2>2 DEF Tasks
  <2> QED
    BY <1>1, <2>1, <2>2, <2>3
<1> DEFINE n == tasks[1].item.t
<1>3. TaskTimes' = TaskTimes /\ Blocked \cup {n} \subseteq Blocked'
  BY <1>1, <1>2 DEF TaskTimes, Blocked
<1>4. GivenUp' = GivenUp /\ Logged(log)' = Logged(log) /\ HeldTimes' = HeldTimes /\ (Holds' <=> Holds)
  BY <1>1 DEF GivenUp, Logged, HeldTimes, Holds
<1>5. Known \cup {n} \subseteq Known' /\ Kept' = Kept /\ (Dispatching' <=> Dispatching)
  BY <1>1, <1>3, <1>4 DEF Known, Kept, Dispatching
<1>6. LossesAreKnown'
  <2>1. n \in Nat /\ \A t \in 1..n - 1 : t \in Known
    BY <1>1, Bounds DEF Losses, TasksClosed
  <2>2. \A t \in 1..n : t \in Known'
    BY <1>5, <2>1
  <2> QED
    BY <1>1, <2>2 DEF LossesAreKnown, Known, Kept
<1> HIDE DEF n
<1>7. LogClosed' /\ RecClosed'
  BY <1>1, <1>4, <1>5 DEF Losses, LogClosed, RecClosed
<1>8. TasksClosed'
  BY <1>2, <1>5, TasksStayClosed
<1>9. HeldClosed'
  BY <1>1, <1>3, <1>4, <1>5 DEF Losses, HeldClosed
<1>10. NotifClosed' /\ BufClosed' /\ WireClosed'
  BY <1>1, <1>3, <1>4, <1>5, AheadLosses
<1> QED
  BY <1>6, <1>7, <1>8, <1>9, <1>10 DEF Losses

(* The oldest task is queued; the next one moves up. *)
LEMMA TaskPutLosses == ASSUME Inv, Inv', Losses, NEW i \in 1..MaxTasks, TaskPut(i) PROVE Losses'
<1>1. /\ UNCHANGED <<lost, disp, conn, rec, wire, buf, notif, reconnect, cp>>
      /\ i \in 1..Len(tasks) /\ tasks[i].st = "put"
      /\ log' = Append(log, Entry(tasks[i].item, baseline)) /\ tasks' = RemoveAt(tasks, i)
  BY Bounds DEF TaskPut, socket, point, flags
<1>2. i = 1 /\ disp.st # "put"
  BY <1>1 DEF Inv, Types, Booleans, Shape
<1>3. /\ Len(tasks) \in Nat \ {0} /\ Len(tasks') = Len(tasks) - 1
      /\ \A j \in 1..Len(tasks') : tasks'[j] = tasks[j + 1]
  <2>1. tasks \in Seq(Tasks(wire)) /\ tasks # <<>>
    BY <1>1 DEF Inv, Types, Ingress
  <2> QED
    BY <1>1, <1>2, <2>1, HeadTail, RemoveHead
<1> DEFINE n == tasks[1].item.t
<1>4. /\ log \in Seq(Entries(chain)) /\ Entry(tasks[1].item, baseline) \in Entries(chain)
      /\ Entry(tasks[1].item, baseline).t = n /\ n \in Nat
  <2>1. tasks[1].item \in Taken(wire)
    BY <1>1, <1>2, Elements
  <2>2. n \in 1..chain /\ tasks[1].item.g \in Nat
    BY <2>1, Bounds DEF Taken
  <2> QED
    BY <2>2 DEF Entries, Entry, SourceOf, Inv, Types, Queue
<1>5. Blocked = {n} /\ Blocked' = {}
  <2>1. \A j \in 1..Len(tasks) : tasks[j].st = "put" <=> j = 1
    BY <1>1, <1>2, <1>3 DEF Inv, Shape
  <2>2. \A j \in 1..Len(tasks') : tasks'[j].st # "put"
    BY <1>3, <2>1
  <2> QED
    BY <1>1, <1>2, <1>3, <2>1, <2>2 DEF Blocked
<1>6. GivenUp' = GivenUp /\ Logged(log)' = Logged(log) \cup {n}
  BY <1>1, <1>2, <1>4, LogAdds DEF GivenUp
<1>7. Known' = Known /\ Kept' = Kept \cup {n} /\ Known = Kept \cup {n}
  BY <1>5, <1>6 DEF Known, Kept
<1>8. TaskTimes \subseteq TaskTimes' \cup {n}
  <2> SUFFICES ASSUME NEW j \in 1..Len(tasks), j # 1 PROVE tasks[j].item.t \in TaskTimes'
    BY DEF TaskTimes
  <2>1. j - 1 \in 1..Len(tasks') /\ tasks'[j - 1] = tasks[j]
    BY <1>3
  <2> QED
    BY <2>1 DEF TaskTimes
<1>9. HeldTimes' = HeldTimes /\ (Holds' <=> Holds) /\ (Dispatching' <=> Dispatching)
  BY <1>1 DEF HeldTimes, Holds, Dispatching
<1>10. LogClosed'
  <2>1. \A t \in 1..n - 1 : t \in Known /\ t # n
    BY <1>1, <1>2, <1>4 DEF Losses, TasksClosed
  <2>2. \A t \in 1..n - 1 : t \in Kept
    BY <1>7, <2>1
  <2> HIDE DEF n
  <2> QED
    BY <1>1, <1>2, <1>4, <1>6, <2>2, LogStaysClosed
<1> HIDE DEF n
<1>11. LossesAreKnown' /\ RecClosed'
  BY <1>1, <1>5, <1>6, <1>7 DEF Losses, LossesAreKnown, RecClosed
<1>12. TasksClosed'
  <2> SUFFICES ASSUME NEW k \in 1..Len(tasks'), NEW t \in 1..tasks'[k].item.t - 1
               PROVE  t \in Known \/ \E j \in 1..k - 1 : tasks'[j].item.t = t
    BY <1>7 DEF TasksClosed
  <2>1. k + 1 \in 1..Len(tasks) /\ t \in 1..tasks[k + 1].item.t - 1
    BY <1>3
  <2>2. t \in Known \/ \E j \in 1..k : tasks[j].item.t = t
    BY <2>1 DEF Losses, TasksClosed
  <2>3. \A j \in 1..k : j # 1 => j - 1 \in 1..k - 1 /\ tasks'[j - 1] = tasks[j]
    BY <1>3, <2>1
  <2> QED
    BY <1>7, <2>2, <2>3 DEF n
<1>13. HeldClosed'
  BY <1>1, <1>7, <1>8, <1>9 DEF Losses, HeldClosed
<1>14. NotifClosed' /\ BufClosed' /\ WireClosed'
  <2>1. Known \cup TaskTimes \cup HeldTimes \subseteq Known' \cup TaskTimes' \cup HeldTimes'
    BY <1>7, <1>8, <1>9
  <2> QED
    BY <1>1, <1>9, <2>1, AheadLosses
<1> QED
  BY <1>10, <1>11, <1>12, <1>13, <1>14 DEF Losses

(* A new process knows the handled part of the queue, up to the checkpoint  *)
(* it restores from it.                                                     *)
LEMMA BootLosses == ASSUME Inv, Losses, Boot PROVE Losses'
<1>1. /\ lost' = lost /\ conn' = "down" /\ disp' = NoDisp /\ tasks' = <<>> /\ log' = SubSeq(log, 1, done)
      /\ \E k \in 1..done : cp' = log[k].t
  BY DEF Boot, Restored
<1>2. /\ done \in Nat /\ done <= Len(log) /\ Len(log') = done /\ \A j \in 1..done : log'[j] = log[j]
  <2>1. log \in Seq(Entries(chain)) /\ done \in 0..Len(log)
    BY DEF Inv, Types, Queue
  <2> QED
    BY <1>1, <2>1, PrefixOf
<1>3. GivenUp' = GivenUp
  BY <1>1 DEF GivenUp
<1>4. LogClosed'
  <2> SUFFICES ASSUME NEW k \in 1..Len(log'), NEW t \in 1..log'[k].t
               PROVE  t \in GivenUp \/ \E j \in 1..k : log'[j].t = t
    BY <1>3 DEF LogClosed
  <2>1. k \in 1..Len(log) /\ log'[k] = log[k] /\ \A j \in 1..k : log'[j] = log[j]
    BY <1>2, Bounds
  <2>2. t \in GivenUp \/ \E j \in 1..k : log[j].t = t
    BY <2>1 DEF Losses, LogClosed
  <2> QED
    BY <2>1, <2>2
<1>5. LossesAreKnown'
  <2>1. PICK k \in 1..done : cp' = log[k].t
    BY <1>1
  <2>2. k \in 1..Len(log') /\ cp' = log'[k].t
    BY <1>2, <2>1
  <2>3. \A t \in 1..cp' : t \in GivenUp' \/ \E j \in 1..k : log'[j].t = t
    BY <1>4, <2>2 DEF LogClosed
  <2>4. \A j \in 1..k : j \in 1..Len(log')
    BY <1>2, <2>2
  <2> QED
    BY <2>3, <2>4 DEF LossesAreKnown, Logged
<1>6. ~Dispatching' /\ TasksClosed' /\ RecClosed'
  BY <1>1 DEF Dispatching, NoDisp, TasksClosed, RecClosed
<1> QED
  BY <1>4, <1>5, <1>6 DEF Losses, HeldClosed, NotifClosed, BufClosed, WireClosed

(* The process is started again. *)
LEMMA StartLosses == ASSUME Inv, Inv', Losses, Start PROVE Losses'
BY BootLosses DEF Start

(* The process dies and is started again. *)
LEMMA CrashLosses == ASSUME Inv, Inv', Losses, Crash PROVE Losses'
BY BootLosses DEF Crash

(* The first transaction is handled and nothing else is received. *)
LEMMA InitLosses == Init => Losses
<1> SUFFICES ASSUME Init PROVE Losses
  OBVIOUS
<1>1. /\ log = <<[t |-> 1, src |-> "baseline", g |-> 0]>> /\ cp = 1 /\ tasks = <<>> /\ disp.st = "none"
      /\ conn = "down"
  BY DEF Init, NoDisp
<1>2. Len(log) = 1 /\ log[1].t = 1
  BY <1>1
<1>3. LossesAreKnown /\ LogClosed
  BY <1>1, <1>2 DEF LossesAreKnown, LogClosed, Logged
<1> QED
  BY <1>1, <1>3 DEF Losses, TasksClosed, RecClosed, Dispatching, HeldClosed, NotifClosed, BufClosed, WireClosed

(* Every step keeps the second layer. *)
LEMMA NextLosses == Inv /\ Inv' /\ Losses /\ [Next]_vars => Losses'
<1> SUFFICES ASSUME Inv, Inv', Losses, [Next]_vars PROVE Losses'
  OBVIOUS
<1>1. CASE UNCHANGED vars
  BY <1>1, InertLosses DEF vars, socket, ingress, point, queue, flags, Dispatching
<1>2. CASE Next
  BY <1>2, ProduceLosses, BufferMessageLosses, ReceiveLosses, DropLosses, ReconnectLosses,
     IngressOverflowLosses, OpenLosses, HoldLosses, UseLogsFallbackLosses,
     HandshakeOverflowLosses, SubscribedFreshLosses, AcceptGapLosses, SubscribedRecentLosses,
     RecoverGapLosses, GapTimeoutLosses, CommitRecoveredLosses, GapRecoveredLosses,
     GapRowFailsLosses, ReplayLosses, GoLiveLosses, DispatchTakeLosses, DispatchPutLosses,
     DispatchSpawnLosses, DispatchRefusedLosses, FetchOkLosses, FetchFailsLosses,
     TaskObserveLosses, TaskPutLosses, WorkerHandleLosses, WorkerFailsLosses,
     RefreshFreshnessLosses, WarmupElapsesLosses, AgeLosses, BeginStopLosses,
     StopTimesOutLosses, StoppedLosses, StartLosses, CrashLosses
     DEF Next
<1> QED
  BY <1>1, <1>2

(* Reconnects, retries, failed fetches and restarts lose nothing silently:  *)
(* what the checkpoint has passed is queued, being put or given up in one   *)
(* of the four known ways (_queue_transaction, _recover_gap).               *)
THEOREM SpecLossesAreKnown == Spec => []LossesAreKnown
<1>1. Losses => LossesAreKnown
  BY DEF Losses
<1> QED
  BY <1>1, InitLosses, NextLosses, SpecInv, PTL DEF Spec

-----------------------------------------------------------------------------
(* Proofs of layer 3 *)

(* What the provers need of the items: their times and generations are      *)
(* numbers.                                                                 *)
LEMMA ReceivedTypes ==
    ASSUME Inv
    PROVE  /\ gen \in Nat /\ wire \in Nat /\ \A x \in Received : x.t \in Nat /\ x.g \in Nat
           /\ \A k \in 1..Len(live) : live[k] \in 1..wire - 1
           /\ Len(live) \in Nat
<1>1. \A x \in Taken(wire) : x.t \in Nat /\ x.g \in Nat
  BY DEF Taken
<1>2. \A x \in Entries(chain) : x.t \in Nat /\ x.g \in Nat
  BY DEF Entries
<1>3. LogItems \subseteq Entries(chain)
  BY Elements DEF LogItems
<1>4. TaskItems \cup HeldItems \cup NotifItems \subseteq Taken(wire)
  <2>1. Holds => disp.item \in Taken(wire)
    BY DEF Inv, Types, Ingress
  <2> QED
    BY <2>1, Elements DEF TaskItems, HeldItems, NotifItems
<1>5. gen \in Nat /\ wire \in Nat
  BY Bounds DEF Inv, Types, Numbers
<1>6. \A S : \A q \in Seq(S) : Len(q) \in Nat /\ \A k \in 1..Len(q) : q[k] \in S
  OBVIOUS
<1>7. live \in Seq(1..wire - 1)
  BY DEF Inv, Types, Buffers
<1> QED
  BY <1>1, <1>2, <1>3, <1>4, <1>5, <1>6, <1>7 DEF Received

(* Taking items away keeps the order of the stages. *)
LEMMA FewerItems ==
    ASSUME Stages, LogItems' \subseteq LogItems, TaskItems' \subseteq TaskItems,
           HeldItems' \subseteq HeldItems, NotifItems' \subseteq NotifItems
    PROVE  Stages' /\ Received' \subseteq Received
<1>1. Received' \subseteq Received
  BY DEF Received
<1>2. Precede(LogItems', TaskItems' \cup HeldItems' \cup NotifItems')
  BY DEF Stages, Precede
<1>3. Precede(TaskItems', HeldItems' \cup NotifItems')
  BY DEF Stages, Precede
<1>4. Precede(HeldItems', NotifItems')
  BY DEF Stages, Precede
<1>5. Stages'
  BY <1>2, <1>3, <1>4 DEF Stages, Precede, Before
<1> QED
  BY <1>1, <1>5

(* A step that leaves the queues alone. *)
LEMMA InertOrder ==
    ASSUME Order, UNCHANGED <<log, tasks, disp, notif>>, BufRise',
           \A x \in Received : Past(x) => Past(x)'
    PROVE  Order'
<1>1. LogItems' = LogItems /\ TaskItems' = TaskItems /\ HeldItems' = HeldItems /\ NotifItems' = NotifItems
  BY DEF LogItems, TaskItems, HeldItems, NotifItems, Holds
<1>2. Stages' /\ Received' \subseteq Received
  BY <1>1, FewerItems DEF Order
<1>3. OrderedDispatch' /\ TasksRise' /\ NotifRise'
  BY DEF Order, OrderedDispatch, TasksRise, NotifRise, Before
<1>4. ReceivedIsPast'
  BY <1>2 DEF Order, ReceivedIsPast
<1> QED
  BY <1>2, <1>3, <1>4 DEF Order

(* The dispatcher is gone, the tasks are kept or gone, and so is the queue. *)
LEMMA CancelOrder ==
    ASSUME Order, log' = log, disp' = NoDisp, tasks' \in {tasks, <<>>}, notif' \in {notif, <<>>},
           BufRise', \A x \in Received : Past(x) => Past(x)'
    PROVE  Order'
<1>1. LogItems' = LogItems /\ HeldItems' = {}
  BY DEF LogItems, HeldItems, Holds, NoDisp
<1>2. TaskItems' \subseteq TaskItems /\ TasksRise'
  BY DEF TaskItems, TasksRise, Order, Before
<1>3. NotifItems' \subseteq NotifItems /\ NotifRise'
  BY DEF NotifItems, NotifRise, Order, Before
<1>4. Stages' /\ Received' \subseteq Received
  BY <1>1, <1>2, <1>3, FewerItems DEF Order
<1>5. OrderedDispatch'
  BY DEF Order, OrderedDispatch
<1>6. ReceivedIsPast'
  BY <1>4 DEF Order, ReceivedIsPast
<1> QED
  BY <1>2, <1>3, <1>4, <1>5, <1>6 DEF Order

(* Produce moves no item. *)
LEMMA ProduceOrder == ASSUME Inv, Inv', Order, Produce PROVE Order'
<1>1. UNCHANGED <<log, tasks, disp, notif, buf, live, gen, conn, wire>>
  BY DEF Produce, socket, ingress, point, queue, base, flags
<1>2. BufRise' /\ \A x : Past(x) => Past(x)'
  BY <1>1 DEF Order, BufRise, Past
<1> QED
  BY <1>1, <1>2, InertOrder

(* Hold moves no item. *)
LEMMA HoldOrder == ASSUME Inv, Inv', Order, Hold PROVE Order'
<1>1. UNCHANGED <<log, tasks, disp, notif, buf, live, gen, conn, wire>>
  BY DEF Hold, socket, ingress, point, queue, base, flags
<1>2. BufRise' /\ \A x : Past(x) => Past(x)'
  BY <1>1 DEF Order, BufRise, Past
<1> QED
  BY <1>1, <1>2, InertOrder

(* WorkerHandle moves no item. *)
LEMMA WorkerHandleOrder == ASSUME Inv, Inv', Order, WorkerHandle PROVE Order'
<1>1. UNCHANGED <<log, tasks, disp, notif, buf, live, gen, conn, wire>>
  BY DEF WorkerHandle, socket, ingress, point, queue, base, flags
<1>2. BufRise' /\ \A x : Past(x) => Past(x)'
  BY <1>1 DEF Order, BufRise, Past
<1> QED
  BY <1>1, <1>2, InertOrder

(* WorkerFails moves no item. *)
LEMMA WorkerFailsOrder == ASSUME Inv, Inv', Order, WorkerFails PROVE Order'
<1>1. UNCHANGED <<log, tasks, disp, notif, buf, live, gen, conn, wire>>
  BY DEF WorkerFails, socket, ingress, point, queue, base, flags
<1>2. BufRise' /\ \A x : Past(x) => Past(x)'
  BY <1>1 DEF Order, BufRise, Past
<1> QED
  BY <1>1, <1>2, InertOrder

(* RefreshFreshness moves no item. *)
LEMMA RefreshFreshnessOrder == ASSUME Inv, Inv', Order, RefreshFreshness PROVE Order'
<1>1. UNCHANGED <<log, tasks, disp, notif, buf, live, gen, conn, wire>>
  BY DEF RefreshFreshness, socket, ingress, point, queue, base, flags
<1>2. BufRise' /\ \A x : Past(x) => Past(x)'
  BY <1>1 DEF Order, BufRise, Past
<1> QED
  BY <1>1, <1>2, InertOrder

(* WarmupElapses moves no item. *)
LEMMA WarmupElapsesOrder == ASSUME Inv, Inv', Order, WarmupElapses PROVE Order'
<1>1. UNCHANGED <<log, tasks, disp, notif, buf, live, gen, conn, wire>>
  BY DEF WarmupElapses, socket, ingress, point, queue, base, flags
<1>2. BufRise' /\ \A x : Past(x) => Past(x)'
  BY <1>1 DEF Order, BufRise, Past
<1> QED
  BY <1>1, <1>2, InertOrder

(* Age moves no item. *)
LEMMA AgeOrder == ASSUME Inv, Inv', Order, Age PROVE Order'
<1>1. UNCHANGED <<log, tasks, disp, notif, buf, live, gen, conn, wire>>
  BY DEF Age, socket, ingress, point, queue, base, flags
<1>2. BufRise' /\ \A x : Past(x) => Past(x)'
  BY <1>1 DEF Order, BufRise, Past
<1> QED
  BY <1>1, <1>2, InertOrder

(* The handshake goes on to the recovery. *)
LEMMA SubscribedRecentOrder == ASSUME Inv, Inv', Order, SubscribedRecent PROVE Order'
<1>1. UNCHANGED <<log, tasks, disp, notif, buf, live, gen, wire>> /\ conn \in Handshake /\ conn' \in Handshake
  BY DEF SubscribedRecent, Handshake, socket, ingress, point, queue, base, flags
<1>2. BufRise'
  BY <1>1 DEF Order, BufRise
<1>3. \A x \in Received : Past(x) => Past(x)'
  BY <1>1, ReceivedTypes DEF Past, Handshake
<1> QED
  BY <1>1, <1>2, <1>3, InertOrder

(* The first item of the connection is still to come. *)
LEMMA SubscribedFreshOrder == ASSUME Inv, Inv', Order, SubscribedFresh PROVE Order'
<1>1. UNCHANGED <<log, tasks, disp, notif, buf, live, gen, wire>> /\ conn \in Handshake /\ conn' = "replaying"
  BY DEF SubscribedFresh, Handshake, socket, ingress, point, queue, base, flags
<1>2. BufRise'
  BY <1>1 DEF Order, BufRise
<1>3. \A x \in Received : Past(x) => Past(x)'
  BY <1>1, ReceivedTypes DEF Past, Handshake
<1> QED
  BY <1>1, <1>2, <1>3, InertOrder

(* The first item of the connection is still to come. *)
LEMMA GapRecoveredOrder == ASSUME Inv, Inv', Order, GapRecovered PROVE Order'
<1>1. UNCHANGED <<log, tasks, disp, notif, buf, live, gen, wire>> /\ conn \in Handshake /\ conn' = "replaying"
  BY DEF GapRecovered, Handshake, socket, ingress, point, queue, base, flags
<1>2. BufRise'
  BY <1>1 DEF Order, BufRise
<1>3. \A x \in Received : Past(x) => Past(x)'
  BY <1>1, ReceivedTypes DEF Past, Handshake
<1> QED
  BY <1>1, <1>2, <1>3, InertOrder

(* The buffer is replayed. *)
LEMMA GoLiveOrder == ASSUME Inv, Inv', Order, GoLive PROVE Order'
<1>1. UNCHANGED <<log, tasks, disp, notif, buf, live, gen, wire>> /\ conn = "replaying" /\ conn' = "live"
  BY DEF GoLive, Handshake, socket, ingress, point, queue, base, flags
<1>2. BufRise'
  BY <1>1 DEF Order, BufRise
<1>3. \A x \in Received : Past(x) => Past(x)'
  BY <1>1, ReceivedTypes DEF Past, Handshake
<1> QED
  BY <1>1, <1>2, <1>3, InertOrder

(* A new generation. *)
LEMMA OpenOrder == ASSUME Inv, Inv', Order, Open PROVE Order'
<1>1. UNCHANGED <<log, tasks, disp, notif, buf, live>> /\ conn' = "subscribing" /\ gen' = gen + 1
  BY DEF Open, BeginBaseline, Handshake, socket, ingress, point, queue, base, flags
<1>2. BufRise'
  BY <1>1 DEF Order, BufRise
<1>3. \A x \in Received : Past(x) => Past(x)'
  BY <1>1, ReceivedTypes DEF Past, Handshake
<1> QED
  BY <1>1, <1>2, <1>3, InertOrder

(* A new generation without a checkpoint. *)
LEMMA AcceptGapOrder == ASSUME Inv, Inv', Order, AcceptGap PROVE Order'
<1>1. UNCHANGED <<log, tasks, disp, notif, buf, live, wire>> /\ conn' = "replaying" /\ gen' = gen + 1
  BY DEF AcceptGap, BeginBaseline, Handshake, socket, ingress, point, queue, base, flags
<1>2. BufRise'
  BY <1>1 DEF Order, BufRise
<1>3. \A x \in Received : Past(x) => Past(x)'
  BY <1>1, ReceivedTypes DEF Past, Handshake
<1> QED
  BY <1>1, <1>2, <1>3, InertOrder

(* A stop moves no item. *)
LEMMA BeginStopOrder == ASSUME Inv, Inv', Order, BeginStop PROVE Order'
<1>1. UNCHANGED <<log, tasks, disp, notif, gen, wire, buf>> /\ live' = <<>> /\ conn' = "stopping"
  BY DEF BeginStop, ingress, queue, base
<1>2. BufRise'
  BY <1>1 DEF Order, BufRise
<1>3. \A x \in Received : Past(x) => Past(x)'
  BY <1>1 DEF Past, Handshake
<1> QED
  BY <1>1, <1>2, <1>3, InertOrder

(* A message is buffered behind those before it. *)
LEMMA BufferMessageOrder == ASSUME Inv, Inv', Order, BufferMessage PROVE Order'
<1>1. /\ UNCHANGED <<log, tasks, disp, notif, gen, conn>> /\ conn \in Handshake /\ wire \in Nat
      /\ \/ buf' = Append(buf, wire) /\ live' = live /\ live = <<>>
         \/ live' = Append(live, wire) /\ buf' = buf
  BY ReceivedTypes DEF BufferMessage, ingress, queue, base, Handshake, Inv, Shape
<1>2. BufRise'
  <2>0. /\ Len(buf) \in Nat /\ Len(live) \in Nat /\ buf \in Seq(Nat) /\ live \in Seq(Nat)
        /\ \A j \in 1..Len(buf) : buf[j] < wire /\ buf[j] \in Nat
        /\ \A j \in 1..Len(live) : live[j] < wire /\ live[j] \in Nat
    <3>1. buf \in Seq(Nat) /\ live \in Seq(Nat)
      BY SeqWiden, 1..wire - 1 \subseteq Nat DEF Inv, Types, Buffers
    <3>2. \A n \in 1..wire - 1 : n < wire /\ n \in Nat
      BY <1>1
    <3> QED
      BY <3>1, <3>2, Bounds, ReceivedTypes
  <2>1. CASE buf' = Append(buf, wire) /\ live' = live /\ live = <<>>
    <3>1. /\ Len(buf') = Len(buf) + 1 /\ buf'[Len(buf) + 1] = wire /\ \A j \in 1..Len(buf) : buf'[j] = buf[j]
      BY <1>1, <2>0, <2>1, AppendTo
    <3> QED
      BY <2>0, <2>1, <3>1 DEF Order, BufRise
  <2>2. CASE live' = Append(live, wire) /\ buf' = buf
    <3>1. /\ Len(live') = Len(live) + 1 /\ live'[Len(live) + 1] = wire /\ \A j \in 1..Len(live) : live'[j] = live[j]
      BY <1>1, <2>0, <2>2, AppendTo
    <3> QED
      BY <2>0, <2>2, <3>1 DEF Order, BufRise
  <2> QED
    BY <1>1, <2>1, <2>2
<1>3. \A x \in Received : Past(x) => Past(x)'
  BY <1>1 DEF Past, Handshake
<1> QED
  BY <1>1, <1>2, <1>3, InertOrder

(* The messages of the recovery follow those of the handshake. *)
LEMMA RecoverGapOrder == ASSUME Inv, Inv', Order, RecoverGap PROVE Order'
<1>1. /\ UNCHANGED <<log, tasks, disp, notif, gen>> /\ conn \in Handshake /\ conn' \in Handshake
      /\ buf' = buf \o live /\ live' = <<>>
  BY DEF RecoverGap, ingress, queue, base, Handshake
<1>2. BufRise'
  <2>1. buf \in Seq(Nat) /\ live \in Seq(Nat)
    BY SeqWiden, 1..wire - 1 \subseteq Nat DEF Inv, Types, Buffers
  <2>2. /\ Len(buf') = Len(buf) + Len(live) /\ Len(buf) \in Nat /\ Len(live) \in Nat
        /\ \A j \in 1..Len(buf') : buf'[j] = IF j <= Len(buf) THEN buf[j] ELSE live[j - Len(buf)]
    BY <1>1, <2>1
  <2> SUFFICES ASSUME NEW j \in 1..Len(buf'), NEW k \in 1..Len(buf'), j < k PROVE buf'[j] < buf'[k]
    BY <1>1 DEF BufRise
  <2>3. CASE k <= Len(buf)
    BY <2>2, <2>3 DEF Order, BufRise
  <2>4. CASE j <= Len(buf) /\ Len(buf) < k
    <3>1. j \in 1..Len(buf) /\ k - Len(buf) \in 1..Len(live)
      BY <2>2, <2>4
    <3>2. buf[j] < live[k - Len(buf)]
      BY <3>1 DEF Order, BufRise
    <3> QED
      BY <2>2, <2>4, <3>2
  <2>5. CASE Len(buf) < j
    <3>1. j - Len(buf) \in 1..Len(live) /\ k - Len(buf) \in 1..Len(live) /\ j - Len(buf) < k - Len(buf)
      BY <2>2, <2>5
    <3>2. live[j - Len(buf)] < live[k - Len(buf)]
      BY <3>1 DEF Order, BufRise
    <3> QED
      BY <2>2, <2>5, <3>2
  <2> QED
    BY <2>2, <2>3, <2>4, <2>5
<1>3. \A x \in Received : Past(x) => Past(x)'
  BY <1>1 DEF Past, Handshake
<1> QED
  BY <1>1, <1>2, <1>3, InertOrder

(* Drop only drops items. *)
LEMMA DropOrder == ASSUME Inv, Inv', Order, Drop PROVE Order'
<1>1. /\ log' = log /\ disp' = NoDisp /\ tasks' \in {tasks, <<>>} /\ notif' \in {notif, <<>>} /\ gen' = gen
      /\ buf' \in {buf, <<>>} /\ live' \in {live, <<>>} /\ conn' \notin Handshake \cup {"replaying", "live"}
  BY DEF Drop, Leave, CancelDispatch, Handshake, socket, ingress, point, queue, base, flags
<1>2. BufRise'
  BY <1>1 DEF Order, BufRise
<1>3. \A x \in Received : Past(x) => Past(x)'
  BY <1>1 DEF Past
<1> QED
  BY <1>1, <1>2, <1>3, CancelOrder

(* Reconnect only drops items. *)
LEMMA ReconnectOrder == ASSUME Inv, Inv', Order, Reconnect PROVE Order'
<1>1. /\ log' = log /\ disp' = NoDisp /\ tasks' \in {tasks, <<>>} /\ notif' \in {notif, <<>>} /\ gen' = gen
      /\ buf' \in {buf, <<>>} /\ live' \in {live, <<>>} /\ conn' \notin Handshake \cup {"replaying", "live"}
  BY DEF Reconnect, Leave, CancelDispatch, Handshake, socket, ingress, point, queue, base, flags
<1>2. BufRise'
  BY <1>1 DEF Order, BufRise
<1>3. \A x \in Received : Past(x) => Past(x)'
  BY <1>1 DEF Past
<1> QED
  BY <1>1, <1>2, <1>3, CancelOrder

(* IngressOverflow only drops items. *)
LEMMA IngressOverflowOrder == ASSUME Inv, Inv', Order, IngressOverflow PROVE Order'
<1>1. /\ log' = log /\ disp' = NoDisp /\ tasks' \in {tasks, <<>>} /\ notif' \in {notif, <<>>} /\ gen' = gen
      /\ buf' \in {buf, <<>>} /\ live' \in {live, <<>>} /\ conn' \notin Handshake \cup {"replaying", "live"}
  BY DEF IngressOverflow, Handshake, socket, ingress, point, queue, base, flags
<1>2. BufRise'
  BY <1>1 DEF Order, BufRise
<1>3. \A x \in Received : Past(x) => Past(x)'
  BY <1>1 DEF Past
<1> QED
  BY <1>1, <1>2, <1>3, CancelOrder

(* UseLogsFallback only drops items. *)
LEMMA UseLogsFallbackOrder == ASSUME Inv, Inv', Order, UseLogsFallback PROVE Order'
<1>1. /\ log' = log /\ disp' = NoDisp /\ tasks' \in {tasks, <<>>} /\ notif' \in {notif, <<>>} /\ gen' = gen
      /\ buf' \in {buf, <<>>} /\ live' \in {live, <<>>} /\ conn' \notin Handshake \cup {"replaying", "live"}
  BY DEF UseLogsFallback, Leave, CancelDispatch, Handshake, socket, ingress, point, queue, base, flags
<1>2. BufRise'
  BY <1>1 DEF Order, BufRise
<1>3. \A x \in Received : Past(x) => Past(x)'
  BY <1>1 DEF Past
<1> QED
  BY <1>1, <1>2, <1>3, CancelOrder

(* HandshakeOverflow only drops items. *)
LEMMA HandshakeOverflowOrder == ASSUME Inv, Inv', Order, HandshakeOverflow PROVE Order'
<1>1. /\ log' = log /\ disp' = NoDisp /\ tasks' \in {tasks, <<>>} /\ notif' \in {notif, <<>>} /\ gen' = gen
      /\ buf' \in {buf, <<>>} /\ live' \in {live, <<>>} /\ conn' \notin Handshake \cup {"replaying", "live"}
  BY DEF HandshakeOverflow, Leave, CancelDispatch, Handshake, socket, ingress, point, queue, base, flags
<1>2. BufRise'
  BY <1>1 DEF Order, BufRise
<1>3. \A x \in Received : Past(x) => Past(x)'
  BY <1>1 DEF Past
<1> QED
  BY <1>1, <1>2, <1>3, CancelOrder

(* GapTimeout only drops items. *)
LEMMA GapTimeoutOrder == ASSUME Inv, Inv', Order, GapTimeout PROVE Order'
<1>1. /\ log' = log /\ disp' = NoDisp /\ tasks' \in {tasks, <<>>} /\ notif' \in {notif, <<>>} /\ gen' = gen
      /\ buf' \in {buf, <<>>} /\ live' \in {live, <<>>} /\ conn' \notin Handshake \cup {"replaying", "live"}
  BY DEF GapTimeout, CancelDispatch, Handshake, socket, ingress, point, queue, base, flags
<1>2. BufRise'
  BY <1>1 DEF Order, BufRise
<1>3. \A x \in Received : Past(x) => Past(x)'
  BY <1>1 DEF Past
<1> QED
  BY <1>1, <1>2, <1>3, CancelOrder

(* GapRowFails only drops items. *)
LEMMA GapRowFailsOrder == ASSUME Inv, Inv', Order, GapRowFails PROVE Order'
<1>1. /\ log' = log /\ disp' = NoDisp /\ tasks' \in {tasks, <<>>} /\ notif' \in {notif, <<>>} /\ gen' = gen
      /\ buf' \in {buf, <<>>} /\ live' \in {live, <<>>} /\ conn' \notin Handshake \cup {"replaying", "live"}
  BY DEF GapRowFails, CancelDispatch, Handshake, socket, ingress, point, queue, base, flags
<1>2. BufRise'
  BY <1>1 DEF Order, BufRise
<1>3. \A x \in Received : Past(x) => Past(x)'
  BY <1>1 DEF Past
<1> QED
  BY <1>1, <1>2, <1>3, CancelOrder

(* StopTimesOut only drops items. *)
LEMMA StopTimesOutOrder == ASSUME Inv, Inv', Order, StopTimesOut PROVE Order'
<1>1. /\ log' = log /\ disp' = NoDisp /\ tasks' \in {tasks, <<>>} /\ notif' \in {notif, <<>>} /\ gen' = gen
      /\ buf' \in {buf, <<>>} /\ live' \in {live, <<>>} /\ conn' \notin Handshake \cup {"replaying", "live"}
  BY DEF StopTimesOut, CancelDispatch, Handshake, socket, ingress, point, queue, base, flags
<1>2. BufRise'
  BY <1>1 DEF Order, BufRise
<1>3. \A x \in Received : Past(x) => Past(x)'
  BY <1>1 DEF Past
<1> QED
  BY <1>1, <1>2, <1>3, CancelOrder

(* Stopped only drops items. *)
LEMMA StoppedOrder == ASSUME Inv, Inv', Order, Stopped PROVE Order'
<1>1. /\ log' = log /\ disp' = NoDisp /\ tasks' \in {tasks, <<>>} /\ notif' \in {notif, <<>>} /\ gen' = gen
      /\ buf' \in {buf, <<>>} /\ live' \in {live, <<>>} /\ conn' \notin Handshake \cup {"replaying", "live"}
  BY DEF Stopped, Handshake, socket, ingress, point, queue, base, flags
<1>2. BufRise'
  BY <1>1 DEF Order, BufRise
<1>3. \A x \in Received : Past(x) => Past(x)'
  BY <1>1 DEF Past
<1> QED
  BY <1>1, <1>2, <1>3, CancelOrder

(* DispatchRefused only drops items. *)
LEMMA DispatchRefusedOrder == ASSUME Inv, Inv', Order, DispatchRefused PROVE Order'
<1>1. /\ log' = log /\ disp' = NoDisp /\ tasks' \in {tasks, <<>>} /\ notif' \in {notif, <<>>} /\ gen' = gen
      /\ buf' \in {buf, <<>>} /\ live' \in {live, <<>>} /\ UNCHANGED <<conn, wire, buf>>
  BY DEF DispatchRefused, Handshake, socket, ingress, point, queue, base, flags
<1>2. BufRise'
  BY <1>1 DEF Order, BufRise
<1>3. \A x \in Received : Past(x) => Past(x)'
  BY <1>1 DEF Past
<1> QED
  BY <1>1, <1>2, <1>3, CancelOrder

(* An entry that every queued item of its generation precedes. *)
LEMMA LogGrows ==
    ASSUME OrderedDispatch, NEW S, log \in Seq(S), NEW e \in S, log' = Append(log, e),
           e.src # "recovery" => Precede(LogItems, {e})
    PROVE  /\ OrderedDispatch'
           /\ LogItems' = LogItems \cup (IF e.src # "recovery" THEN {e} ELSE {})
<1>1. /\ Len(log') = Len(log) + 1 /\ Len(log) \in Nat /\ log'[Len(log) + 1] = e
      /\ \A j \in 1..Len(log) : log'[j] = log[j]
  BY AppendTo
<1>2. LogItems' = LogItems \cup (IF e.src # "recovery" THEN {e} ELSE {})
  <2>1. \A x : x \in LogItems' <=> \E j \in 1..Len(log') : log'[j].src # "recovery" /\ x = log'[j]
    BY DEF LogItems
  <2>2. \A x : x \in LogItems <=> \E j \in 1..Len(log) : log[j].src # "recovery" /\ x = log[j]
    BY DEF LogItems
  <2>3. \A j \in 1..Len(log') : j \in 1..Len(log) \/ j = Len(log) + 1
    BY <1>1
  <2>4. 1..Len(log) \subseteq 1..Len(log') /\ Len(log) + 1 \in 1..Len(log')
    BY <1>1
  <2>5. \A x : x \in LogItems' <=> x \in LogItems \/ (e.src # "recovery" /\ x = e)
    BY <1>1, <2>1, <2>2, <2>3, <2>4
  <2> QED
    BY <2>5
<1>3. ASSUME NEW j \in 1..Len(log'), NEW k \in 1..Len(log'), j < k, log'[j].g = log'[k].g,
             log'[j].src # "recovery", log'[k].src # "recovery"
      PROVE  log'[j].t < log'[k].t
  <2>1. CASE k \in 1..Len(log)
    BY <1>1, <1>3, <2>1 DEF OrderedDispatch
  <2>2. CASE k = Len(log) + 1
    <3>1. j \in 1..Len(log) /\ log'[j] = log[j] /\ log'[k] = e
      BY <1>1, <1>3, <2>2
    <3>2. log[j] \in LogItems /\ e.src # "recovery"
      BY <1>3, <3>1 DEF LogItems
    <3> QED
      BY <1>3, <3>1, <3>2 DEF Precede, Before
  <2> QED
    BY <1>1, <2>1, <2>2
<1>4. OrderedDispatch'
  BY <1>3 DEF OrderedDispatch
<1> QED
  BY <1>2, <1>4

(* A recovered transaction is outside the order of the live ones. *)
LEMMA CommitRecoveredOrder == ASSUME Inv, Inv', Order, CommitRecovered PROVE Order'
<1> DEFINE e == [t |-> Head(rec), src |-> "recovery", g |-> gen]
<1>1. /\ UNCHANGED <<tasks, disp, notif, buf, live, gen, conn, wire>> /\ log' = Append(log, e)
  BY DEF CommitRecovered, ingress, base
<1>2. log \in Seq(Entries(chain)) /\ e \in Entries(chain) /\ e.src = "recovery"
  <2>1. Head(rec) \in 1..chain
    BY HeadTail DEF CommitRecovered, Inv, Types, Buffers
  <2> QED
    BY <2>1 DEF Entries, Inv, Types, Queue, Numbers
<1> HIDE DEF e
<1>3. OrderedDispatch' /\ LogItems' = LogItems
  BY <1>1, <1>2, LogGrows DEF Order
<1>4. TaskItems' = TaskItems /\ HeldItems' = HeldItems /\ NotifItems' = NotifItems
  BY <1>1 DEF TaskItems, HeldItems, NotifItems, Holds
<1>5. Stages' /\ Received' \subseteq Received
  BY <1>3, <1>4, FewerItems DEF Order
<1>6. TasksRise' /\ NotifRise' /\ BufRise'
  BY <1>1 DEF Order, TasksRise, NotifRise, BufRise, Before
<1>7. ReceivedIsPast'
  BY <1>1, <1>5 DEF Order, ReceivedIsPast, Past
<1> QED
  BY <1>3, <1>5, <1>6, <1>7 DEF Order

(* A notification stamped with this generation that comes after everything  *)
(* this generation has received.                                            *)
LEMMA EnqueueOrder ==
    ASSUME Inv, Order, UNCHANGED <<log, tasks, gen>>, disp' = disp \/ (disp.st = "none" /\ disp' = Running),
           NEW x \in Items, notif' = Append(notif, x), x.g = gen, BufRise',
           \A y \in Received : Before(y, x), Past(x)', \A y \in Received : Past(y) => Past(y)'
    PROVE  Order'
<1>1. LogItems' = LogItems /\ TaskItems' = TaskItems
  BY DEF LogItems, TaskItems
<1>2. HeldItems' = HeldItems
  <2>1. CASE disp' = disp
    BY <2>1 DEF HeldItems, Holds
  <2>2. CASE disp.st = "none" /\ disp' = Running
    BY <2>2 DEF HeldItems, Holds, Running
  <2> QED
    BY <2>1, <2>2
<1>3. /\ Len(notif') = Len(notif) + 1 /\ Len(notif) \in Nat /\ notif'[Len(notif) + 1] = x
      /\ \A j \in 1..Len(notif) : notif'[j] = notif[j]
  <2>1. notif \in Seq(Items)
    BY TypesAreOK DEF TypeOK
  <2> QED
    BY <2>1, AppendTo
<1>4. NotifItems' = NotifItems \cup {x}
  BY <1>3 DEF NotifItems
<1>5. Received' = Received \cup {x}
  BY <1>1, <1>2, <1>4 DEF Received
<1>6. /\ Precede(LogItems', TaskItems' \cup HeldItems' \cup NotifItems')
      /\ Precede(TaskItems', HeldItems' \cup NotifItems') /\ Precede(HeldItems', NotifItems')
  BY <1>1, <1>2, <1>4 DEF Order, Stages, Precede, Received
<1>7. Stages'
  BY <1>6 DEF Stages, Precede, Before
<1>8. NotifRise'
  <2> SUFFICES ASSUME NEW j \in 1..Len(notif'), NEW k \in 1..Len(notif'), j < k PROVE Before(notif'[j], notif'[k])
    BY DEF NotifRise, Before
  <2>1. CASE k \in 1..Len(notif)
    BY <1>3, <2>1 DEF Order, NotifRise
  <2>2. CASE k = Len(notif) + 1
    <3>1. j \in 1..Len(notif) /\ notif'[j] = notif[j] /\ notif'[k] = x
      BY <1>3, <2>2
    <3>2. notif[j] \in Received
      BY <3>1 DEF NotifItems, Received
    <3> QED
      BY <3>1, <3>2
  <2> QED
    BY <1>3, <2>1, <2>2
<1>9. OrderedDispatch' /\ TasksRise'
  BY DEF Order, OrderedDispatch, TasksRise, Before
<1>10. ReceivedIsPast'
  BY <1>5 DEF Order, ReceivedIsPast
<1> QED
  BY <1>7, <1>8, <1>9, <1>10 DEF Order

(* A live message comes after everything received. *)
LEMMA ReceiveOrder == ASSUME Inv, Inv', Order, Receive PROVE Order'
<1>1. /\ UNCHANGED <<log, tasks, gen, conn, buf, live>> /\ wire' = wire + 1 /\ conn = "live" /\ wire <= chain
      /\ disp' = disp \/ (disp.st = "none" /\ disp' = Running)
      /\ notif' = Append(notif, Stamp(wire))
  BY DEF Receive, EnqueueNotification, queue, base
<1>2. PICK x \in Items : x = Stamp(wire) /\ x.g = gen /\ x.t = wire
  <2>1. wire \in Txs
    BY <1>1, TypesAreOK, StreamAssumption DEF TypeOK, Txs
  <2>2. Stamp(wire) \in Items /\ Stamp(wire).g = gen /\ Stamp(wire).t = wire
    BY <2>1, ReceivedTypes DEF Stamp, Items
  <2> QED
    BY <2>2
<1>3. /\ \A y \in Received : Before(y, x) /\ (Past(y) => Past(y)')
      /\ Past(x)'
  <2>1. \A y \in Received : Before(y, x)
    BY <1>1, <1>2 DEF Order, ReceivedIsPast, Past, Before
  <2>2. \A y \in Received : Past(y) => Past(y)'
    BY <1>1, ReceivedTypes DEF Past, Handshake
  <2>3. Past(x)'
    BY <1>1, <1>2, ReceivedTypes DEF Past, Handshake
  <2> QED
    BY <2>1, <2>2, <2>3
<1>4. BufRise'
  BY <1>1 DEF Order, BufRise
<1> QED
  BY <1>1, <1>2, <1>3, <1>4, EnqueueOrder

(* A buffered message comes after everything received and before the rest of the buffer. *)
LEMMA ReplayOrder == ASSUME Inv, Inv', Order, Replay PROVE Order'
<1>1. /\ UNCHANGED <<log, tasks, gen, conn, wire, live>> /\ conn = "replaying" /\ buf # <<>> /\ buf' = Tail(buf)
      /\ disp' = disp \/ (disp.st = "none" /\ disp' = Running)
      /\ notif' = Append(notif, Stamp(Head(buf)))
  BY DEF Replay, EnqueueNotification, queue, base
<1>2. /\ Head(buf) = buf[1] /\ Len(buf) \in Nat \ {0} /\ Len(buf') = Len(buf) - 1
      /\ \A j \in 1..Len(buf') : buf'[j] = buf[j + 1]
      /\ buf[1] \in 1..wire - 1 /\ live = <<>>
  <2>1. buf \in Seq(1..wire - 1) /\ live = <<>>
    BY <1>1 DEF Inv, Types, Buffers, Shape
  <2> QED
    BY <1>1, <2>1, HeadTail
<1>3. PICK x \in Items : x = Stamp(Head(buf)) /\ x.g = gen /\ x.t = buf[1]
  <2>1. Head(buf) \in Txs
    BY <1>1, HeadTail, TypesAreOK DEF TypeOK
  <2>2. Stamp(Head(buf)) \in Items /\ Stamp(Head(buf)).g = gen /\ Stamp(Head(buf)).t = buf[1]
    BY <1>2, <2>1, ReceivedTypes DEF Stamp, Items
  <2> QED
    BY <2>2
<1>4. \A y \in Received : Before(y, x)
  BY <1>1, <1>2, <1>3 DEF Order, ReceivedIsPast, Past, Before
<1>5. \A j \in 1..Len(buf') : j + 1 \in 1..Len(buf) /\ buf'[j] = buf[j + 1] /\ buf[1] < buf'[j]
  BY <1>2 DEF Order, BufRise
<1>6. \A y \in Received : Past(y) => Past(y)'
  BY <1>1, <1>5 DEF Past, Handshake
<1>7. Past(x)'
  BY <1>1, <1>2, <1>3, <1>5, ReceivedTypes DEF Past, Handshake
<1>8. BufRise'
  <2> SUFFICES ASSUME NEW j \in 1..Len(buf'), NEW k \in 1..Len(buf'), j < k PROVE buf'[j] < buf'[k]
    BY <1>1, <1>2 DEF BufRise
  <2>1. j + 1 < k + 1
    BY <1>2
  <2> QED
    BY <1>5, <2>1 DEF Order, BufRise
<1> QED
  BY <1>1, <1>3, <1>4, <1>6, <1>7, <1>8, EnqueueOrder

(* The oldest notification is held. *)
LEMMA DispatchTakeOrder == ASSUME Inv, Inv', Order, DispatchTake PROVE Order'
<1>1. /\ UNCHANGED <<log, tasks, gen, conn, wire, buf, live>> /\ disp.st = "run"
      /\ notif # <<>> /\ notif' = Tail(notif) /\ disp'.item = Head(notif) /\ disp'.st \in {"permit", "put"}
  BY DEF DispatchTake, socket, queue
<1>2. /\ Head(notif) = notif[1] /\ Len(notif) \in Nat \ {0} /\ Len(notif') = Len(notif) - 1
      /\ \A j \in 1..Len(notif') : notif'[j] = notif[j + 1]
  BY <1>1, HeadTail DEF Inv, Types, Ingress
<1>3. HeldItems = {} /\ HeldItems' = {notif[1]} /\ LogItems' = LogItems /\ TaskItems' = TaskItems
  BY <1>1, <1>2 DEF HeldItems, Holds, LogItems, TaskItems
<1>4. \A j \in 1..Len(notif') : j + 1 \in 1..Len(notif) /\ 1 < j + 1 /\ notif'[j] = notif[j + 1]
  BY <1>2
<1>5. NotifItems' \cup {notif[1]} \subseteq NotifItems
  BY <1>2, <1>4 DEF NotifItems
<1>6. Precede({notif[1]}, NotifItems')
  <2>1. \A j \in 1..Len(notif') : Before(notif[1], notif'[j])
    BY <1>2, <1>4 DEF Order, NotifRise
  <2> QED
    BY <2>1 DEF NotifItems, Precede
<1>7. Stages'
  <2>1. /\ Precede(LogItems', TaskItems' \cup HeldItems' \cup NotifItems')
        /\ Precede(TaskItems', HeldItems' \cup NotifItems')
    BY <1>3, <1>5 DEF Order, Stages, Precede
  <2> QED
    BY <1>3, <1>6, <2>1 DEF Stages, Precede, Before
<1>8. Received' \subseteq Received
  BY <1>3, <1>5 DEF Received
<1>9. NotifRise'
  <2> SUFFICES ASSUME NEW j \in 1..Len(notif'), NEW k \in 1..Len(notif'), j < k PROVE Before(notif'[j], notif'[k])
    BY DEF NotifRise, Before
  <2>1. j + 1 < k + 1
    BY <1>2
  <2> QED
    BY <1>4, <2>1 DEF Order, NotifRise
<1>10. OrderedDispatch' /\ TasksRise' /\ BufRise'
  BY <1>1 DEF Order, OrderedDispatch, TasksRise, BufRise, Before
<1>11. ReceivedIsPast'
  BY <1>1, <1>8 DEF Order, ReceivedIsPast, Past
<1> QED
  BY <1>7, <1>9, <1>10, <1>11 DEF Order

(* The held item is queued behind everything of its generation. *)
LEMMA DispatchPutOrder == ASSUME Inv, Inv', Order, DispatchPut PROVE Order'
<1>1. /\ UNCHANGED <<tasks, notif, gen, conn, wire, buf, live>> /\ disp.st = "put" /\ disp' = Running
      /\ log' = Append(log, Entry(disp.item, baseline))
  BY DEF DispatchPut, socket, base
<1>2. PICK e \in Entries(chain) :
        /\ e = Entry(disp.item, baseline) /\ log \in Seq(Entries(chain))
        /\ e.t = disp.item.t /\ e.g = disp.item.g /\ e.src # "recovery"
  <2>1. disp.item \in Taken(wire)
    BY <1>1 DEF Inv, Types, Ingress, Holds
  <2>2. disp.item.t \in 1..chain /\ disp.item.g \in Nat
    BY <2>1, Bounds DEF Taken
  <2>3. LET e == Entry(disp.item, baseline) IN
        e \in Entries(chain) /\ e.t = disp.item.t /\ e.g = disp.item.g /\ e.src # "recovery"
    BY <2>2 DEF Entries, Entry, SourceOf
  <2>4. log \in Seq(Entries(chain))
    BY DEF Inv, Types, Queue
  <2> QED
    BY <2>3, <2>4
<1>3. HeldItems = {disp.item} /\ HeldItems' = {} /\ TaskItems' = TaskItems /\ NotifItems' = NotifItems
  BY <1>1 DEF HeldItems, Holds, TaskItems, NotifItems, Running
<1>4. tasks = <<>> /\ TaskItems = {}
  BY <1>1 DEF Inv, Types, Booleans, Shape, TaskItems
<1>5. OrderedDispatch' /\ LogItems' = LogItems \cup {e}
  <2>1. Precede(LogItems, {e})
    BY <1>2, <1>3 DEF Order, Stages, Precede, Before
  <2> QED
    BY <1>1, <1>2, <2>1, LogGrows DEF Order
<1>6. Stages'
  <2>1. Precede(LogItems \cup {e}, NotifItems)
    BY <1>2, <1>3 DEF Order, Stages, Precede, Before
  <2>2. Precede(LogItems', TaskItems' \cup HeldItems' \cup NotifItems')
    BY <1>3, <1>4, <1>5, <2>1
  <2> QED
    BY <1>3, <1>4, <2>2 DEF Stages, Precede, Before
<1>7. TasksRise' /\ NotifRise' /\ BufRise'
  BY <1>1 DEF Order, TasksRise, NotifRise, BufRise, Before
<1>8. ReceivedIsPast'
  <2>1. Received' \subseteq Received \cup {e} /\ disp.item \in Received
    BY <1>3, <1>5 DEF Received
  <2>2. \A y \in Received : Past(y)'
    BY <1>1 DEF Order, ReceivedIsPast, Past
  <2>3. Past(e)'
    BY <1>2, <2>1, <2>2 DEF Past
  <2> QED
    BY <2>1, <2>2, <2>3 DEF ReceivedIsPast
<1> QED
  BY <1>5, <1>6, <1>7, <1>8 DEF Order

(* The held item becomes the youngest task. *)
LEMMA DispatchSpawnOrder == ASSUME Inv, Inv', Order, DispatchSpawn PROVE Order'
<1>1. /\ UNCHANGED <<log, notif, gen, conn, wire, buf, live>> /\ disp.st = "permit" /\ disp' = Running
      /\ tasks' = Append(tasks, [st |-> "fetch", item |-> disp.item])
  BY DEF DispatchSpawn, socket, queue, base
<1>2. /\ Len(tasks') = Len(tasks) + 1 /\ Len(tasks) \in Nat /\ tasks'[Len(tasks) + 1].item = disp.item
      /\ \A j \in 1..Len(tasks) : tasks'[j] = tasks[j]
  <2>1. [st |-> "fetch", item |-> disp.item] \in Tasks(wire) /\ tasks \in Seq(Tasks(wire))
    BY <1>1 DEF Inv, Types, Ingress, Tasks, Holds
  <2> QED
    BY <1>1, <2>1, AppendTo
<1>3. HeldItems = {disp.item} /\ HeldItems' = {} /\ LogItems' = LogItems /\ NotifItems' = NotifItems
  BY <1>1 DEF HeldItems, Holds, LogItems, NotifItems, Running
<1>4. TaskItems' = TaskItems \cup {disp.item}
  BY <1>2 DEF TaskItems
<1>5. Stages' /\ Received' = Received
  <2>1. /\ Precede(LogItems', TaskItems' \cup HeldItems' \cup NotifItems')
        /\ Precede(TaskItems', HeldItems' \cup NotifItems') /\ Precede(HeldItems', NotifItems')
    BY <1>3, <1>4 DEF Order, Stages, Precede
  <2> QED
    BY <1>3, <1>4, <2>1 DEF Stages, Precede, Before, Received
<1>6. TasksRise'
  <2> SUFFICES ASSUME NEW j \in 1..Len(tasks'), NEW k \in 1..Len(tasks'), j < k
               PROVE  Before(tasks'[j].item, tasks'[k].item)
    BY DEF TasksRise, Before
  <2>1. CASE k \in 1..Len(tasks)
    BY <1>2, <2>1 DEF Order, TasksRise
  <2>2. CASE k = Len(tasks) + 1
    <3>1. j \in 1..Len(tasks) /\ tasks'[j] = tasks[j] /\ tasks'[k].item = disp.item
      BY <1>2, <2>2
    <3>2. tasks[j].item \in TaskItems
      BY <3>1 DEF TaskItems
    <3> QED
      BY <1>3, <3>1, <3>2 DEF Order, Stages, Precede
  <2> QED
    BY <1>2, <2>1, <2>2
<1>7. OrderedDispatch' /\ NotifRise' /\ BufRise'
  BY <1>1 DEF Order, OrderedDispatch, NotifRise, BufRise, Before
<1>8. ReceivedIsPast'
  BY <1>1, <1>5 DEF Order, ReceivedIsPast, Past
<1> QED
  BY <1>5, <1>6, <1>7, <1>8 DEF Order

(* The tasks that are left keep their items. *)
LEMMA TasksOrder ==
    ASSUME Order, UNCHANGED <<log, disp, notif, gen, conn, wire, buf, live>>,
           Len(tasks) \in Nat, Len(tasks') \in Nat, Len(tasks') <= Len(tasks),
           \A j \in 1..Len(tasks') : tasks'[j].item = tasks[j].item
    PROVE  Order'
<1>1. LogItems' = LogItems /\ HeldItems' = HeldItems /\ NotifItems' = NotifItems
  BY DEF LogItems, HeldItems, NotifItems, Holds
<1>2. \A j \in 1..Len(tasks') : j \in 1..Len(tasks)
  OBVIOUS
<1>3. TaskItems' \subseteq TaskItems
  BY <1>2 DEF TaskItems
<1>4. Stages' /\ Received' \subseteq Received
  BY <1>1, <1>3, FewerItems DEF Order
<1>5. TasksRise'
  BY <1>2 DEF Order, TasksRise, Before
<1>6. OrderedDispatch' /\ NotifRise' /\ BufRise'
  BY DEF Order, OrderedDispatch, NotifRise, BufRise, Before
<1>7. ReceivedIsPast'
  BY <1>4 DEF Order, ReceivedIsPast, Past
<1> QED
  BY <1>4, <1>5, <1>6, <1>7 DEF Order

(* A fetched task keeps its place. *)
LEMMA FetchOkOrder == ASSUME Inv, Inv', Order, NEW i \in 1..MaxTasks, FetchOk(i) PROVE Order'
<1>1. /\ UNCHANGED <<log, disp, notif, gen, conn, wire, buf, live>>
      /\ i \in 1..Len(tasks) /\ tasks' = [tasks EXCEPT ![i].st = "ready"]
  BY Bounds DEF FetchOk, socket, queue, base
<1>2. Len(tasks') = Len(tasks) /\ Len(tasks) \in Nat /\ \A j \in 1..Len(tasks) : tasks'[j].item = tasks[j].item
  <2>1. tasks \in Seq(Tasks(wire)) /\ tasks[i] \in Tasks(wire)
    BY <1>1, Elements DEF Inv, Types, Ingress
  <2>2. /\ tasks'[i] = [tasks[i] EXCEPT !.st = "ready"] /\ Len(tasks') = Len(tasks)
        /\ \A j \in 1..Len(tasks) : j # i => tasks'[j] = tasks[j]
    BY <1>1, <2>1
  <2>3. tasks'[i].item = tasks[i].item
    BY <2>1, <2>2 DEF Tasks
  <2> QED
    BY <2>1, <2>2, <2>3, Bounds
<1> QED
  BY <1>1, <1>2, TasksOrder

(* An observed task keeps its place. *)
LEMMA TaskObserveOrder == ASSUME Inv, Inv', Order, NEW i \in 1..MaxTasks, TaskObserve(i) PROVE Order'
<1>1. /\ UNCHANGED <<log, disp, notif, gen, conn, wire, buf, live>>
      /\ i \in 1..Len(tasks) /\ tasks' = [tasks EXCEPT ![i].st = "put"]
  <2>1. tasks # <<>> => 1 \in 1..Len(tasks)
    BY Bounds DEF Inv, Types, Ingress
  <2> QED
    BY <2>1 DEF TaskObserve, MayDispatch, Observe, socket, queue
<1>2. Len(tasks') = Len(tasks) /\ Len(tasks) \in Nat /\ \A j \in 1..Len(tasks) : tasks'[j].item = tasks[j].item
  <2>1. tasks \in Seq(Tasks(wire)) /\ tasks[i] \in Tasks(wire)
    BY <1>1, Elements DEF Inv, Types, Ingress
  <2>2. /\ tasks'[i] = [tasks[i] EXCEPT !.st = "put"] /\ Len(tasks') = Len(tasks)
        /\ \A j \in 1..Len(tasks) : j # i => tasks'[j] = tasks[j]
    BY <1>1, <2>1
  <2>3. tasks'[i].item = tasks[i].item
    BY <2>1, <2>2 DEF Tasks
  <2> QED
    BY <2>1, <2>2, <2>3, Bounds
<1> QED
  BY <1>1, <1>2, TasksOrder

(* A failed fetch takes the younger tasks with it. *)
LEMMA FetchFailsOrder == ASSUME Inv, Inv', Order, NEW i \in 1..MaxTasks, FetchFails(i) PROVE Order'
<1>1. /\ UNCHANGED <<log, disp, notif, gen, conn, wire, buf, live>>
      /\ i \in 1..Len(tasks) /\ tasks' = SubSeq(tasks, 1, i - 1)
  BY Bounds DEF FetchFails, socket, queue, base
<1>2. tasks \in Seq(Tasks(wire)) /\ i - 1 \in 0..Len(tasks) /\ Len(tasks) \in Nat
  BY <1>1, Bounds DEF Inv, Types, Ingress
<1>3. Len(tasks') = i - 1 /\ \A j \in 1..i - 1 : tasks'[j] = tasks[j]
  BY <1>1, <1>2, PrefixOf
<1> QED
  BY <1>1, <1>2, <1>3, TasksOrder

(* The oldest task is queued before the others of its generation. *)
LEMMA TaskPutOrder == ASSUME Inv, Inv', Order, NEW i \in 1..MaxTasks, TaskPut(i) PROVE Order'
<1>1. /\ UNCHANGED <<disp, notif, gen, conn, wire, buf, live>> /\ i \in 1..Len(tasks) /\ tasks[i].st = "put"
      /\ log' = Append(log, Entry(tasks[i].item, baseline)) /\ tasks' = RemoveAt(tasks, i)
  BY Bounds DEF TaskPut, socket, base
<1>2. i = 1
  BY <1>1 DEF Inv, Shape
<1>3. /\ Len(tasks) \in Nat \ {0} /\ Len(tasks') = Len(tasks) - 1
      /\ \A j \in 1..Len(tasks') : tasks'[j] = tasks[j + 1]
  <2>1. tasks \in Seq(Tasks(wire)) /\ tasks # <<>>
    BY <1>1 DEF Inv, Types, Ingress
  <2>2. tasks' = Tail(tasks)
    BY <1>1, <1>2, <2>1, RemoveHead
  <2> QED
    BY <2>1, <2>2, HeadTail
<1>0. PICK x \in Taken(wire) : x = tasks[1].item
  BY <1>1, <1>2, Elements
<1>4. PICK e \in Entries(chain) :
        e = Entry(x, baseline) /\ log \in Seq(Entries(chain)) /\ e.t = x.t /\ e.g = x.g /\ e.src # "recovery"
  <2>2. x.t \in 1..chain /\ x.g \in Nat
    BY Bounds DEF Taken
  <2>3. LET e == Entry(x, baseline) IN
        e \in Entries(chain) /\ e.t = x.t /\ e.g = x.g /\ e.src # "recovery"
    BY <2>2 DEF Entries, Entry, SourceOf
  <2>4. log \in Seq(Entries(chain))
    BY DEF Inv, Types, Queue
  <2> QED
    BY <2>3, <2>4
<1>5. log' = Append(log, e) /\ x \in TaskItems
  BY <1>1, <1>2, <1>3, <1>0, <1>4 DEF TaskItems
<1>6. \A j \in 1..Len(tasks') : j + 1 \in 1..Len(tasks) /\ 1 < j + 1 /\ tasks'[j] = tasks[j + 1]
  BY <1>3
<1>7. TaskItems' \subseteq TaskItems
  BY <1>6 DEF TaskItems
<1>8. Precede({x}, TaskItems')
  <2>1. \A j \in 1..Len(tasks') : Before(x, tasks'[j].item)
    BY <1>3, <1>6, <1>0 DEF Order, TasksRise
  <2> QED
    BY <2>1 DEF TaskItems, Precede
<1>9. HeldItems' = HeldItems /\ NotifItems' = NotifItems
  BY <1>1 DEF HeldItems, Holds, NotifItems
<1>10. OrderedDispatch' /\ LogItems' = LogItems \cup {e}
  <2>1. Precede(LogItems, {e})
    BY <1>4, <1>5 DEF Order, Stages, Precede, Before
  <2> QED
    BY <1>4, <1>5, <2>1, LogGrows DEF Order
<1>11. Stages'
  <2>1. Precede({e}, TaskItems' \cup HeldItems \cup NotifItems)
    BY <1>4, <1>5, <1>8 DEF Order, Stages, Precede, Before
  <2>2. Precede(LogItems', TaskItems' \cup HeldItems' \cup NotifItems')
    BY <1>7, <1>9, <1>10, <2>1 DEF Order, Stages, Precede
  <2>3. Precede(TaskItems', HeldItems' \cup NotifItems') /\ Precede(HeldItems', NotifItems')
    BY <1>7, <1>9 DEF Order, Stages, Precede
  <2> QED
    BY <2>2, <2>3 DEF Stages, Precede, Before
<1>12. TasksRise'
  <2> SUFFICES ASSUME NEW j \in 1..Len(tasks'), NEW k \in 1..Len(tasks'), j < k
               PROVE  Before(tasks'[j].item, tasks'[k].item)
    BY DEF TasksRise, Before
  <2>1. j + 1 < k + 1
    BY <1>3
  <2> QED
    BY <1>6, <2>1 DEF Order, TasksRise
<1>13. NotifRise' /\ BufRise'
  BY <1>1 DEF Order, NotifRise, BufRise, Before
<1>14. ReceivedIsPast'
  <2>1. Received' \subseteq Received \cup {e} /\ x \in Received
    BY <1>5, <1>7, <1>9, <1>10 DEF Received
  <2>2. \A y \in Received : Past(y)'
    BY <1>1 DEF Order, ReceivedIsPast, Past
  <2>3. Past(e)'
    BY <1>4, <2>1, <2>2 DEF Past
  <2> QED
    BY <2>1, <2>2, <2>3 DEF ReceivedIsPast
<1> QED
  BY <1>10, <1>11, <1>12, <1>13, <1>14 DEF Order

(* A new process has received nothing but the handled part of the queue. *)
LEMMA BootOrder == ASSUME Inv, Order, Boot PROVE Order'
<1>1. /\ gen' = gen /\ conn' = "down" /\ disp' = NoDisp /\ tasks' = <<>> /\ notif' = <<>> /\ buf' = <<>> /\ live' = <<>>
      /\ log' = SubSeq(log, 1, done)
  BY DEF Boot
<1>2. /\ done \in Nat /\ done <= Len(log) /\ Len(log') = done /\ \A j \in 1..done : log'[j] = log[j]
  <2>1. log \in Seq(Entries(chain)) /\ done \in 0..Len(log)
    BY DEF Inv, Types, Queue
  <2> QED
    BY <1>1, <2>1, PrefixOf
<1>3. \A j \in 1..Len(log') : j \in 1..Len(log) /\ log'[j] = log[j]
  BY <1>2, Bounds
<1>4. LogItems' \subseteq LogItems /\ TaskItems' = {} /\ HeldItems' = {} /\ NotifItems' = {}
  <2>1. LogItems' \subseteq LogItems
    BY <1>3 DEF LogItems
  <2>2. TaskItems' = {} /\ HeldItems' = {} /\ NotifItems' = {}
    BY <1>1 DEF TaskItems, HeldItems, Holds, NotifItems, NoDisp
  <2> QED
    BY <2>1, <2>2
<1>5. Stages' /\ Received' \subseteq Received
  BY <1>4, FewerItems DEF Order
<1>6. OrderedDispatch'
  BY <1>3 DEF Order, OrderedDispatch
<1>7. TasksRise' /\ NotifRise' /\ BufRise'
  BY <1>1 DEF TasksRise, NotifRise, BufRise
<1>8. ReceivedIsPast'
  BY <1>1, <1>5 DEF Order, ReceivedIsPast, Past, Handshake
<1> QED
  BY <1>5, <1>6, <1>7, <1>8 DEF Order

(* The process is started again. *)
LEMMA StartOrder == ASSUME Inv, Inv', Order, Start PROVE Order'
BY BootOrder DEF Start

(* The process dies and is started again. *)
LEMMA CrashOrder == ASSUME Inv, Inv', Order, Crash PROVE Order'
BY BootOrder DEF Crash

(* One entry and nothing received. *)
LEMMA InitOrder == Init => Order
<1> SUFFICES ASSUME Init PROVE Order
  OBVIOUS
<1>1. /\ log = <<[t |-> 1, src |-> "baseline", g |-> 0]>> /\ tasks = <<>> /\ notif = <<>> /\ buf = <<>> /\ live = <<>>
      /\ disp.st = "none" /\ conn = "down" /\ gen = 0
  BY DEF Init, NoDisp
<1>2. Len(log) = 1 /\ log[1].g = 0
  BY <1>1
<1>3. TaskItems = {} /\ HeldItems = {} /\ NotifItems = {}
  BY <1>1 DEF TaskItems, HeldItems, Holds, NotifItems
<1>4. \A x \in LogItems : x.g = 0
  BY <1>2 DEF LogItems
<1>5. OrderedDispatch /\ TasksRise /\ NotifRise /\ BufRise
  BY <1>1, <1>2 DEF OrderedDispatch, TasksRise, NotifRise, BufRise
<1>6. Stages /\ ReceivedIsPast
  BY <1>1, <1>3, <1>4 DEF Stages, Precede, ReceivedIsPast, Received, Past, Handshake
<1> QED
  BY <1>5, <1>6 DEF Order

(* Every step keeps the third layer. *)
LEMMA NextOrder == Inv /\ Inv' /\ Order /\ [Next]_vars => Order'
<1> SUFFICES ASSUME Inv, Inv', Order, [Next]_vars PROVE Order'
  OBVIOUS
<1>1. CASE UNCHANGED vars
  <2>1. UNCHANGED <<log, tasks, disp, notif, buf, live, gen, conn, wire>>
    BY <1>1 DEF vars, socket, ingress, queue, base
  <2>2. BufRise' /\ \A x : Past(x) => Past(x)'
    BY <2>1 DEF Order, BufRise, Past
  <2> QED
    BY <2>1, <2>2, InertOrder
<1>2. CASE Next
  BY <1>2, ProduceOrder, BufferMessageOrder, ReceiveOrder, DropOrder, ReconnectOrder,
     IngressOverflowOrder, OpenOrder, HoldOrder, UseLogsFallbackOrder,
     HandshakeOverflowOrder, SubscribedFreshOrder, AcceptGapOrder, SubscribedRecentOrder,
     RecoverGapOrder, GapTimeoutOrder, CommitRecoveredOrder, GapRecoveredOrder,
     GapRowFailsOrder, ReplayOrder, GoLiveOrder, DispatchTakeOrder, DispatchPutOrder,
     DispatchSpawnOrder, DispatchRefusedOrder, FetchOkOrder, FetchFailsOrder,
     TaskObserveOrder, TaskPutOrder, WorkerHandleOrder, WorkerFailsOrder,
     RefreshFreshnessOrder, WarmupElapsesOrder, AgeOrder, BeginStopOrder, StopTimesOutOrder,
     StoppedOrder, StartOrder, CrashOrder
     DEF Next
<1> QED
  BY <1>1, <1>2

(* Live transactions of one connection reach the processing queue in the    *)
(* order of the chain, however late their block times are fetched and       *)
(* whatever fails on the way (_spawn_ordered_log_dispatch).                 *)
THEOREM SpecOrderedDispatch == Spec => []OrderedDispatch
<1>1. Order => OrderedDispatch
  BY DEF Order
<1> QED
  BY <1>1, InitOrder, NextOrder, SpecInv, PTL DEF Spec
=============================================================================
