---------------------------- MODULE BridgeProofs ----------------------------
(***************************************************************************)
(* Proofs about Session and Bridge together, for any number of             *)
(* connections, callers, HTTP handlers, requests, events and restarts.     *)
(*                                                                         *)
(* Every step but the death of a process is a step of one connection, so   *)
(* the first part is about one connection: its requests are in the inbox   *)
(* or running, its replies are finished or on the wire.  The second part   *)
(* relates the two connections of an HTTP request to its stages, and the   *)
(* tokens that the bridge holds to the table of the daemon.                *)
(***************************************************************************)
EXTENDS Bridge, TLAPS

-----------------------------------------------------------------------------
(* One connection: client k, inbox q, loop l with its tasks R running and  *)
(* F finished, wire w, stream told up to n, effects x.                     *)

Responses(w) == {i \in DOMAIN w : w[i].type = "response"}

(* The requests that the daemon has still to answer.                       *)
Asked(q, R) == {q[i] : i \in DOMAIN q} \cup R

Reply(id, answer) == [id |-> id, answer |-> answer]

(* The answers that the client has still to read.                          *)
Replies(F, w) == F \cup {Reply(w[i].id, w[i].answer) : i \in Responses(w)}

(* A request is in one place: in the inbox, running, finished or answered  *)
(* on the wire.                                                            *)
OnceAsked(q, R) ==
    /\ \A i, j \in DOMAIN q : q[i].id = q[j].id => i = j
    /\ \A r, s \in R : r.id = s.id => r = s
    /\ \A i \in DOMAIN q, r \in R : q[i].id # r.id

OnceReplied(F, w) ==
    /\ \A a, b \in F : a.id = b.id => a = b
    /\ \A i, j \in Responses(w) : w[i].id = w[j].id => i = j
    /\ \A i \in Responses(w), a \in F : w[i].id # a.id

Apart(A, B) == \A r \in A, a \in B : r.id # a.id

(* Ids are handed out in order.                                            *)
Issued(k, A, B) ==
    /\ k.next \in 1..(MaxId + 1) /\ k.waits < k.next
    /\ \A r \in A : r.id \in 1..(k.next - 1)
    /\ \A a \in B : a.id \in 1..(k.next - 1)

(* Until a request of the client has timed out, the only one that is       *)
(* somewhere is the one it waits for.                                      *)
Awaited(k, A, B) ==
    /\ k.last = "mismatch" => k.late
    /\ k.open /\ ~k.late => (\A r \in A : r.id = k.waits) /\ (\A a \in B : a.id = k.waits)

(* A request has no effect before its handler ends, and one effect when    *)
(* the reply says so.                                                      *)
Done(k, A, B, x) ==
    /\ \A i \in 1..MaxId : i >= k.next => x[i] = 0
    /\ \A r \in A : x[r.id] = 0
    /\ \A a \in B : a.answer = "ok" => x[a.id] = 1
    /\ k.last = "ok" => k.lastId \in 1..MaxId /\ x[k.lastId] = 1

(* A loop that ended keeps nothing, and a client that left waits for       *)
(* nothing.                                                                *)
Ended(k, q, l) ==
    /\ ~l.open => l = NoLoop /\ q = <<>>
    /\ ~k.open => k.waits = 0

(* Everything about the replies, given the sets of requests and replies.   *)
Consistent(b, k, A, B, x) ==
    /\ Apart(A, B) /\ Issued(k, A, B) /\ Awaited(k, A, B)
    /\ b => Done(k, A, B, x)

ConnOK(b, k, q, l, w, n, x) ==
    /\ OnceAsked(q, l.running) /\ OnceReplied(l.finished, w)
    /\ Consistent(b, k, Asked(q, l.running), Replies(l.finished, w), x)
    /\ Ended(k, q, l)
    /\ l.rx <= n

ConnTyped(k, q, l, w, n, x) ==
    /\ k \in ClientState /\ q \in Seq(Request) /\ l \in LoopState
    /\ w \in Seq(Frame) /\ n \in Nat /\ x \in [1..MaxId -> Nat]

-----------------------------------------------------------------------------
(* Where requests and replies are.                                         *)

(* A response has an id and an answer.                                     *)
LEMMA FrameShape ==
  ASSUME NEW f \in Frame, f.type = "response"
  PROVE  f.id \in Nat /\ f.answer \in Answer
  BY DEF Frame

(* What a new request adds to the inbox.                                   *)
LEMMA AskedAppend ==
  ASSUME NEW q \in Seq(Request), NEW r \in Request, NEW R
  PROVE  /\ Append(q, r) \in Seq(Request)
         /\ Asked(Append(q, r), R) = Asked(q, R) \cup {r}
         /\ OnceAsked(q, R) /\ (\A s \in Asked(q, R) : s.id # r.id)
               => OnceAsked(Append(q, r), R)
  <1> DEFINE p == Append(q, r)
  <1>1. /\ p \in Seq(Request) /\ Len(p) = Len(q) + 1 /\ DOMAIN p = 1..(Len(q) + 1)
        /\ \A i \in DOMAIN q : p[i] = q[i] 
        /\ p[Len(q) + 1] = r /\ DOMAIN q = 1..Len(q) /\ Len(q) \in Nat
    OBVIOUS
  <1> HIDE DEF p
  <1>2. Asked(p, R) = Asked(q, R) \cup {r}
    BY <1>1 DEF Asked
  <1>3. OnceAsked(q, R) /\ (\A s \in Asked(q, R) : s.id # r.id) => OnceAsked(p, R)
    BY <1>1 DEF Asked, OnceAsked
  <1> QED BY <1>1, <1>2, <1>3 DEF p

(* What taking a request from the inbox leaves there.                      *)
LEMMA AskedTail ==
  ASSUME NEW q \in Seq(Request), q # <<>>, NEW R
  PROVE  /\ Tail(q) \in Seq(Request) /\ Head(q) \in Request
         /\ Asked(q, R) = Asked(Tail(q), R) \cup {Head(q)}
         /\ OnceAsked(q, R) => /\ OnceAsked(Tail(q), R)
                               /\ \A s \in Asked(Tail(q), R) : s.id # Head(q).id
                               /\ OnceAsked(Tail(q), R \cup {Head(q)})
  <1> DEFINE p == Tail(q)
             r == Head(q)
  <1>1. /\ p \in Seq(Request) /\ r \in Request /\ DOMAIN p = 1..(Len(q) - 1)
        /\ r = q[1] /\ 1 \in DOMAIN q
        /\ \A i \in DOMAIN p : p[i] = q[i + 1] /\ i + 1 \in DOMAIN q
        /\ DOMAIN q = 1..Len(q) /\ Len(q) \in Nat
    OBVIOUS
  <1> HIDE DEF p, r
  <1>2. \A i \in DOMAIN q : q[i] = r \/ \E j \in DOMAIN p : q[i] = p[j]
    <2> TAKE i \in DOMAIN q
    <2>1. CASE i = 1
      BY <1>1, <2>1
    <2>2. CASE i # 1
      <3>1. i - 1 \in DOMAIN p /\ p[i - 1] = q[i]
        BY <1>1, <2>2
      <3> QED BY <3>1
    <2> QED BY <2>1, <2>2
  <1>3. Asked(q, R) = Asked(p, R) \cup {r}
    BY <1>1, <1>2 DEF Asked
  <1>4. ASSUME OnceAsked(q, R)
        PROVE  /\ OnceAsked(p, R)
               /\ \A s \in Asked(p, R) : s.id # r.id
               /\ OnceAsked(p, R \cup {r})
    <2>1. \A i, j \in DOMAIN p : p[i].id = p[j].id => i = j
      BY <1>1, <1>4 DEF OnceAsked
    <2>2. \A i \in DOMAIN p : p[i].id # r.id
      BY <1>1, <1>4 DEF OnceAsked
    <2>3. \A s \in R : s.id # r.id
      BY <1>1, <1>4 DEF OnceAsked
    <2>4. \A i \in DOMAIN p, s \in R : p[i].id # s.id
      BY <1>1, <1>4 DEF OnceAsked
    <2> QED BY <1>4, <2>1, <2>2, <2>3, <2>4 DEF OnceAsked, Asked
  <1> QED BY <1>1, <1>3, <1>4 DEF p, r

(* What a frame adds to the wire: a response, or nothing.                  *)
LEMMA RepliesAppend ==
  ASSUME NEW w \in Seq(Frame), NEW f \in Frame, NEW F
  PROVE  /\ Append(w, f) \in Seq(Frame)
         /\ f.type = "response" =>
               /\ Replies(F, Append(w, f)) = Replies(F, w) \cup {Reply(f.id, f.answer)}
               /\ OnceReplied(F, w) /\ (\A a \in Replies(F, w) : a.id # f.id)
                     => OnceReplied(F, Append(w, f))
         /\ f.type # "response" =>
               /\ Replies(F, Append(w, f)) = Replies(F, w)
               /\ OnceReplied(F, w) => OnceReplied(F, Append(w, f))
  <1> DEFINE v == Append(w, f)
             m == Len(w) + 1
  <1>1. /\ v \in Seq(Frame) /\ DOMAIN v = DOMAIN w \cup {m} /\ m \notin DOMAIN w
        /\ \A i \in DOMAIN w : v[i] = w[i]
        /\ v[m] = f
    OBVIOUS
  <1> HIDE DEF v, m
  <1>2. \A i : i \in Responses(w) => v[i] = w[i] /\ i # m
    BY <1>1 DEF Responses
  <1>3. CASE f.type = "response"
    <2>1. Responses(v) = Responses(w) \cup {m}
      BY <1>1, <1>3 DEF Responses
    <2>2. Replies(F, v) = Replies(F, w) \cup {Reply(f.id, f.answer)}
      BY <1>1, <1>2, <2>1 DEF Replies
    <2>3. ASSUME OnceReplied(F, w), \A a \in Replies(F, w) : a.id # f.id
          PROVE  OnceReplied(F, v)
      <3>1. \A a \in F : a.id # f.id
        BY <2>3 DEF Replies
      <3>2. ASSUME NEW i \in Responses(w) PROVE w[i].id # f.id
        <4>1. Reply(w[i].id, w[i].answer) \in Replies(F, w)
          BY DEF Replies
        <4>2. Reply(w[i].id, w[i].answer).id = w[i].id
          BY DEF Reply
        <4> QED BY <2>3, <4>1, <4>2
      <3> QED BY <1>1, <1>2, <2>1, <2>3, <3>1, <3>2 DEF OnceReplied
    <2> QED BY <1>1, <1>3, <2>2, <2>3 DEF v
  <1>4. CASE f.type # "response"
    <2>1. Responses(v) = Responses(w)
      BY <1>1, <1>4 DEF Responses
    <2>2. Replies(F, v) = Replies(F, w)
      BY <1>2, <2>1 DEF Replies
    <2>3. OnceReplied(F, w) => OnceReplied(F, v)
      BY <1>2, <2>1 DEF OnceReplied
    <2> QED BY <1>1, <1>4, <2>2, <2>3 DEF v
  <1> QED BY <1>3, <1>4

(* What reading a frame leaves on the wire.                                *)
LEMMA RepliesTail ==
  ASSUME NEW w \in Seq(Frame), w # <<>>, NEW F
  PROVE  /\ Tail(w) \in Seq(Frame) /\ Head(w) \in Frame
         /\ Replies(F, Tail(w)) \subseteq Replies(F, w)
         /\ OnceReplied(F, w) => OnceReplied(F, Tail(w))
         /\ Head(w).type = "response" =>
               /\ Reply(Head(w).id, Head(w).answer) \in Replies(F, w)
               /\ OnceReplied(F, w) => \A a \in Replies(F, Tail(w)) : a.id # Head(w).id
  <1> DEFINE v == Tail(w)
             f == Head(w)
  <1>1. /\ v \in Seq(Frame) /\ f \in Frame /\ f = w[1] /\ 1 \in DOMAIN w
        /\ \A i \in DOMAIN v : /\ i \in Nat /\ v[i] = w[i + 1] /\ i + 1 \in DOMAIN w
                               /\ i + 1 # 1
    OBVIOUS
  <1> HIDE DEF v, f
  <1>2. \A i : i \in Responses(v) => /\ i \in Nat /\ i + 1 # 1
                                     /\ i + 1 \in Responses(w) /\ v[i] = w[i + 1]
    BY <1>1 DEF Responses
  <1>3. Replies(F, v) \subseteq Replies(F, w)
    BY <1>2 DEF Replies
  <1>4. ASSUME OnceReplied(F, w) PROVE OnceReplied(F, v)
    <2>1. ASSUME NEW i \in Responses(v), NEW j \in Responses(v), v[i].id = v[j].id
          PROVE  i = j
      <3>1. i + 1 = j + 1
        BY <1>2, <1>4, <2>1 DEF OnceReplied
      <3> QED BY <1>2, <3>1
    <2>2. \A i \in Responses(v), a \in F : v[i].id # a.id
      BY <1>2, <1>4 DEF OnceReplied
    <2> QED BY <1>4, <2>1, <2>2 DEF OnceReplied
  <1>5. ASSUME f.type = "response"
        PROVE  /\ Reply(f.id, f.answer) \in Replies(F, w)
               /\ OnceReplied(F, w) => \A a \in Replies(F, v) : a.id # f.id
    <2>1. 1 \in Responses(w)
      BY <1>1, <1>5 DEF Responses
    <2>2. Reply(f.id, f.answer) \in Replies(F, w)
      BY <1>1, <2>1 DEF Replies
    <2>3. ASSUME OnceReplied(F, w), NEW a \in Replies(F, v) PROVE a.id # f.id
      <3>1. CASE a \in F
        BY <1>1, <2>1, <2>3, <3>1 DEF OnceReplied
      <3>2. ASSUME NEW i \in Responses(v), a = Reply(v[i].id, v[i].answer)
            PROVE  a.id # f.id
        <4>1. a.id = w[i + 1].id
          BY <1>2, <3>2 DEF Reply
        <4>2. w[i + 1].id # w[1].id
          BY <1>2, <2>1, <2>3 DEF OnceReplied
        <4> QED BY <1>1, <4>1, <4>2
      <3> QED BY <2>3, <3>1, <3>2 DEF Replies
    <2> QED BY <2>2, <2>3
  <1> QED BY <1>1, <1>3, <1>4, <1>5 DEF v, f

-----------------------------------------------------------------------------
(* What the steps of one connection keep.                                  *)

(* Requests and replies that disappear disturb nothing.                    *)
LEMMA Fewer ==
  ASSUME NEW b, NEW k, NEW A, NEW B, NEW x, NEW A2 \in SUBSET A, NEW B2 \in SUBSET B,
         Consistent(b, k, A, B, x)
  PROVE  Consistent(b, k, A2, B2, x)
  <1>1. Apart(A2, B2)
    BY DEF Consistent, Apart
  <1>2. Issued(k, A2, B2)
    BY DEF Consistent, Issued
  <1>3. Awaited(k, A2, B2)
    BY DEF Consistent, Awaited
  <1>4. b => Done(k, A2, B2, x)
    BY DEF Consistent, Done
  <1> QED BY <1>1, <1>2, <1>3, <1>4 DEF Consistent

(* A request r is answered: it is no longer asked, and its effects are     *)
(* what the answer says.                                                   *)
LEMMA Answering ==
  ASSUME NEW b, NEW k \in ClientState, NEW A \in SUBSET Request, NEW B,
         NEW x \in [1..MaxId -> Nat],
         Consistent(b, k, A, B, x),
         NEW r \in A, NEW A2 \in SUBSET A, \A s \in A2 : s.id # r.id,
         NEW a, NEW v \in Nat, a = "ok" /\ b => v = 1,
         NEW B2 \in SUBSET (B \cup {Reply(r.id, a)})
  PROVE  /\ r.id \in 1..MaxId
         /\ Consistent(b, k, A2, B2, [x EXCEPT ![r.id] = v])
  <1> DEFINE y == [x EXCEPT ![r.id] = v]
             u == Reply(r.id, a)
  <1>0. r.id \in 1..MaxId /\ r.id < k.next /\ r.id \in Nat /\ k.next \in Nat /\ MaxId \in Nat
    BY SessionAssumption DEF Consistent, Issued, Request, ClientState
  <1>1. u.id = r.id /\ u.answer = a
    BY DEF Reply
  <1>2. \A i \in 1..MaxId : i # r.id => y[i] = x[i]
    OBVIOUS
  <1>3. y[r.id] = v
    BY <1>0
  <1> HIDE DEF y, u
  <1>4. Apart(A2, B2)
    BY <1>1 DEF Consistent, Apart, u
  <1>5. Issued(k, A2, B2)
    BY <1>1 DEF Consistent, Issued, u
  <1>6. Awaited(k, A2, B2)
    BY <1>1 DEF Consistent, Awaited, u
  <1>7. ASSUME b PROVE Done(k, A2, B2, y)
    <2>0. Done(k, A, B, x) /\ Apart(A, B)
      BY <1>7 DEF Consistent
    <2>1. \A i \in 1..MaxId : i >= k.next => y[i] = 0
      BY <1>0, <1>2, <2>0 DEF Done
    <2>2. \A s \in A2 : y[s.id] = 0
      <3> TAKE s \in A2
      <3>1. s.id \in 1..MaxId /\ s.id # r.id
        BY SessionAssumption DEF Consistent, Issued, ClientState
      <3> QED BY <1>2, <2>0, <3>1 DEF Done
    <2>3. \A c \in B2 : c.answer = "ok" => y[c.id] = 1
      <3> SUFFICES ASSUME NEW c \in B2, c.answer = "ok" PROVE y[c.id] = 1
        OBVIOUS
      <3>1. CASE c = u
        BY <1>1, <1>3, <1>7, <3>1
      <3>2. CASE c \in B
        <4>1. c.id \in 1..MaxId
          BY SessionAssumption, <3>2 DEF Consistent, Issued, ClientState
        <4>2. c.id # r.id
          BY <2>0, <3>2 DEF Apart
        <4>3. x[c.id] = 1
          BY <2>0, <3>2 DEF Done
        <4> QED BY <1>2, <4>1, <4>2, <4>3
      <3> QED BY <3>1, <3>2 DEF u
    <2>4. k.last = "ok" => k.lastId \in 1..MaxId /\ y[k.lastId] = 1
      <3> SUFFICES ASSUME k.last = "ok" PROVE k.lastId \in 1..MaxId /\ y[k.lastId] = 1
        OBVIOUS
      <3>1. k.lastId \in 1..MaxId /\ x[k.lastId] = 1
        BY <2>0 DEF Done
      <3>2. x[r.id] = 0
        BY <2>0 DEF Done
      <3> QED BY <1>2, <3>1, <3>2
    <2> QED BY <2>1, <2>2, <2>3, <2>4 DEF Done
  <1> QED BY <1>0, <1>4, <1>5, <1>6, <1>7 DEF Consistent, y

(* A client sends a request: its id is new.                                *)
LEMMA Sending ==
  ASSUME NEW b, NEW k \in ClientState, NEW A, NEW B, NEW x, Consistent(b, k, A, B, x),
         k.open, k.waits = 0, k.next <= MaxId,
         NEW r, r.id = k.next,
         NEW m, m.next = k.next + 1, m.waits = k.next, m.open = k.open, m.late = k.late,
         m.last = k.last, m.lastId = k.lastId
  PROVE  Consistent(b, m, A \cup {r}, B, x)
  <1>1. k.next \in Nat /\ MaxId \in Nat
    BY SessionAssumption DEF ClientState
  <1>2. Apart(A \cup {r}, B)
    BY <1>1 DEF Consistent, Apart, Issued
  <1>3. Issued(m, A \cup {r}, B)
    BY <1>1 DEF Consistent, Issued
  <1>4. Awaited(m, A \cup {r}, B)
    <2>1. m.last = "mismatch" => m.late
      BY <1>1 DEF Consistent, Awaited
    <2>2. ASSUME ~m.late PROVE (\A s \in A : FALSE) /\ (\A a \in B : FALSE)
      <3>1. (\A s \in A : s.id = 0) /\ (\A a \in B : a.id = 0)
        BY <1>1, <2>2 DEF Consistent, Awaited
      <3>2. (\A s \in A : s.id \in 1..(k.next - 1)) /\ (\A a \in B : a.id \in 1..(k.next - 1))
        BY DEF Consistent, Issued
      <3> QED BY <1>1, <3>1, <3>2
    <2> QED BY <1>1, <2>1, <2>2 DEF Awaited
  <1>5. b => Done(m, A \cup {r}, B, x)
    BY <1>1 DEF Consistent, Done, Issued
  <1> QED BY <1>1, <1>2, <1>3, <1>4, <1>5 DEF Consistent

(* A request ends without an answer.                                       *)
LEMMA Ending ==
  ASSUME NEW b, NEW k \in ClientState, NEW A, NEW B, NEW x, Consistent(b, k, A, B, x),
         NEW m \in ClientState, m.next = k.next \/ (m.next = k.next + 1 /\ k.next <= MaxId),
         m.waits = 0,
         m.last \notin {"ok", "mismatch"} \/ (m.last = k.last /\ m.lastId = k.lastId),
         k.late => m.late,
         m.open /\ ~m.late => k.open /\ A = {} /\ B = {}
  PROVE  Consistent(b, m, A, B, x)
  <1>1. /\ k.next \in Nat /\ MaxId \in Nat /\ k.next \in 1..(MaxId + 1)
    BY SessionAssumption DEF ClientState, Consistent, Issued
  <1>2. Issued(m, A, B)
    <2>1. m.next \in 1..(MaxId + 1) /\ 0 < m.next /\ 1..(k.next - 1) \subseteq 1..(m.next - 1)
      BY <1>1
    <2> QED BY <2>1 DEF Consistent, Issued
  <1>3. Awaited(m, A, B)
    BY DEF Consistent, Awaited
  <1>4. b => Done(m, A, B, x)
    BY <1>1 DEF Consistent, Done
  <1> QED BY <1>2, <1>3, <1>4 DEF Consistent

(* A client reads a response, its own or another one.                      *)
LEMMA Receiving ==
  ASSUME NEW b, NEW k \in ClientState, NEW A, NEW B, NEW x, Consistent(b, k, A, B, x),
         k.open, k.waits # 0, NEW u \in B, u.answer # "mismatch",
         NEW B2 \in SUBSET B, \A a \in B2 : a.id # u.id,
         NEW m, m.next = k.next, m.waits = 0, m.lastId = k.waits, k.late => m.late,
         m.last = IF u.id = k.waits THEN u.answer ELSE "mismatch"
  PROVE  Consistent(b, m, A, B2, x)
  <1>1. /\ k.next \in Nat /\ MaxId \in Nat /\ k.waits \in Nat /\ k.next \in 1..(MaxId + 1)
        /\ k.waits < k.next
    BY SessionAssumption DEF ClientState, Consistent, Issued
  <1>2. Apart(A, B2)
    BY DEF Consistent, Apart
  <1>3. Issued(m, A, B2)
    BY <1>1 DEF Consistent, Issued
  <1>4. Awaited(m, A, B2)
    <2>1. ASSUME ~k.late PROVE u.id = k.waits /\ A = {} /\ B2 = {}
      <3>1. (\A r \in A : r.id = k.waits) /\ (\A a \in B : a.id = k.waits)
        BY <2>1 DEF Consistent, Awaited
      <3>2. u.id = k.waits
        BY <3>1
      <3>3. \A r \in A : r.id # u.id
        BY DEF Consistent, Apart
      <3> QED BY <3>1, <3>2, <3>3
    <2> QED BY <2>1 DEF Awaited
  <1>5. ASSUME b PROVE Done(m, A, B2, x)
    <2>1. Done(k, A, B, x)
      BY <1>5 DEF Consistent
    <2>2. m.last = "ok" => m.lastId \in 1..MaxId /\ x[m.lastId] = 1
      <3> SUFFICES ASSUME m.last = "ok" PROVE m.lastId \in 1..MaxId /\ x[m.lastId] = 1
        OBVIOUS
      <3>1. u.id = k.waits /\ u.answer = "ok"
        OBVIOUS
      <3>2. k.waits \in 1..MaxId
        BY <1>1
      <3> QED BY <2>1, <3>1, <3>2 DEF Done
    <2> QED BY <2>1, <2>2 DEF Done
  <1> QED BY <1>2, <1>3, <1>4, <1>5 DEF Consistent

-----------------------------------------------------------------------------
(* The session invariant.                                                  *)

AskedOf(c) == Asked(inbox[c], loop[c].running)
RepliesOf(c) == Replies(loop[c].finished, wire[c])

(* Every answer that the client has or may still read.                     *)
Told(c) == {a.answer : a \in RepliesOf(c)} \cup {client[c].last}

SInv ==
    /\ TypeOK
    /\ ~up => restarts < MaxRestarts
    /\ \A c \in Conns : ConnOK(c \in Callers, client[c], inbox[c], loop[c], wire[c], told[c],
                               executed[c])

(* A step of one connection, to these values.                              *)
Becoming(c, k, q, l, w, n, x) ==
    /\ client' = [client EXCEPT ![c] = k] /\ inbox' = [inbox EXCEPT ![c] = q]
    /\ loop' = [loop EXCEPT ![c] = l] /\ wire' = [wire EXCEPT ![c] = w]
    /\ told' = [told EXCEPT ![c] = n] /\ executed' = [executed EXCEPT ![c] = x]

(* What the bridge can notice of the other connections.                    *)
OthersSame(c) ==
    \A d \in Conns \ {c} : /\ client'[d] = client[d] /\ inbox'[d] = inbox[d]
                           /\ loop'[d] = loop[d] /\ wire'[d] = wire[d]

(* A step at c after which nothing new has been asked or answered.         *)
Calm(c) ==
    /\ AskedOf(c)' \subseteq AskedOf(c)
    /\ Told(c)' \subseteq Told(c) \cup {"closed", "timeout", "mismatch"}
    /\ client'[c].next = client[c].next
    /\ client[c].waits = 0 => client'[c].last = client[c].last

(* The parts of the invariant at one connection.                           *)
LEMMA SInvAt ==
  ASSUME SInv, NEW c \in Conns
  PROVE  /\ ConnTyped(client[c], inbox[c], loop[c], wire[c], told[c], executed[c])
         /\ ConnOK(c \in Callers, client[c], inbox[c], loop[c], wire[c], told[c], executed[c])
  BY DEF SInv, TypeOK, ConnTyped

(* A step of one connection that keeps its part keeps the invariant.       *)
LEMMA Local ==
  ASSUME SInv, NEW c \in Conns, NEW k, NEW q, NEW l, NEW w, NEW n, NEW x,
         Becoming(c, k, q, l, w, n, x), ConnTyped(k, q, l, w, n, x),
         ConnOK(c \in Callers, k, q, l, w, n, x),
         UNCHANGED <<up, restarts>>, published' \in 0..MaxEvents
  PROVE  /\ SInv' /\ OthersSame(c)
         /\ client'[c] = k /\ inbox'[c] = q /\ loop'[c] = l /\ wire'[c] = w
  <1>0. /\ client \in [Conns -> ClientState] /\ inbox \in [Conns -> Seq(Request)]
        /\ loop \in [Conns -> LoopState] /\ wire \in [Conns -> Seq(Frame)]
        /\ told \in [Conns -> Nat] /\ executed \in [Conns -> [1..MaxId -> Nat]]
    BY DEF SInv, TypeOK
  <1>1. /\ client' \in [Conns -> ClientState] /\ inbox' \in [Conns -> Seq(Request)]
        /\ loop' \in [Conns -> LoopState] /\ wire' \in [Conns -> Seq(Frame)]
        /\ told' \in [Conns -> Nat] /\ executed' \in [Conns -> [1..MaxId -> Nat]]
    BY <1>0 DEF Becoming, ConnTyped
  <1>2. /\ client'[c] = k /\ inbox'[c] = q /\ loop'[c] = l /\ wire'[c] = w
        /\ told'[c] = n /\ executed'[c] = x
    BY <1>0 DEF Becoming
  <1>3. \A d \in Conns \ {c} :
           /\ client'[d] = client[d] /\ inbox'[d] = inbox[d] /\ loop'[d] = loop[d]
           /\ wire'[d] = wire[d] /\ told'[d] = told[d] /\ executed'[d] = executed[d]
    BY <1>0 DEF Becoming
  <1>4. OthersSame(c)
    BY <1>3 DEF OthersSame
  <1>5. TypeOK'
    BY <1>1 DEF SInv, TypeOK
  <1>6. ASSUME NEW d \in Conns
        PROVE  ConnOK(d \in Callers, client'[d], inbox'[d], loop'[d], wire'[d], told'[d],
                      executed'[d])
    <2>1. CASE d = c
      BY <1>2, <2>1
    <2>2. CASE d # c
      BY <1>3, <2>2 DEF SInv
    <2> QED BY <2>1, <2>2
  <1> QED BY <1>2, <1>4, <1>5, <1>6 DEF SInv

(* A component that a step leaves alone.                                   *)
LEMMA Same ==
  ASSUME NEW f, NEW S, NEW T, f \in [S -> T], NEW c \in S
  PROVE  f = [f EXCEPT ![c] = f[c]]
  OBVIOUS

-----------------------------------------------------------------------------
(* The client's steps.                                                     *)

(* The values of an empty connection.                                      *)
LEMMA EmptyPlaces ==
  /\ Asked(<<>>, {}) = {} /\ OnceAsked(<<>>, {})
  /\ \A w : Replies({}, w) = {Reply(w[i].id, w[i].answer) : i \in Responses(w)}
  /\ Replies({}, <<>>) = {} /\ OnceReplied({}, <<>>)
  /\ \A F, w : OnceReplied(F, w) => OnceReplied({}, w)
  /\ NoLoop \in LoopState /\ NoLoop.running = {} /\ NoLoop.finished = {} /\ NoLoop.rx = 0
  BY DEF Asked, OnceAsked, Replies, OnceReplied, Responses, NoLoop, LoopState

(* Client::connect starts with nothing asked and nothing answered.         *)
LEMMA ConnectStep ==
  ASSUME SInv, NEW c \in Conns, Connect(c)
  PROVE  /\ SInv' /\ OthersSame(c) /\ AskedOf(c)' = {} /\ RepliesOf(c)' = {}
         /\ client'[c].open /\ client'[c].next = 1 /\ client'[c].last = "none"
  <1> DEFINE k == [NoClient EXCEPT !.open = TRUE]
             l == [NoLoop EXCEPT !.open = TRUE]
             x == [i \in 1..MaxId |-> 0]
  <1>1. /\ k \in ClientState /\ k.open = TRUE /\ k.next = 1 /\ k.waits = 0 /\ k.late = FALSE
        /\ k.last = "none" /\ k.lastId = 0
    BY DEF NoClient, ClientState
  <1>2. l \in LoopState /\ l.open = TRUE /\ l.running = {} /\ l.finished = {} /\ l.rx = 0
    BY DEF NoLoop, LoopState
  <1>3. x \in [1..MaxId -> Nat] /\ (\A i \in 1..MaxId : x[i] = 0)
    OBVIOUS
  <1>4. Becoming(c, k, <<>>, l, <<>>, 0, x)
    BY DEF Connect, Becoming
  <1> HIDE DEF k, l, x
  <1>5. ConnTyped(k, <<>>, l, <<>>, 0, x)
    BY <1>1, <1>2, <1>3 DEF ConnTyped
  <1>6. ConnOK(c \in Callers, k, <<>>, l, <<>>, 0, x)
    <2>1. Consistent(c \in Callers, k, {}, {}, x)
      BY <1>1, <1>3, SessionAssumption DEF Consistent, Apart, Issued, Awaited, Done
    <2>2. Ended(k, <<>>, l) /\ l.rx <= 0
      BY <1>1, <1>2 DEF Ended
    <2> QED BY <1>2, <2>1, <2>2, EmptyPlaces DEF ConnOK
  <1>7. UNCHANGED <<up, restarts>> /\ published' \in 0..MaxEvents
    BY DEF Connect, SInv, TypeOK
  <1>8. /\ SInv' /\ OthersSame(c)
        /\ client'[c] = k /\ inbox'[c] = <<>> /\ loop'[c] = l /\ wire'[c] = <<>>
    BY <1>4, <1>5, <1>6, <1>7, Local
  <1>9. AskedOf(c)' = {} /\ RepliesOf(c)' = {}
    BY <1>2, <1>8, EmptyPlaces DEF AskedOf, RepliesOf
  <1> QED BY <1>1, <1>8, <1>9

(* request_inner sends one request with the next id, or finds the          *)
(* connection closed.                                                      *)
LEMMA SendStep ==
  ASSUME SInv, NEW c \in Conns, NEW kind,
         [id |-> 1, kind |-> kind] \in Request, Send(c, kind)
  PROVE  /\ SInv' /\ OthersSame(c)
         /\ AskedOf(c)' \subseteq AskedOf(c) \cup {[id |-> client[c].next, kind |-> kind]}
         /\ RepliesOf(c)' = RepliesOf(c)
         /\ client'[c].next = client[c].next + 1
         /\ client'[c].last \in {client[c].last, "closed"}
  <1> DEFINE k == client[c]
             q == inbox[c]
             l == loop[c]
             w == wire[c]
             n == told[c]
             x == executed[c]
             A == AskedOf(c)
             B == RepliesOf(c)
             r == [id |-> k.next, kind |-> kind]
  <1>0. /\ ConnTyped(k, q, l, w, n, x) /\ ConnOK(c \in Callers, k, q, l, w, n, x)
        /\ Consistent(c \in Callers, k, A, B, x)
    BY SInvAt DEF ConnOK, AskedOf, RepliesOf
  <1>1. /\ client \in [Conns -> ClientState] /\ inbox \in [Conns -> Seq(Request)]
        /\ loop \in [Conns -> LoopState] /\ wire \in [Conns -> Seq(Frame)]
        /\ told \in [Conns -> Nat] /\ executed \in [Conns -> [1..MaxId -> Nat]]
    BY DEF SInv, TypeOK
  <1>2. UNCHANGED <<up, restarts>> /\ published' \in 0..MaxEvents
    BY DEF Send, SInv, TypeOK
  <1>3. /\ loop' = [loop EXCEPT ![c] = l] /\ wire' = [wire EXCEPT ![c] = w]
        /\ told' = [told EXCEPT ![c] = n] /\ executed' = [executed EXCEPT ![c] = x]
    BY <1>1, Same DEF Send
  <1>4. k.open /\ k.waits = 0 /\ k.next <= MaxId /\ k.next \in Nat /\ MaxId \in Nat
    BY <1>0, SessionAssumption DEF Send, ConnTyped, ClientState
  <1>5. r \in Request /\ r.id = k.next
    BY <1>4 DEF Request
  <1>6. CASE loop[c].open /\ inbox' = [inbox EXCEPT ![c] = Append(q, r)]
             /\ client' = [client EXCEPT ![c].next = k.next + 1, ![c].waits = k.next]
    <2> DEFINE m == [k EXCEPT !.next = k.next + 1, !.waits = k.next]
    <2>1. client' = [client EXCEPT ![c] = m]
      BY <1>1, <1>6
    <2>2. /\ m \in ClientState /\ m.next = k.next + 1 /\ m.waits = k.next
          /\ m.open = k.open /\ m.late = k.late /\ m.last = k.last /\ m.lastId = k.lastId
      <3>1. k \in ClientState
        BY <1>0 DEF ConnTyped
      <3> HIDE DEF k
      <3> DEFINE z == k.next + 1
                 u == k.next
      <3>2. z \in Nat /\ u \in Nat
        BY <1>4
      <3>3. m = [k EXCEPT !.next = z, !.waits = u]
        OBVIOUS
      <3> HIDE DEF z, u, m
      <3>4. /\ m \in ClientState /\ m.next = z /\ m.waits = u
            /\ m.open = k.open /\ m.late = k.late /\ m.last = k.last /\ m.lastId = k.lastId
        BY <3>1, <3>2, <3>3 DEF ClientState
      <3> QED BY <3>4 DEF z, u
    <2> HIDE DEF m, r, k, q, l, w, n, x, A, B
    <2>3. Becoming(c, m, Append(q, r), l, w, n, x)
      BY <1>3, <1>6, <2>1 DEF Becoming
    <2>4. /\ Append(q, r) \in Seq(Request)
          /\ Asked(Append(q, r), l.running) = A \cup {r}
          /\ OnceAsked(Append(q, r), l.running)
      <3>1. \A s \in A : s.id # r.id
        BY <1>0, <1>4, <1>5 DEF Consistent, Issued
      <3>2. A = Asked(q, l.running)
        BY DEF A, AskedOf, q, l
      <3>3. q \in Seq(Request) /\ OnceAsked(q, l.running)
        BY <1>0 DEF ConnTyped, ConnOK
      <3> QED BY <1>5, <3>1, <3>2, <3>3, AskedAppend
    <2>5. ConnTyped(m, Append(q, r), l, w, n, x)
      BY <1>0, <2>2, <2>4 DEF ConnTyped
    <2>6. Consistent(c \in Callers, m, A \cup {r}, B, x)
      BY <1>0, <1>4, <1>5, <2>2, Sending DEF ConnTyped
    <2>7. Ended(m, Append(q, r), l)
      BY <1>4, <1>6, <2>2 DEF Ended, l, k
    <2>8. ConnOK(c \in Callers, m, Append(q, r), l, w, n, x)
      BY <1>0, <2>4, <2>6, <2>7 DEF ConnOK, B, RepliesOf, l, w
    <2>9. /\ SInv' /\ OthersSame(c)
          /\ client'[c] = m /\ inbox'[c] = Append(q, r) /\ loop'[c] = l /\ wire'[c] = w
      BY <1>2, <2>3, <2>5, <2>8, Local
    <2>10. AskedOf(c)' = A \cup {r} /\ RepliesOf(c)' = B
      BY <2>4, <2>9 DEF AskedOf, RepliesOf, B, l, w
    <2> QED BY <2>2, <2>9, <2>10 DEF A, B, r, k
  <1>7. CASE ~loop[c].open /\ UNCHANGED inbox
             /\ client' = [client EXCEPT ![c].next = k.next + 1,
                                         ![c].last = "closed", ![c].lastId = k.next]
    <2> DEFINE m == [k EXCEPT !.next = k.next + 1, !.last = "closed", !.lastId = k.next]
    <2>1. client' = [client EXCEPT ![c] = m]
      BY <1>1, <1>7
    <2>2. /\ m \in ClientState /\ m.next = k.next + 1 /\ m.waits = k.waits
          /\ m.open = k.open /\ m.late = k.late /\ m.last = "closed"
      <3>1. k \in ClientState
        BY <1>0 DEF ConnTyped
      <3> HIDE DEF k
      <3>2. k.next \in Nat /\ k.next + 1 \in Nat
        BY <1>4
      <3> QED BY <3>1, <3>2 DEF ClientState
    <2>3. Becoming(c, m, q, l, w, n, x)
      <3>1. inbox' = [inbox EXCEPT ![c] = q]
        BY <1>1, <1>7, Same
      <3> HIDE DEF m
      <3> QED BY <1>3, <2>1, <3>1 DEF Becoming
    <2> HIDE DEF m, r, k, q, l, w, n, x, A, B
    <2>4. ConnTyped(m, q, l, w, n, x)
      BY <1>0, <2>2 DEF ConnTyped
    <2>5. m.open /\ ~m.late => A = {} /\ B = {}
      <3>1. ASSUME ~m.late PROVE A = {} /\ B = {}
        <4>1. (\A s \in A : s.id = 0) /\ (\A a \in B : a.id = 0)
          BY <1>0, <1>4, <2>2, <3>1 DEF Consistent, Awaited
        <4>2. (\A s \in A : s.id \in 1..(k.next - 1)) /\ (\A a \in B : a.id \in 1..(k.next - 1))
          BY <1>0 DEF Consistent, Issued
        <4> QED BY <1>4, <4>1, <4>2
      <3> QED BY <3>1
    <2>6. Consistent(c \in Callers, m, A, B, x)
      BY <1>0, <1>4, <2>2, <2>5, Ending DEF ConnTyped
    <2>7. Ended(m, q, l)
      BY <1>0, <1>4, <2>2 DEF Ended, ConnOK
    <2>8. ConnOK(c \in Callers, m, q, l, w, n, x)
      BY <1>0, <2>6, <2>7 DEF ConnOK, A, B, AskedOf, RepliesOf, q, l, w
    <2>9. /\ SInv' /\ OthersSame(c)
          /\ client'[c] = m /\ inbox'[c] = q /\ loop'[c] = l /\ wire'[c] = w
      BY <1>2, <2>3, <2>4, <2>8, Local
    <2>10. AskedOf(c)' = A /\ RepliesOf(c)' = B
      BY <2>9 DEF AskedOf, RepliesOf, A, B, q, l, w
    <2> QED BY <2>2, <2>9, <2>10 DEF A, B, k
  <1> QED BY <1>6, <1>7 DEF Send

(* How a request that ends leaves its client.                              *)
LEMMA FinishFields ==
  ASSUME SInv, NEW c \in Conns,
         NEW how \in Answer \cup {"none", "timeout", "mismatch", "closed"}, Finish(c, how)
  PROVE  \E m \in ClientState :
            /\ client' = [client EXCEPT ![c] = m]
            /\ m.open = client[c].open /\ m.next = client[c].next /\ m.waits = 0
            /\ m.last = how /\ m.lastId = client[c].waits
            /\ client[c].late => m.late
            /\ how = "timeout" => m.late
  <1> DEFINE k == client[c]
             late == k.late \/ how = "timeout"
             m == [k EXCEPT !.waits = 0, !.last = how, !.lastId = k.waits, !.late = late]
  <1>1. client \in [Conns -> ClientState] /\ k \in ClientState
    BY DEF SInv, TypeOK
  <1>2. late \in BOOLEAN
    OBVIOUS
  <1>3. client' = [client EXCEPT ![c] = m]
    <2> HIDE DEF late
    <2>1. client' = [client EXCEPT ![c].waits = 0, ![c].last = how, ![c].lastId = k.waits,
                                   ![c].late = late]
      BY DEF Finish, late
    <2> QED BY <1>1, <2>1
  <1> HIDE DEF late, k
  <1>4. /\ m \in ClientState /\ m.open = k.open /\ m.next = k.next /\ m.waits = 0
        /\ m.last = how /\ m.lastId = k.waits /\ m.late = late
    BY <1>1, <1>2 DEF ClientState
  <1> HIDE DEF m
  <1>5. (k.late => m.late) /\ (how = "timeout" => m.late)
    BY <1>4 DEF late
  <1> QED BY <1>3, <1>4, <1>5 DEF k

(* A request that ends without a response, or with one that says so.       *)
LEMMA FinishStep ==
  ASSUME SInv, NEW c \in Conns, client[c].waits # 0,
         NEW how \in {"timeout", "closed"}, Finish(c, how),
         how = "closed" => wire[c] = <<>> /\ ~loop[c].open,
         UNCHANGED <<up, restarts, published, inbox, loop, wire, told, executed>>
  PROVE  SInv' /\ OthersSame(c) /\ Calm(c)
  <1> DEFINE k == client[c]
             q == inbox[c]
             l == loop[c]
             w == wire[c]
             n == told[c]
             x == executed[c]
             A == AskedOf(c)
             B == RepliesOf(c)
  <1>0. /\ ConnTyped(k, q, l, w, n, x) /\ ConnOK(c \in Callers, k, q, l, w, n, x)
        /\ Consistent(c \in Callers, k, A, B, x)
    BY SInvAt DEF ConnOK, AskedOf, RepliesOf
  <1>1. PICK m \in ClientState :
            /\ client' = [client EXCEPT ![c] = m]
            /\ m.open = k.open /\ m.next = k.next /\ m.waits = 0
            /\ m.last = how /\ m.lastId = k.waits
            /\ k.late => m.late
            /\ how = "timeout" => m.late
    BY FinishFields
  <1>2. Becoming(c, m, q, l, w, n, x)
    <2>1. /\ inbox \in [Conns -> Seq(Request)]
          /\ loop \in [Conns -> LoopState] /\ wire \in [Conns -> Seq(Frame)]
          /\ told \in [Conns -> Nat] /\ executed \in [Conns -> [1..MaxId -> Nat]]
      BY DEF SInv, TypeOK
    <2>2. /\ inbox' = [inbox EXCEPT ![c] = q]
          /\ loop' = [loop EXCEPT ![c] = l] /\ wire' = [wire EXCEPT ![c] = w]
          /\ told' = [told EXCEPT ![c] = n] /\ executed' = [executed EXCEPT ![c] = x]
      BY <2>1, Same
    <2> QED BY <1>1, <2>2 DEF Becoming
  <1>3. k.open
    BY <1>0 DEF ConnOK, Ended
  <1>4. m.open /\ ~m.late => k.open /\ A = {} /\ B = {}
    <2>1. ASSUME ~m.late PROVE A = {} /\ B = {}
      <3>1. wire[c] = <<>> /\ loop[c] = NoLoop /\ inbox[c] = <<>>
        BY <1>0, <1>1, <2>1 DEF ConnOK, Ended
      <3> QED BY <3>1, EmptyPlaces DEF AskedOf, RepliesOf
    <2> QED BY <1>3, <2>1
  <1> HIDE DEF k, q, l, w, n, x, A, B
  <1>5. ConnTyped(m, q, l, w, n, x)
    BY <1>0 DEF ConnTyped
  <1>6. Consistent(c \in Callers, m, A, B, x)
    <2>1. k \in ClientState
      BY <1>0 DEF ConnTyped
    <2>2. m.last \notin {"ok", "mismatch"}
      BY <1>1
    <2> QED BY <1>0, <1>1, <1>4, <2>1, <2>2, Ending
  <1>7. ConnOK(c \in Callers, m, q, l, w, n, x)
    <2>1. Ended(m, q, l)
      BY <1>0, <1>1 DEF Ended, ConnOK
    <2> QED BY <1>0, <1>6, <2>1 DEF ConnOK, A, B, AskedOf, RepliesOf, q, l, w
  <1>8. UNCHANGED <<up, restarts>> /\ published' \in 0..MaxEvents
    BY DEF SInv, TypeOK
  <1>9. /\ SInv' /\ OthersSame(c)
        /\ client'[c] = m /\ inbox'[c] = q /\ loop'[c] = l /\ wire'[c] = w
    BY <1>2, <1>5, <1>7, <1>8, Local
  <1>10. AskedOf(c)' = AskedOf(c) /\ RepliesOf(c)' = RepliesOf(c)
    BY <1>9 DEF AskedOf, RepliesOf, q, l, w
  <1>11. Calm(c)
    BY <1>1, <1>9, <1>10 DEF Calm, Told, k
  <1> QED BY <1>9, <1>11

(* The stream ends.                                                        *)
LEMMA RecvClosedStep ==
  ASSUME SInv, NEW c \in Conns, RecvClosed(c)
  PROVE  SInv' /\ OthersSame(c) /\ Calm(c)
  BY FinishStep DEF RecvClosed

(* The client stops waiting.                                               *)
LEMMA TimeoutStep ==
  ASSUME SInv, NEW c \in Conns, Timeout(c)
  PROVE  SInv' /\ OthersSame(c) /\ Calm(c)
  BY FinishStep DEF Timeout

(* request_inner reads a frame.                                            *)
LEMMA RecvStep ==
  ASSUME SInv, NEW c \in Conns, Recv(c)
  PROVE  SInv' /\ OthersSame(c) /\ Calm(c)
  <1> DEFINE k == client[c]
             q == inbox[c]
             l == loop[c]
             w == wire[c]
             n == told[c]
             x == executed[c]
             A == AskedOf(c)
             B == RepliesOf(c)
             v == Tail(w)
             f == Head(w)
             B2 == Replies(l.finished, v)
  <1>0. /\ ConnTyped(k, q, l, w, n, x) /\ ConnOK(c \in Callers, k, q, l, w, n, x)
        /\ Consistent(c \in Callers, k, A, B, x)
    BY SInvAt DEF ConnOK, AskedOf, RepliesOf
  <1>1. k.waits # 0 /\ w # <<>> /\ w \in Seq(Frame) /\ k \in ClientState
        /\ OnceReplied(l.finished, w) /\ k.open
    BY <1>0 DEF Recv, ConnOK, ConnTyped, Ended
  <1>2. /\ inbox' = [inbox EXCEPT ![c] = q]
        /\ loop' = [loop EXCEPT ![c] = l] /\ wire' = [wire EXCEPT ![c] = v]
        /\ told' = [told EXCEPT ![c] = n] /\ executed' = [executed EXCEPT ![c] = x]
        /\ client = [client EXCEPT ![c] = k]
    <2>1. /\ inbox \in [Conns -> Seq(Request)] /\ client \in [Conns -> ClientState]
          /\ loop \in [Conns -> LoopState] /\ wire \in [Conns -> Seq(Frame)]
          /\ told \in [Conns -> Nat] /\ executed \in [Conns -> [1..MaxId -> Nat]]
      BY DEF SInv, TypeOK
    <2>2. UNCHANGED <<up, restarts, published, inbox, loop, told, executed>>
          /\ wire' = [wire EXCEPT ![c] = v]
      BY DEF Recv
    <2> QED BY <2>1, <2>2, Same
  <1>3. /\ v \in Seq(Frame) /\ f \in Frame /\ B2 \subseteq B /\ OnceReplied(l.finished, v)
        /\ f.type = "response" =>
              Reply(f.id, f.answer) \in B /\ \A a \in B2 : a.id # f.id
    BY <1>1, RepliesTail DEF RepliesOf
  <1>4. UNCHANGED <<up, restarts>> /\ published' \in 0..MaxEvents
    BY DEF Recv, SInv, TypeOK
  <1>5. A = Asked(q, l.running) /\ Ended(k, q, l) /\ l.rx <= n /\ OnceAsked(q, l.running)
    BY <1>0 DEF AskedOf, ConnOK
  <1>6. CASE f.type # "response" /\ UNCHANGED client
    <2> HIDE DEF k, q, l, w, n, x, A, B, v, f, B2
    <2>1. Becoming(c, k, q, l, v, n, x)
      BY <1>2, <1>6 DEF Becoming
    <2>2. ConnTyped(k, q, l, v, n, x)
      BY <1>0, <1>3 DEF ConnTyped
    <2>3. Consistent(c \in Callers, k, A, B2, x)
      BY <1>0, <1>3, Fewer
    <2>4. ConnOK(c \in Callers, k, q, l, v, n, x)
      BY <1>3, <1>5, <2>3 DEF ConnOK, B2
    <2>5. /\ SInv' /\ OthersSame(c)
          /\ client'[c] = k /\ inbox'[c] = q /\ loop'[c] = l /\ wire'[c] = v
      BY <1>4, <2>1, <2>2, <2>4, Local
    <2>6. AskedOf(c)' = A /\ RepliesOf(c)' = B2
      BY <1>5, <2>5 DEF AskedOf, RepliesOf, B2
    <2>7. Calm(c)
      BY <1>3, <2>5, <2>6 DEF Calm, Told, A, B, k
    <2> QED BY <2>5, <2>7
  <1>7. CASE /\ f.type = "response"
             /\ Finish(c, IF f.id = k.waits THEN f.answer ELSE "mismatch")
    <2> DEFINE how == IF f.id = k.waits THEN f.answer ELSE "mismatch"
               u == Reply(f.id, f.answer)
    <2>1. f.answer \in Answer /\ f.answer # "mismatch"
      BY <1>3, <1>7, FrameShape, SessionAssumption DEF Answer
    <2>2. how \in Answer \cup {"none", "timeout", "mismatch", "closed"}
      BY <2>1
    <2>3. PICK m \in ClientState :
            /\ client' = [client EXCEPT ![c] = m]
            /\ m.open = k.open /\ m.next = k.next /\ m.waits = 0
            /\ m.last = how /\ m.lastId = k.waits
            /\ k.late => m.late
            /\ how = "timeout" => m.late
      BY <1>7, <2>2, FinishFields
    <2>4. u.id = f.id /\ u.answer = f.answer
      BY DEF Reply
    <2> HIDE DEF k, q, l, w, n, x, A, B, v, f, B2, u
    <2>5. Becoming(c, m, q, l, v, n, x)
      BY <1>2, <2>3 DEF Becoming
    <2>6. ConnTyped(m, q, l, v, n, x)
      BY <1>0, <1>3 DEF ConnTyped
    <2>7. Consistent(c \in Callers, m, A, B2, x)
      <3>1. u \in B /\ B2 \in SUBSET B /\ \A a \in B2 : a.id # u.id
        BY <1>3, <1>7, <2>4 DEF u
      <3>2. m.last = IF u.id = k.waits THEN u.answer ELSE "mismatch"
        BY <2>3, <2>4
      <3>3. u.answer # "mismatch"
        BY <2>1, <2>4
      <3>4. m.next = k.next /\ m.waits = 0 /\ m.lastId = k.waits /\ (k.late => m.late)
        BY <2>3
      <3> HIDE DEF how
      <3> QED BY <1>0, <1>1, <3>1, <3>2, <3>3, <3>4, Receiving
    <2>8. ConnOK(c \in Callers, m, q, l, v, n, x)
      <3>1. Ended(m, q, l)
        BY <1>5, <2>3 DEF Ended
      <3> QED BY <1>3, <1>5, <2>7, <3>1 DEF ConnOK, B2
    <2>9. /\ SInv' /\ OthersSame(c)
          /\ client'[c] = m /\ inbox'[c] = q /\ loop'[c] = l /\ wire'[c] = v
      BY <1>4, <2>5, <2>6, <2>8, Local
    <2>10. AskedOf(c)' = A /\ RepliesOf(c)' = B2
      BY <1>5, <2>9 DEF AskedOf, RepliesOf, B2
    <2>11. Calm(c)
      <3>1. how \in {a.answer : a \in B} \cup {"mismatch"}
        BY <1>3, <1>7, <2>4 DEF u
      <3>2. Told(c)' \subseteq {a.answer : a \in B} \cup {"mismatch"}
        BY <1>3, <2>3, <2>9, <2>10, <3>1 DEF Told
      <3> QED BY <1>1, <2>3, <2>9, <2>10, <3>2 DEF Calm, Told, A, B, k
    <2> QED BY <2>9, <2>11
  <1> QED BY <1>6, <1>7 DEF Recv

(* A client that is dropped.                                               *)
Dropped(k, m) == m = [k EXCEPT !.open = FALSE, !.waits = 0]

(* What remains of its connection.                                         *)
LEMMA LeavingConn ==
  ASSUME NEW b, NEW k, NEW q, NEW l, NEW w, NEW n, NEW x,
         ConnTyped(k, q, l, w, n, x), ConnOK(b, k, q, l, w, n, x),
         NEW m, Dropped(k, m)
  PROVE  /\ ConnTyped(m, q, l, w, n, x) /\ ConnOK(b, m, q, l, w, n, x)
         /\ m.next = k.next /\ m.last = k.last
  <1> DEFINE A == Asked(q, l.running)
             B == Replies(l.finished, w)
  <1>0. k \in ClientState /\ Consistent(b, k, A, B, x)
    BY DEF ConnTyped, ConnOK
  <1>1. /\ m \in ClientState /\ m.open = FALSE /\ m.waits = 0 /\ m.next = k.next
        /\ m.late = k.late /\ m.last = k.last /\ m.lastId = k.lastId
    BY <1>0 DEF ClientState, Dropped
  <1>2. ConnTyped(m, q, l, w, n, x)
    BY <1>1 DEF ConnTyped
  <1>3. Consistent(b, m, A, B, x)
    <2> HIDE DEF A, B
    <2>1. (m.last = k.last /\ m.lastId = k.lastId) /\ (k.late => m.late) /\ ~m.open
      BY <1>1
    <2>2. m \in ClientState /\ m.next = k.next /\ m.waits = 0
      BY <1>1
    <2> QED BY <1>0, <2>1, <2>2, Ending
  <1>4. Ended(m, q, l)
    BY <1>1 DEF Ended, ConnOK
  <1>5. ConnOK(b, m, q, l, w, n, x)
    BY <1>3, <1>4 DEF ConnOK
  <1> QED BY <1>1, <1>2, <1>5

(* The client is dropped.                                                  *)
LEMMA LeaveStep ==
  ASSUME SInv, NEW c \in Conns, Leave(c)
  PROVE  /\ SInv' /\ OthersSame(c)
         /\ AskedOf(c)' = AskedOf(c) /\ RepliesOf(c)' = RepliesOf(c)
         /\ client'[c].next = client[c].next /\ client'[c].last = client[c].last
  <1> DEFINE k == client[c]
             m == [k EXCEPT !.open = FALSE, !.waits = 0]
             q == inbox[c]
             l == loop[c]
             w == wire[c]
             n == told[c]
             x == executed[c]
  <1>0. ConnTyped(k, q, l, w, n, x) /\ ConnOK(c \in Callers, k, q, l, w, n, x)
    BY SInvAt
  <1>1. client' = [client EXCEPT ![c] = m]
    BY DEF Leave, SInv, TypeOK
  <1>2. Becoming(c, m, q, l, w, n, x)
    <2>1. /\ inbox \in [Conns -> Seq(Request)]
          /\ loop \in [Conns -> LoopState] /\ wire \in [Conns -> Seq(Frame)]
          /\ told \in [Conns -> Nat] /\ executed \in [Conns -> [1..MaxId -> Nat]]
      BY DEF SInv, TypeOK
    <2>2. /\ inbox' = [inbox EXCEPT ![c] = q]
          /\ loop' = [loop EXCEPT ![c] = l] /\ wire' = [wire EXCEPT ![c] = w]
          /\ told' = [told EXCEPT ![c] = n] /\ executed' = [executed EXCEPT ![c] = x]
      BY <2>1, Same DEF Leave
    <2> HIDE DEF m
    <2> QED BY <1>1, <2>2 DEF Becoming
  <1>3. UNCHANGED <<up, restarts>> /\ published' \in 0..MaxEvents
    BY DEF SInv, TypeOK, Leave
  <1>m. Dropped(k, m)
    BY DEF Dropped
  <1> HIDE DEF k, q, l, w, n, x, m
  <1>4. /\ ConnTyped(m, q, l, w, n, x) /\ ConnOK(c \in Callers, m, q, l, w, n, x)
        /\ m.next = k.next /\ m.last = k.last
    BY <1>0, <1>m, LeavingConn
  <1>5. /\ SInv' /\ OthersSame(c)
        /\ client'[c] = m /\ inbox'[c] = q /\ loop'[c] = l /\ wire'[c] = w
    BY <1>2, <1>3, <1>4, Local
  <1>6. AskedOf(c)' = AskedOf(c) /\ RepliesOf(c)' = RepliesOf(c)
    BY <1>5 DEF AskedOf, RepliesOf, q, l, w
  <1> QED BY <1>4, <1>5, <1>6 DEF k

-----------------------------------------------------------------------------
(* The steps of the connection loop.                                       *)

(* A step that answers nothing and forgets or moves what there is.         *)
LEMMA LoopStep ==
  ASSUME SInv, NEW c \in Conns, NEW q \in Seq(Request), NEW l \in LoopState,
         NEW w \in Seq(Frame), NEW n \in Nat,
         inbox' = [inbox EXCEPT ![c] = q], loop' = [loop EXCEPT ![c] = l],
         wire' = [wire EXCEPT ![c] = w], told' = [told EXCEPT ![c] = n],
         UNCHANGED <<up, restarts, published, client, executed>>,
         OnceAsked(q, l.running), OnceReplied(l.finished, w),
         Asked(q, l.running) \subseteq AskedOf(c),
         Replies(l.finished, w) \subseteq RepliesOf(c),
         ~l.open => l = NoLoop /\ q = <<>>,
         l.rx <= n
  PROVE  SInv' /\ OthersSame(c) /\ Calm(c)
  <1> DEFINE k == client[c]
             x == executed[c]
             A == Asked(q, l.running)
             B == Replies(l.finished, w)
  <1>0. /\ ConnTyped(k, inbox[c], loop[c], wire[c], told[c], x)
        /\ Consistent(c \in Callers, k, AskedOf(c), RepliesOf(c), x)
        /\ Ended(k, inbox[c], loop[c])
    BY SInvAt DEF ConnOK, AskedOf, RepliesOf
  <1>1. Becoming(c, k, q, l, w, n, x)
    <2>1. client \in [Conns -> ClientState] /\ executed \in [Conns -> [1..MaxId -> Nat]]
      BY DEF SInv, TypeOK
    <2>2. client' = [client EXCEPT ![c] = k] /\ executed' = [executed EXCEPT ![c] = x]
      BY <2>1, Same
    <2> QED BY <2>2 DEF Becoming
  <1> HIDE DEF k, x
  <1>2. ConnTyped(k, q, l, w, n, x)
    BY <1>0 DEF ConnTyped
  <1>3. Consistent(c \in Callers, k, A, B, x)
    <2> HIDE DEF A, B
    <2>1. A \subseteq AskedOf(c) /\ B \subseteq RepliesOf(c)
      BY DEF A, B
    <2> QED BY <1>0, <2>1, Fewer
  <1>4. ConnOK(c \in Callers, k, q, l, w, n, x)
    BY <1>0, <1>3 DEF ConnOK, Ended
  <1>5. UNCHANGED <<up, restarts>> /\ published' \in 0..MaxEvents
    BY DEF SInv, TypeOK
  <1>6. /\ SInv' /\ OthersSame(c)
        /\ client'[c] = k /\ inbox'[c] = q /\ loop'[c] = l /\ wire'[c] = w
    BY <1>1, <1>2, <1>4, <1>5, Local
  <1>7. AskedOf(c)' = A /\ RepliesOf(c)' = B
    BY <1>6 DEF AskedOf, RepliesOf
  <1>8. Calm(c)
    BY <1>6, <1>7 DEF Calm, Told, k
  <1> QED BY <1>6, <1>8

(* What the parts of a connection are.                                     *)
LEMMA PartsOf ==
  ASSUME SInv, NEW c \in Conns
  PROVE  /\ inbox[c] \in Seq(Request) /\ loop[c] \in LoopState /\ wire[c] \in Seq(Frame)
         /\ told[c] \in Nat /\ loop[c].rx <= told[c] /\ loop[c].rx \in Nat
         /\ OnceAsked(inbox[c], loop[c].running) /\ OnceReplied(loop[c].finished, wire[c])
         /\ AskedOf(c) = Asked(inbox[c], loop[c].running)
         /\ RepliesOf(c) = Replies(loop[c].finished, wire[c])
         /\ inbox = [inbox EXCEPT ![c] = inbox[c]] /\ loop = [loop EXCEPT ![c] = loop[c]]
         /\ wire = [wire EXCEPT ![c] = wire[c]] /\ told = [told EXCEPT ![c] = told[c]]
         /\ client = [client EXCEPT ![c] = client[c]]
         /\ executed = [executed EXCEPT ![c] = executed[c]]
         /\ published \in Nat
  <1>1. /\ inbox[c] \in Seq(Request) /\ loop[c] \in LoopState /\ wire[c] \in Seq(Frame)
        /\ told[c] \in Nat /\ loop[c].rx <= told[c]
        /\ OnceAsked(inbox[c], loop[c].running) /\ OnceReplied(loop[c].finished, wire[c])
    BY SInvAt DEF ConnTyped, ConnOK
  <1>2. loop[c].rx \in Nat
    BY <1>1 DEF LoopState
  <1>3. /\ client \in [Conns -> ClientState] /\ inbox \in [Conns -> Seq(Request)]
        /\ loop \in [Conns -> LoopState] /\ wire \in [Conns -> Seq(Frame)]
        /\ told \in [Conns -> Nat] /\ executed \in [Conns -> [1..MaxId -> Nat]]
        /\ published \in Nat
    BY DEF SInv, TypeOK
  <1> QED BY <1>1, <1>2, <1>3, Same DEF AskedOf, RepliesOf

(* A task is spawned for the first request of the inbox.                   *)
LEMMA SpawnStep ==
  ASSUME SInv, NEW c \in Conns, Spawn(c)
  PROVE  SInv' /\ OthersSame(c) /\ Calm(c)
  <1> DEFINE l == loop[c]
             q == inbox[c]
             r == Head(q)
             R == l.running \cup {r}
             m == [l EXCEPT !.running = R]
  <1>1. q \in Seq(Request) /\ q # <<>> /\ l \in LoopState /\ OnceAsked(q, l.running) /\ l.open
    BY PartsOf DEF Spawn, Selecting
  <1>2. /\ Tail(q) \in Seq(Request) /\ r \in Request /\ OnceAsked(Tail(q), R)
        /\ Asked(q, l.running) = Asked(Tail(q), l.running) \cup {r}
    BY <1>1, AskedTail
  <1>3. loop' = [loop EXCEPT ![c] = m] /\ inbox' = [inbox EXCEPT ![c] = Tail(q)]
        /\ UNCHANGED <<up, restarts, published, client, wire, told, executed>>
    BY DEF Spawn, SInv, TypeOK
  <1> HIDE DEF r, R
  <1>4. m \in LoopState /\ m.running = R /\ m.finished = l.finished /\ m.rx = l.rx /\ m.open
    BY <1>1, <1>2 DEF LoopState, R
  <1>5. Asked(Tail(q), R) = Asked(q, l.running)
    BY <1>2 DEF Asked, R
  <1> HIDE DEF m, l, q
  <1>6. /\ OnceAsked(Tail(q), m.running) /\ OnceReplied(m.finished, wire[c])
        /\ Asked(Tail(q), m.running) \subseteq AskedOf(c)
        /\ Replies(m.finished, wire[c]) \subseteq RepliesOf(c)
        /\ m.rx <= told[c] /\ told[c] \in Nat /\ wire[c] \in Seq(Frame)
        /\ wire' = [wire EXCEPT ![c] = wire[c]] /\ told' = [told EXCEPT ![c] = told[c]]
    BY <1>2, <1>3, <1>4, <1>5, PartsOf DEF q, l
  <1> QED BY <1>2, <1>3, <1>4, <1>6, LoopStep

(* The steps of a snapshot: the loop goes on, with a frame or without.     *)
LEMMA SnapshotStep ==
  ASSUME SInv, NEW c \in Conns, CountMemories(c) \/ CountFails(c)
  PROVE  SInv' /\ OthersSame(c) /\ Calm(c)
  <1>0. loop \in [Conns -> LoopState] /\ loop[c] \in LoopState /\ loop[c].open
        /\ published \in Nat
    BY PartsOf DEF CountMemories, CountFails, SInv, TypeOK
  <1>1. PICK m \in LoopState : /\ loop' = [loop EXCEPT ![c] = m]
                               /\ m.running = loop[c].running /\ m.finished = loop[c].finished
                               /\ m.rx = loop[c].rx /\ m.open
    <2>1. CASE CountMemories(c)
      <3> DEFINE m == [loop[c] EXCEPT !.at = "send", !.count = published]
      <3>1. loop' = [loop EXCEPT ![c] = m]
        BY <1>0, <2>1 DEF CountMemories
      <3>2. m \in LoopState /\ m.running = loop[c].running /\ m.finished = loop[c].finished
            /\ m.rx = loop[c].rx /\ m.open
        BY <1>0 DEF LoopState
      <3> QED BY <3>1, <3>2
    <2>2. CASE CountFails(c)
      <3> DEFINE m == [loop[c] EXCEPT !.at = "select"]
      <3>1. loop' = [loop EXCEPT ![c] = m]
        BY <1>0, <2>2 DEF CountFails
      <3>2. m \in LoopState /\ m.running = loop[c].running /\ m.finished = loop[c].finished
            /\ m.rx = loop[c].rx /\ m.open
        BY <1>0 DEF LoopState
      <3> QED BY <3>1, <3>2
    <2> QED BY <2>1, <2>2
  <1>2. UNCHANGED <<up, restarts, published, client, inbox, wire, told, executed>>
    BY DEF CountMemories, CountFails
  <1>3. /\ OnceAsked(inbox[c], m.running) /\ OnceReplied(m.finished, wire[c])
        /\ Asked(inbox[c], m.running) \subseteq AskedOf(c)
        /\ Replies(m.finished, wire[c]) \subseteq RepliesOf(c)
        /\ m.rx <= told[c] /\ told[c] \in Nat /\ wire[c] \in Seq(Frame)
        /\ inbox[c] \in Seq(Request) /\ inbox' = [inbox EXCEPT ![c] = inbox[c]]
        /\ wire' = [wire EXCEPT ![c] = wire[c]] /\ told' = [told EXCEPT ![c] = told[c]]
    BY <1>1, <1>2, PartsOf
  <1> QED BY <1>1, <1>2, <1>3, LoopStep

(* A frame that is no response is put on the wire.                         *)
LEMMA EventStep ==
  ASSUME SInv, NEW c \in Conns, NEW f \in Frame, f.type # "response", Put(c, f),
         NEW m \in LoopState, loop' = [loop EXCEPT ![c] = m],
         m.running = loop[c].running, m.finished = loop[c].finished, m.open,
         NEW n \in Nat, told' = [told EXCEPT ![c] = n], m.rx <= n,
         UNCHANGED <<up, restarts, published, client, inbox, executed>>
  PROVE  SInv' /\ OthersSame(c) /\ Calm(c)
  <1> DEFINE w == wire[c]
             v == Append(w, f)
  <1>1. w \in Seq(Frame) /\ OnceReplied(m.finished, w)
    BY PartsOf
  <1>2. v \in Seq(Frame) /\ OnceReplied(m.finished, v)
        /\ Replies(m.finished, v) = Replies(m.finished, w)
    BY <1>1, RepliesAppend
  <1>3. wire' = [wire EXCEPT ![c] = v]
    BY DEF Put
  <1> HIDE DEF v
  <1>4. /\ OnceAsked(inbox[c], m.running)
        /\ Asked(inbox[c], m.running) \subseteq AskedOf(c)
        /\ Replies(m.finished, v) \subseteq RepliesOf(c)
        /\ inbox[c] \in Seq(Request) /\ inbox' = [inbox EXCEPT ![c] = inbox[c]]
    BY <1>2, PartsOf
  <1> QED BY <1>2, <1>3, <1>4, LoopStep

(* The later of two positions.                                             *)
LEMMA LaterType ==
  ASSUME NEW m \in Nat, NEW n \in Nat
  PROVE  Later(m, n) \in Nat /\ m <= Later(m, n) /\ n <= Later(m, n)
  BY DEF Later

(* The snapshot is sent.                                                   *)
LEMMA SendSnapshotStep ==
  ASSUME SInv, NEW c \in Conns, SendSnapshot(c)
  PROVE  SInv' /\ OthersSame(c) /\ Calm(c)
  <1> DEFINE l == loop[c]
             m == [l EXCEPT !.at = "select", !.count = 0]
             f == [type |-> "state", seq |-> l.count]
             n == Later(told[c], l.count + 1)
  <1>1. /\ loop \in [Conns -> LoopState] /\ l \in LoopState /\ l.open /\ told[c] \in Nat
        /\ l.rx <= told[c] /\ l.rx \in Nat
    BY PartsOf DEF SendSnapshot, SInv, TypeOK
  <1>2. /\ loop' = [loop EXCEPT ![c] = m] /\ told' = [told EXCEPT ![c] = n] /\ Put(c, f)
        /\ UNCHANGED <<up, restarts, published, client, inbox, executed>>
    BY <1>1 DEF SendSnapshot
  <1>3. l.count \in Nat
    BY <1>1 DEF LoopState
  <1>4. f \in Frame /\ f.type # "response"
    BY <1>3 DEF Frame
  <1>5. /\ m \in LoopState /\ m.running = l.running /\ m.finished = l.finished /\ m.open
        /\ m.rx = l.rx
    BY <1>1 DEF LoopState
  <1>6. n \in Nat /\ told[c] <= n
    <2>1. l.count + 1 \in Nat
      BY <1>3
    <2> QED BY <1>1, <2>1, LaterType
  <1> HIDE DEF f, m, n
  <1>7. m.rx <= n
    BY <1>1, <1>5, <1>6
  <1> QED BY <1>2, <1>4, <1>5, <1>6, <1>7, EventStep DEF l

(* The next event, or the number of those that were overwritten.           *)
LEMMA DeliverStep ==
  ASSUME SInv, NEW c \in Conns, Deliver(c)
  PROVE  SInv' /\ OthersSame(c) /\ Calm(c)
  <1> DEFINE l == loop[c]
             rx == l.rx
  <1>1. /\ loop \in [Conns -> LoopState] /\ l \in LoopState /\ l.open /\ told[c] \in Nat
        /\ rx <= told[c] /\ rx \in Nat /\ published \in Nat
    BY PartsOf DEF Deliver, Selecting, SInv, TypeOK
  <1>2. Oldest \in Nat /\ UNCHANGED <<up, restarts, published, client, inbox, executed>>
    BY <1>1, SessionAssumption DEF Oldest, Deliver
  <1>3. ASSUME NEW v \in Nat, NEW f \in Frame, f.type # "response", Put(c, f),
               loop' = [loop EXCEPT ![c].rx = v],
               told' = [told EXCEPT ![c] = Later(told[c], v)]
        PROVE  SInv' /\ OthersSame(c) /\ Calm(c)
    <2> DEFINE m == [l EXCEPT !.rx = v]
    <2>1. loop' = [loop EXCEPT ![c] = m]
      BY <1>1, <1>3
    <2>2. /\ m \in LoopState /\ m.running = l.running /\ m.finished = l.finished /\ m.open
          /\ m.rx = v
      BY <1>1 DEF LoopState
    <2>3. Later(told[c], v) \in Nat /\ v <= Later(told[c], v)
      BY <1>1, LaterType
    <2> HIDE DEF m
    <2> QED BY <1>2, <1>3, <2>1, <2>2, <2>3, EventStep DEF l
  <1>4. CASE rx >= Oldest /\ Put(c, [type |-> "event", seq |-> rx])
             /\ loop' = [loop EXCEPT ![c].rx = rx + 1]
             /\ told' = [told EXCEPT ![c] = Later(told[c], rx + 1)]
    <2> DEFINE f == [type |-> "event", seq |-> rx]
    <2>1. f \in Frame /\ f.type # "response" /\ rx + 1 \in Nat
      BY <1>1 DEF Frame
    <2> HIDE DEF f, rx
    <2> QED BY <1>3, <1>4, <2>1 DEF f
  <1>5. CASE rx < Oldest /\ Put(c, [type |-> "lagged", skipped |-> Oldest - rx])
             /\ loop' = [loop EXCEPT ![c].rx = Oldest]
             /\ told' = [told EXCEPT ![c] = Later(told[c], Oldest)]
    <2> DEFINE f == [type |-> "lagged", skipped |-> Oldest - rx]
    <2>1. f \in Frame /\ f.type # "response"
      <3>1. Oldest - rx \in Nat
        BY <1>1, <1>2, <1>5
      <3> QED BY <3>1 DEF Frame
    <2> HIDE DEF f, rx
    <2> QED BY <1>2, <1>3, <1>5, <2>1 DEF f
  <1> QED BY <1>4, <1>5 DEF Deliver

(* A finished task is joined and its response sent, or dropped.            *)
LEMMA RespondStep ==
  ASSUME SInv, NEW c \in Conns, Respond(c)
  PROVE  SInv' /\ OthersSame(c) /\ Calm(c)
  <1> DEFINE l == loop[c]
             w == wire[c]
  <1> PICK a \in l.finished :
          /\ loop' = [loop EXCEPT ![c].finished = l.finished \ {a}]
          /\ IF client[c].open
             THEN Put(c, [type |-> "response", id |-> a.id, answer |-> a.answer])
             ELSE UNCHANGED wire
    BY DEF Respond
  <1> DEFINE F == l.finished \ {a}
             m == [l EXCEPT !.finished = F]
             f == [type |-> "response", id |-> a.id, answer |-> a.answer]
  <1>1. /\ loop \in [Conns -> LoopState] /\ l \in LoopState /\ l.open /\ w \in Seq(Frame)
        /\ OnceReplied(l.finished, w)
    BY PartsOf DEF Respond, Selecting, SInv, TypeOK
  <1>2. loop' = [loop EXCEPT ![c] = m]
    BY <1>1
  <1>3. UNCHANGED <<up, restarts, published, client, inbox, told, executed>>
    BY DEF Respond
  <1>4. a.id \in Nat /\ a.answer \in Answer /\ a = Reply(a.id, a.answer)
    BY <1>1 DEF LoopState, Reply
  <1>5. f \in Frame /\ f.type = "response" /\ f.id = a.id /\ f.answer = a.answer
    BY <1>4 DEF Frame
  <1>6. /\ m \in LoopState /\ m.running = l.running /\ m.finished = F /\ m.open
        /\ m.rx = l.rx
    BY <1>1 DEF LoopState
  <1>7. /\ OnceReplied(F, w) /\ Replies(F, w) \subseteq Replies(l.finished, w)
        /\ \A b \in Replies(F, w) : b.id # a.id
    <2>1. OnceReplied(F, w)
      BY <1>1 DEF OnceReplied
    <2>2. Replies(F, w) \subseteq Replies(l.finished, w)
      BY DEF Replies
    <2>3. \A b \in F : b.id # a.id
      BY <1>1 DEF OnceReplied
    <2>4. \A i \in Responses(w) : w[i].id # a.id
      BY <1>1 DEF OnceReplied
    <2>5. \A i \in Responses(w) : Reply(w[i].id, w[i].answer).id = w[i].id
      BY DEF Reply
    <2>6. \A b \in Replies(F, w) : b.id # a.id
      BY <2>3, <2>4, <2>5 DEF Replies
    <2> QED BY <2>1, <2>2, <2>6
  <1>8. a \in Replies(l.finished, w)
    BY DEF Replies
  <1> HIDE DEF F, m, f
  <1>9. PICK v \in Seq(Frame) : /\ wire' = [wire EXCEPT ![c] = v] /\ OnceReplied(F, v)
                                /\ Replies(F, v) \subseteq Replies(l.finished, w)
    <2>1. CASE client[c].open
      <3> DEFINE v == Append(w, f)
      <3>1. wire' = [wire EXCEPT ![c] = v]
        BY <2>1 DEF Put, f
      <3>2. /\ v \in Seq(Frame) /\ OnceReplied(F, v)
            /\ Replies(F, v) = Replies(F, w) \cup {a}
        BY <1>1, <1>4, <1>5, <1>7, RepliesAppend
      <3> HIDE DEF v
      <3> QED BY <1>7, <1>8, <3>1, <3>2
    <2>2. CASE ~client[c].open
      <3>1. wire' = [wire EXCEPT ![c] = w]
        BY <2>2, PartsOf
      <3> QED BY <1>1, <1>7, <3>1
    <2> QED BY <2>1, <2>2
  <1>10. /\ OnceAsked(inbox[c], m.running) /\ OnceReplied(m.finished, v)
         /\ Asked(inbox[c], m.running) \subseteq AskedOf(c)
         /\ Replies(m.finished, v) \subseteq RepliesOf(c)
         /\ m.rx <= told[c] /\ told[c] \in Nat
         /\ inbox[c] \in Seq(Request) /\ inbox' = [inbox EXCEPT ![c] = inbox[c]]
         /\ told' = [told EXCEPT ![c] = told[c]]
    BY <1>3, <1>6, <1>9, PartsOf
  <1> QED BY <1>2, <1>3, <1>6, <1>9, <1>10, LoopStep

(* The loop ends with its connection.                                      *)
LEMMA HangupStep ==
  ASSUME SInv, NEW c \in Conns, Hangup(c)
  PROVE  SInv' /\ OthersSame(c) /\ Calm(c)
  <1>1. /\ loop' = [loop EXCEPT ![c] = NoLoop] /\ inbox' = [inbox EXCEPT ![c] = <<>>]
        /\ UNCHANGED <<up, restarts, published, client, wire, told, executed>>
    BY DEF Hangup
  <1>2. /\ NoLoop \in LoopState /\ <<>> \in Seq(Request) /\ wire[c] \in Seq(Frame)
        /\ told[c] \in Nat /\ OnceAsked(<<>>, NoLoop.running)
        /\ Asked(<<>>, NoLoop.running) \subseteq AskedOf(c) /\ NoLoop.rx <= told[c]
        /\ wire' = [wire EXCEPT ![c] = wire[c]] /\ told' = [told EXCEPT ![c] = told[c]]
    BY <1>1, EmptyPlaces, PartsOf
  <1>3. OnceReplied(NoLoop.finished, wire[c])
    BY EmptyPlaces, PartsOf
  <1>4. Replies(NoLoop.finished, wire[c]) \subseteq RepliesOf(c)
    BY EmptyPlaces DEF RepliesOf, Replies
  <1> QED BY <1>1, <1>2, <1>3, <1>4, LoopStep

(* A step that answers one request.                                        *)
LEMMA AnsweringStep ==
  ASSUME SInv, NEW c \in Conns, NEW r \in AskedOf(c), NEW a \in Answer, NEW v \in Nat,
         a = "ok" /\ c \in Callers => v = 1,
         NEW q \in Seq(Request), NEW l \in LoopState, NEW w \in Seq(Frame), NEW n \in Nat,
         inbox' = [inbox EXCEPT ![c] = q], loop' = [loop EXCEPT ![c] = l],
         wire' = [wire EXCEPT ![c] = w], told' = [told EXCEPT ![c] = n],
         executed' = [executed EXCEPT ![c] = [executed[c] EXCEPT ![r.id] = v]],
         UNCHANGED <<up, restarts, client>>, published' \in 0..MaxEvents,
         OnceAsked(q, l.running), OnceReplied(l.finished, w),
         Asked(q, l.running) \subseteq AskedOf(c),
         \A s \in Asked(q, l.running) : s.id # r.id,
         Replies(l.finished, w) \subseteq RepliesOf(c) \cup {Reply(r.id, a)},
         l.open, l.rx <= n
  PROVE  /\ SInv' /\ OthersSame(c) /\ UNCHANGED client
         /\ AskedOf(c)' \subseteq AskedOf(c) /\ (\A s \in AskedOf(c)' : s.id # r.id)
         /\ RepliesOf(c)' \subseteq RepliesOf(c) \cup {Reply(r.id, a)}
  <1> DEFINE k == client[c]
             x == executed[c]
             y == [x EXCEPT ![r.id] = v]
             A == Asked(q, l.running)
             B == Replies(l.finished, w)
  <1>0. /\ ConnTyped(k, inbox[c], loop[c], wire[c], told[c], x)
        /\ Consistent(c \in Callers, k, AskedOf(c), RepliesOf(c), x)
        /\ Ended(k, inbox[c], loop[c])
    BY SInvAt DEF ConnOK, AskedOf, RepliesOf
  <1>1. client' = [client EXCEPT ![c] = k]
    BY PartsOf
  <1>2. AskedOf(c) \in SUBSET Request
    BY PartsOf DEF Asked, LoopState
  <1>3. k \in ClientState /\ x \in [1..MaxId -> Nat]
    BY <1>0 DEF ConnTyped
  <1>4. y \in [1..MaxId -> Nat]
    BY <1>3
  <1>5. executed' = [executed EXCEPT ![c] = y]
    OBVIOUS
  <1>6. /\ r.id \in 1..MaxId /\ Consistent(c \in Callers, k, A, B, y)
    <2> HIDE DEF A, B, x, k
    <2>1. A \in SUBSET AskedOf(c) /\ B \in SUBSET (RepliesOf(c) \cup {Reply(r.id, a)})
          /\ \A s \in A : s.id # r.id
      BY DEF A, B
    <2> QED BY <1>0, <1>2, <1>3, <2>1, Answering
  <1> HIDE DEF k, x, y
  <1>7. Becoming(c, k, q, l, w, n, y)
    BY <1>1, <1>5 DEF Becoming
  <1>8. ConnTyped(k, q, l, w, n, y)
    BY <1>3, <1>4 DEF ConnTyped
  <1>9. ConnOK(c \in Callers, k, q, l, w, n, y)
    BY <1>0, <1>6 DEF ConnOK, Ended
  <1>10. UNCHANGED <<up, restarts>>
    BY DEF SInv, TypeOK
  <1>11. /\ SInv' /\ OthersSame(c)
         /\ inbox'[c] = q /\ loop'[c] = l /\ wire'[c] = w
    BY <1>7, <1>8, <1>9, <1>10, Local
  <1>12. AskedOf(c)' = A /\ RepliesOf(c)' = B
    BY <1>11 DEF AskedOf, RepliesOf
  <1> QED BY <1>11, <1>12

(* A handler ends, with an effect or without.                              *)
LEMMA AnsweredStep ==
  ASSUME SInv, NEW c \in Conns, NEW r, NEW a \in Answer, Answered(c, r, a), NEW v \in Nat,
         a = "ok" /\ c \in Callers => v = 1,
         executed' = [executed EXCEPT ![c] = [executed[c] EXCEPT ![r.id] = v]],
         UNCHANGED <<up, restarts, client, inbox, wire, told>>, published' \in 0..MaxEvents
  PROVE  /\ SInv' /\ OthersSame(c) /\ UNCHANGED client /\ r \in AskedOf(c)
         /\ AskedOf(c)' \subseteq AskedOf(c) /\ (\A s \in AskedOf(c)' : s.id # r.id)
         /\ RepliesOf(c)' \subseteq RepliesOf(c) \cup {Reply(r.id, a)}
  <1> DEFINE l == loop[c]
             q == inbox[c]
             w == wire[c]
             u == Reply(r.id, a)
             R == l.running \ {r}
             F == l.finished \cup {u}
             m == [l EXCEPT !.running = R, !.finished = F]
  <1>1. /\ loop \in [Conns -> LoopState] /\ l \in LoopState /\ w \in Seq(Frame)
        /\ OnceReplied(l.finished, w) /\ OnceAsked(q, l.running) /\ q \in Seq(Request)
        /\ AskedOf(c) = Asked(q, l.running) /\ RepliesOf(c) = Replies(l.finished, w)
        /\ l.rx <= told[c] /\ told[c] \in Nat
    BY PartsOf DEF SInv, TypeOK
  <1>2. r \in l.running /\ loop' = [loop EXCEPT ![c] = m]
    BY <1>1 DEF Answered, Reply
  <1>3. r \in Request /\ r.id \in Nat /\ r \in AskedOf(c)
    BY <1>1, <1>2 DEF LoopState, Request, Asked
  <1>4. u \in [id : Nat, answer : Answer] /\ u.id = r.id
    BY <1>3 DEF Reply
  <1>5. l.open
    BY <1>2, SInvAt, EmptyPlaces DEF ConnOK, Ended
  <1> HIDE DEF u
  <1>6. /\ m \in LoopState /\ m.running = R /\ m.finished = F /\ m.open /\ m.rx = l.rx
    BY <1>1, <1>4, <1>5 DEF LoopState
  <1>7. /\ OnceAsked(q, R) /\ Asked(q, R) \subseteq Asked(q, l.running)
        /\ \A s \in Asked(q, R) : s.id # r.id
    BY <1>1, <1>2 DEF OnceAsked, Asked
  <1>8. OnceReplied(F, w) /\ Replies(F, w) = Replies(l.finished, w) \cup {u}
    <2>1. Apart(AskedOf(c), RepliesOf(c))
      BY SInvAt DEF ConnOK, Consistent, AskedOf, RepliesOf
    <2>2. \A b \in Replies(l.finished, w) : b.id # r.id
      BY <1>1, <1>3, <2>1 DEF Apart
    <2>3. \A b \in l.finished : b.id # r.id
      BY <2>2 DEF Replies
    <2>4. ASSUME NEW i \in Responses(w) PROVE w[i].id # r.id
      <3>1. Reply(w[i].id, w[i].answer) \in Replies(l.finished, w)
        BY DEF Replies
      <3>2. Reply(w[i].id, w[i].answer).id = w[i].id
        BY DEF Reply
      <3> QED BY <2>2, <3>1, <3>2
    <2>5. OnceReplied(F, w)
      BY <1>1, <1>4, <2>3, <2>4 DEF OnceReplied
    <2> QED BY <2>5 DEF Replies
  <1> HIDE DEF m, R, F
  <1>9. /\ OnceAsked(q, m.running) /\ OnceReplied(m.finished, w)
        /\ Asked(q, m.running) \subseteq AskedOf(c)
        /\ (\A s \in Asked(q, m.running) : s.id # r.id)
        /\ Replies(m.finished, w) \subseteq RepliesOf(c) \cup {Reply(r.id, a)}
        /\ m.rx <= told[c]
        /\ inbox' = [inbox EXCEPT ![c] = q] /\ wire' = [wire EXCEPT ![c] = w]
        /\ told' = [told EXCEPT ![c] = told[c]]
    BY <1>1, <1>6, <1>7, <1>8, PartsOf DEF u
  <1> HIDE DEF q, w, l
  <1>10. /\ SInv' /\ OthersSame(c) /\ UNCHANGED client
         /\ AskedOf(c)' \subseteq AskedOf(c) /\ (\A s \in AskedOf(c)' : s.id # r.id)
         /\ RepliesOf(c)' \subseteq RepliesOf(c) \cup {Reply(r.id, a)}
    BY <1>1, <1>2, <1>3, <1>6, <1>9, AnsweringStep
  <1> QED BY <1>3, <1>10

(* Memory::Subscribe answers at once.                                      *)
LEMMA SubscribeStep ==
  ASSUME SInv, NEW c \in Conns, Subscribe(c)
  PROVE  SInv' /\ OthersSame(c) /\ \E r \in AskedOf(c) : r.kind \in Subscribing
  <1> DEFINE l == loop[c]
             q == inbox[c]
             w == wire[c]
             r == Head(q)
             at == IF r.kind = "replay" THEN "count" ELSE "select"
             m == [l EXCEPT !.rx = published + 1, !.at = at]
             f == [type |-> "response", id |-> r.id, answer |-> "ok"]
             v == Append(w, f)
  <1>1. /\ loop \in [Conns -> LoopState] /\ l \in LoopState /\ w \in Seq(Frame) /\ l.open
        /\ OnceReplied(l.finished, w) /\ OnceAsked(q, l.running) /\ q \in Seq(Request)
        /\ AskedOf(c) = Asked(q, l.running) /\ RepliesOf(c) = Replies(l.finished, w)
        /\ q # <<>> /\ published \in 0..MaxEvents /\ published \in Nat
        /\ executed \in [Conns -> [1..MaxId -> Nat]]
    BY PartsOf DEF Subscribe, Selecting, SInv, TypeOK
  <1>2. /\ Tail(q) \in Seq(Request) /\ r \in Request
        /\ OnceAsked(Tail(q), l.running) /\ (\A s \in Asked(Tail(q), l.running) : s.id # r.id)
        /\ Asked(q, l.running) = Asked(Tail(q), l.running) \cup {r}
    BY <1>1, AskedTail
  <1>3. r \in AskedOf(c) /\ r.id \in Nat /\ r.kind \in Subscribing
    BY <1>1, <1>2 DEF Request, Subscribe
  <1>4. /\ loop' = [loop EXCEPT ![c] = m] /\ wire' = [wire EXCEPT ![c] = v]
        /\ inbox' = [inbox EXCEPT ![c] = Tail(q)]
        /\ told' = [told EXCEPT ![c] = published + 1]
        /\ UNCHANGED <<up, restarts, published, client>>
    BY <1>1 DEF Subscribe, Put
  <1>5. executed' = [executed EXCEPT ![c] = [executed[c] EXCEPT ![r.id] = 1]]
    BY <1>1 DEF Subscribe
  <1>6. f \in Frame /\ f.type = "response" /\ f.id = r.id /\ f.answer = "ok"
    BY <1>3 DEF Frame, Answer
  <1> HIDE DEF f
  <1>7. /\ v \in Seq(Frame) /\ OnceReplied(l.finished, v)
        /\ Replies(l.finished, v) = Replies(l.finished, w) \cup {Reply(r.id, "ok")}
    <2>1. Apart(AskedOf(c), RepliesOf(c))
      BY SInvAt DEF ConnOK, Consistent, AskedOf, RepliesOf
    <2>2. \A b \in Replies(l.finished, w) : b.id # f.id
      BY <1>1, <1>3, <1>6, <2>1 DEF Apart
    <2> QED BY <1>1, <1>6, <2>2, RepliesAppend
  <1>8. at \in {"select", "count", "send"} /\ published + 1 \in Nat
    BY <1>1
  <1> HIDE DEF at, v, r
  <1>9. /\ m \in LoopState /\ m.running = l.running /\ m.finished = l.finished /\ m.open
        /\ m.rx = published + 1
    <2> DEFINE z == published + 1
    <2> HIDE DEF z
    <2>1. z \in Nat /\ m = [l EXCEPT !.rx = z, !.at = at]
      BY <1>8 DEF z
    <2> HIDE DEF m
    <2>2. /\ m \in LoopState /\ m.running = l.running /\ m.finished = l.finished /\ m.open
          /\ m.rx = z
      BY <1>1, <1>8, <2>1 DEF LoopState
    <2> QED BY <2>2 DEF z
  <1> HIDE DEF m, l, q, w
  <1>10. /\ OnceAsked(Tail(q), m.running) /\ OnceReplied(m.finished, v)
         /\ Asked(Tail(q), m.running) \subseteq AskedOf(c)
         /\ (\A s \in Asked(Tail(q), m.running) : s.id # r.id)
         /\ Replies(m.finished, v) \subseteq RepliesOf(c) \cup {Reply(r.id, "ok")}
         /\ m.rx <= published + 1
    BY <1>1, <1>2, <1>7, <1>8, <1>9
  <1>11. "ok" \in Answer /\ 1 \in Nat /\ published' \in 0..MaxEvents
    BY <1>1, <1>4 DEF Answer
  <1>12. SInv' /\ OthersSame(c)
    BY <1>2, <1>3, <1>4, <1>5, <1>7, <1>8, <1>9, <1>10, <1>11, AnsweringStep
  <1> QED BY <1>3, <1>12

(* A handler of a program that keeps its client.                           *)
LEMMA HandleStep ==
  ASSUME SInv, NEW c \in Conns, Handle(c)
  PROVE  SInv' /\ OthersSame(c) /\ c \in Callers
  <1>p. PICK r \in loop[c].running :
          \/ /\ Answered(c, r, "ok")
             /\ executed' = [executed EXCEPT ![c][r.id] = executed[c][r.id] + 1]
             /\ r.kind = "tick" => published < MaxEvents
             /\ published' = IF r.kind = "tick" THEN published + 1 ELSE published
          \/ /\ Answered(c, r, "error")
             /\ \E n \in {0, 1} : executed' = [executed EXCEPT ![c][r.id] = executed[c][r.id] + n]
             /\ UNCHANGED published
    BY DEF Handle
  <1>0. c \in Callers /\ UNCHANGED <<up, restarts, client, inbox, wire, told>>
    BY DEF Handle
  <1>1. r \in AskedOf(c) /\ AskedOf(c) \subseteq Request
    BY PartsOf DEF Asked, LoopState
  <1>2. /\ executed \in [Conns -> [1..MaxId -> Nat]] /\ published \in 0..MaxEvents
        /\ MaxEvents \in Nat
    BY SessionAssumption DEF SInv, TypeOK
  <1>3. r.id \in 1..MaxId /\ executed[c][r.id] = 0
    <2>1. Consistent(c \in Callers, client[c], AskedOf(c), RepliesOf(c), executed[c])
      BY SInvAt DEF ConnOK, AskedOf, RepliesOf
    <2>2. client[c].next \in Nat /\ MaxId \in Nat
      BY SInvAt, SessionAssumption DEF ConnTyped, ClientState
    <2> QED BY <1>0, <1>1, <2>1, <2>2 DEF Consistent, Issued, Done
  <1>4. "ok" \in Answer /\ "error" \in Answer
    BY DEF Answer
  <1>5. CASE /\ Answered(c, r, "ok")
             /\ executed' = [executed EXCEPT ![c][r.id] = executed[c][r.id] + 1]
             /\ r.kind = "tick" => published < MaxEvents
             /\ published' = IF r.kind = "tick" THEN published + 1 ELSE published
    <2>1. published' \in 0..MaxEvents
      BY <1>2, <1>5
    <2>2. executed' = [executed EXCEPT ![c] = [executed[c] EXCEPT ![r.id] = 1]]
      BY <1>2, <1>3, <1>5
    <2>3. Answered(c, r, "ok")
      BY <1>5
    <2> QED BY <1>0, <1>4, <2>1, <2>2, <2>3, AnsweredStep
  <1>6. ASSUME NEW n \in {0, 1}, Answered(c, r, "error"),
               executed' = [executed EXCEPT ![c][r.id] = executed[c][r.id] + n],
               UNCHANGED published
        PROVE  SInv' /\ OthersSame(c)
    <2>1. published' \in 0..MaxEvents
      BY <1>2, <1>6
    <2>2. executed' = [executed EXCEPT ![c] = [executed[c] EXCEPT ![r.id] = n]] /\ n \in Nat
      <3>1. executed[c][r.id] + n = n /\ n \in Nat
        BY <1>3
      <3> QED BY <1>2, <1>6, <3>1
    <2>3. Answered(c, r, "error")
      BY <1>6
    <2> QED BY <1>0, <1>4, <2>1, <2>2, <2>3, AnsweredStep
  <1> QED BY <1>0, <1>p, <1>5, <1>6

(* A daemon that dies leaves what it had written.                          *)
LEMMA DieStep ==
  ASSUME SInv, Die
  PROVE  SInv' /\ \A c \in Conns : Calm(c)
  <1>1. /\ loop' = [c \in Conns |-> NoLoop] /\ inbox' = [c \in Conns |-> <<>>] /\ up' = FALSE
        /\ restarts < MaxRestarts /\ UNCHANGED <<restarts, published, client, wire, told, executed>>
    BY DEF Die
  <1>2. TypeOK'
    <2>1. loop' \in [Conns -> LoopState] /\ inbox' \in [Conns -> Seq(Request)]
      BY <1>1, EmptyPlaces
    <2> QED BY <1>1, <2>1 DEF SInv, TypeOK
  <1>3. ASSUME NEW c \in Conns
        PROVE  /\ ConnOK(c \in Callers, client'[c], inbox'[c], loop'[c], wire'[c], told'[c],
                         executed'[c])
               /\ Calm(c)
    <2> DEFINE k == client[c]
               w == wire[c]
               x == executed[c]
               B == Replies({}, w)
    <2>0. /\ client'[c] = k /\ inbox'[c] = <<>> /\ loop'[c] = NoLoop /\ wire'[c] = w
          /\ told'[c] = told[c] /\ executed'[c] = x
      BY <1>1
    <2>1. B \subseteq RepliesOf(c)
      BY EmptyPlaces DEF RepliesOf, Replies
    <2>2. Consistent(c \in Callers, k, AskedOf(c), RepliesOf(c), x)
      BY SInvAt DEF ConnOK, AskedOf, RepliesOf
    <2> HIDE DEF k, w, x, B
    <2>3. Consistent(c \in Callers, k, {}, B, x)
      BY <2>1, <2>2, Fewer
    <2>4. /\ OnceAsked(<<>>, NoLoop.running) /\ OnceReplied(NoLoop.finished, w)
          /\ Asked(<<>>, NoLoop.running) = {} /\ Replies(NoLoop.finished, w) = B
          /\ NoLoop.rx <= told[c]
      BY EmptyPlaces, PartsOf DEF w, B
    <2>5. Ended(k, <<>>, NoLoop)
      BY SInvAt DEF ConnOK, Ended, k
    <2>6. ConnOK(c \in Callers, k, <<>>, NoLoop, w, told[c], x)
      BY <2>3, <2>4, <2>5 DEF ConnOK
    <2>7. AskedOf(c)' = {} /\ RepliesOf(c)' = B
      BY <2>0, <2>4 DEF AskedOf, RepliesOf
    <2>8. Calm(c)
      BY <2>0, <2>1, <2>7 DEF Calm, Told, k
    <2> QED BY <2>0, <2>6, <2>8
  <1> QED BY <1>1, <1>2, <1>3 DEF SInv

(* A daemon that is started again.                                         *)
LEMMA StartStep ==
  ASSUME SInv, Start
  PROVE  SInv'
  <1>1. /\ up' = TRUE /\ restarts' = restarts + 1 /\ restarts < MaxRestarts
        /\ UNCHANGED <<published, client, inbox, loop, wire, told, executed>>
    BY DEF Start, SInv
  <1>2. restarts' \in 0..MaxRestarts
    BY <1>1, SessionAssumption DEF SInv, TypeOK
  <1>3. TypeOK'
    BY <1>1, <1>2 DEF SInv, TypeOK
  <1> QED BY <1>1, <1>3 DEF SInv

(* No session yet.                                                         *)
LEMMA SessionInit == Init => SInv
  <1> SUFFICES ASSUME Init PROVE SInv
    OBVIOUS
  <1>1. NoClient \in ClientState /\ NoClient.open = FALSE /\ NoClient.next = 1
        /\ NoClient.waits = 0 /\ NoClient.last = "none" /\ NoClient.late = FALSE
    BY DEF NoClient, ClientState
  <1>2. TypeOK
    BY <1>1, EmptyPlaces, SessionAssumption DEF Init, TypeOK
  <1>3. ASSUME NEW c \in Conns
        PROVE  ConnOK(c \in Callers, client[c], inbox[c], loop[c], wire[c], told[c], executed[c])
    <2> DEFINE x == [i \in 1..MaxId |-> 0]
    <2>1. /\ client[c] = NoClient /\ inbox[c] = <<>> /\ loop[c] = NoLoop /\ wire[c] = <<>>
          /\ told[c] = 0 /\ executed[c] = x
      BY DEF Init
    <2>2. Consistent(c \in Callers, NoClient, {}, {}, x)
      BY <1>1, SessionAssumption DEF Consistent, Apart, Issued, Awaited, Done
    <2>3. Ended(NoClient, <<>>, NoLoop)
      BY <1>1 DEF Ended
    <2>4. /\ OnceAsked(<<>>, NoLoop.running) /\ OnceReplied(NoLoop.finished, <<>>)
          /\ Asked(<<>>, NoLoop.running) = {} /\ Replies(NoLoop.finished, <<>>) = {}
          /\ NoLoop.rx <= 0
      BY EmptyPlaces DEF NoLoop
    <2> HIDE DEF x
    <2>5. ConnOK(c \in Callers, NoClient, <<>>, NoLoop, <<>>, 0, x)
      BY <2>2, <2>3, <2>4 DEF ConnOK
    <2> QED BY <2>1, <2>5
  <1> QED BY <1>2, <1>3 DEF SInv, Init

-----------------------------------------------------------------------------
(* The bridge invariant: client k of a handler, the requests A and answers *)
(* T of its connection, its HTTP request p and the effects e of it.        *)

Before == {"auth_connect", "auth_send", "auth_wait", "connect", "send"}

(* A call that may still run has had no effect, and nobody was told yet    *)
(* that it had none; an answered one has had the effect that was reported. *)
CallsTrue(k, A, T, p, e) ==
    /\ k.next <= 2
    /\ p.stage \in {"auth_send", "send"} => k.next = 1 /\ k.last = "none"
    /\ \A r \in A : r.kind \in {"validate", "call"}
    /\ \A r \in A : r.kind = "call" =>
          /\ e = 0
          /\ p.stage \in {"wait", "idle"} \/ (p.stage = "answered" /\ p.status = 500)
    /\ p.stage = "wait" => (\A r \in A : r.kind = "call") /\ ("ok" \in T => e = 1)
    /\ p.stage \in Before => e = 0
    /\ p.stage = "answered" /\ p.status = 200 => e = 1
    /\ p.stage = "answered" /\ p.status \in {400, 401, 403} => e = 0

(* An error of the validation was deserved or is the table's: `valid' is   *)
(* whether the token suffices now.                                         *)
RefusalsTrue(T, p, valid) ==
    /\ p.stage = "auth_wait" /\ "error" \in T => p.unread \/ ~valid
    /\ p.stage = "answered" /\ p.status \in {401, 403} => p.unread \/ ~valid

(* Tokens that somebody holds are in the table, with the scope it holds.   *)
TokensTrue ==
    /\ \A h \in Handlers : http[h].token \in Tokens => http[h].token \in DOMAIN kv
    /\ \A r \in AskedOf(Boot) : r.kind = "mint"
    /\ \A t \in Told(Boot) \cap Tokens : t \in DOMAIN kv /\ kv[t] = wanted
    /\ \A t \in DOMAIN map \cap Tokens : t \in DOMAIN kv /\ map[t] = kv[t]

HandlersTrue ==
    \A h \in Handlers :
        /\ CallsTrue(client[h], AskedOf(h), Told(h), http[h], effects[h])
        /\ RefusalsTrue(Told(h), http[h], Valid(http[h].token, http[h].need))

BInv == SInv /\ BridgeTypeOK /\ TokensTrue /\ HandlersTrue

(* The bridge's own connections.                                           *)
Own == Handlers \cup {Boot}

(* Nothing is asked or answered where nothing changes.                     *)
LEMMA CalmElsewhere ==
  ASSUME NEW c, OthersSame(c), NEW d \in Conns \ {c}
  PROVE  /\ Calm(d) /\ AskedOf(d)' = AskedOf(d) /\ Told(d)' = Told(d)
         /\ client'[d] = client[d]
  <1>1. /\ client'[d] = client[d] /\ inbox'[d] = inbox[d]
        /\ loop'[d] = loop[d] /\ wire'[d] = wire[d]
    BY DEF OthersSame
  <1>2. AskedOf(d)' = AskedOf(d) /\ RepliesOf(d)' = RepliesOf(d)
    BY <1>1 DEF AskedOf, RepliesOf
  <1>3. Told(d)' = Told(d)
    BY <1>1, <1>2 DEF Told
  <1> QED BY <1>1, <1>2, <1>3 DEF Calm

(* A calm step of its connection leaves a handler as it is.                *)
LEMMA CalmHandler ==
  ASSUME SInv, NEW h \in Conns, Calm(h), NEW p, NEW e,
         CallsTrue(client[h], AskedOf(h), Told(h), p, e)
  PROVE  /\ CallsTrue(client'[h], AskedOf(h)', Told(h)', p, e)
         /\ \A valid : RefusalsTrue(Told(h), p, valid) => RefusalsTrue(Told(h)', p, valid)
  <1>1. client[h].next = 1 => client'[h].last = client[h].last
    <2>1. client[h].waits \in Nat /\ client[h].waits < client[h].next
      BY SInvAt DEF ConnTyped, ClientState, ConnOK, Consistent, Issued
    <2> QED BY <2>1 DEF Calm
  <1>2. /\ AskedOf(h)' \subseteq AskedOf(h) /\ client'[h].next = client[h].next
        /\ "ok" \in Told(h)' => "ok" \in Told(h)
        /\ "error" \in Told(h)' => "error" \in Told(h)
    BY DEF Calm
  <1>3. CallsTrue(client'[h], AskedOf(h)', Told(h)', p, e)
    BY <1>1, <1>2 DEF CallsTrue
  <1> QED BY <1>2, <1>3 DEF RefusalsTrue

(* A step of the sessions that is calm on the bridge's connections.        *)
LEMMA CalmStep ==
  ASSUME BInv, SInv', \A d \in Own : Calm(d), UNCHANGED bvars
  PROVE  BInv'
  <1>1. Own \subseteq Conns
    BY BridgeAssumption DEF Own
  <1>2. UNCHANGED <<bridge, starts, wanted, kv, expired, map, file, http, arrived, effects>>
    BY DEF bvars
  <1>3. BridgeTypeOK'
    BY <1>2 DEF BInv, BridgeTypeOK, SInv
  <1>4. TokensTrue'
    <2>1. AskedOf(Boot)' \subseteq AskedOf(Boot)
          /\ Told(Boot)' \subseteq Told(Boot) \cup {"closed", "timeout", "mismatch"}
      BY DEF Own, Calm
    <2>2. {"closed", "timeout", "mismatch"} \cap Tokens = {}
      BY SessionAssumption, BridgeAssumption
    <2>3. \A t \in Told(Boot)' \cap Tokens : t \in Told(Boot) \cap Tokens
      BY <2>1, <2>2
    <2> QED BY <1>2, <2>1, <2>3 DEF BInv, TokensTrue
  <1>5. HandlersTrue'
    <2> SUFFICES ASSUME NEW h \in Handlers
                 PROVE  /\ CallsTrue(client'[h], AskedOf(h)', Told(h)', http'[h], effects'[h])
                        /\ RefusalsTrue(Told(h)', http'[h], Valid(http[h].token, http[h].need)')
      BY <1>2 DEF HandlersTrue, Valid
    <2>1. Valid(http[h].token, http[h].need)' <=> Valid(http[h].token, http[h].need)
      BY <1>2 DEF Valid
    <2>2. /\ CallsTrue(client[h], AskedOf(h), Told(h), http[h], effects[h])
          /\ RefusalsTrue(Told(h), http[h], Valid(http[h].token, http[h].need))
      BY DEF BInv, HandlersTrue
    <2>3. SInv /\ h \in Conns /\ Calm(h)
      BY <1>1 DEF BInv, Own
    <2>4. /\ CallsTrue(client'[h], AskedOf(h)', Told(h)', http[h], effects[h])
          /\ RefusalsTrue(Told(h)', http[h], Valid(http[h].token, http[h].need))
      BY <2>2, <2>3, CalmHandler
    <2> QED BY <1>2, <2>1, <2>4 DEF RefusalsTrue
  <1> QED BY <1>3, <1>4, <1>5 DEF BInv

(* A step of one connection that is calm there, or is none of the bridge's. *)
LEMMA OneConnStep ==
  ASSUME BInv, SInv', NEW c \in Conns, OthersSame(c), c \in Own => Calm(c), UNCHANGED bvars
  PROVE  BInv'
  <1>1. \A d \in Own : Calm(d)
    <2> TAKE d \in Own
    <2>1. CASE d = c
      BY <2>1
    <2>2. CASE d # c
      <3>1. d \in Conns \ {c}
        BY <2>2, BridgeAssumption DEF Own
      <3> QED BY <3>1, CalmElsewhere
    <2> QED BY <2>1, <2>2
  <1> QED BY <1>1, CalmStep

(* The steps of the daemon that no handler behind the bridge takes.        *)
LEMMA DaemonStep ==
  ASSUME BInv, DaemonSteps
  PROVE  BInv'
  <1>0. UNCHANGED bvars /\ SInv
    BY DEF DaemonSteps, BInv
  <1>1. ASSUME NEW c \in Conns, Serve(c) PROVE BInv'
    <2>1. ASSUME SInv' /\ OthersSame(c) /\ Calm(c) PROVE BInv'
      BY <1>0, <2>1, OneConnStep
    <2>2. CASE Spawn(c)
      BY <1>0, <2>1, <2>2, SpawnStep
    <2>3. CASE Subscribe(c)
      <3>1. SInv' /\ OthersSame(c)
        BY <1>0, <2>3, SubscribeStep
      <3>2. PICK r \in AskedOf(c) : r.kind \in Subscribing
        BY <1>0, <2>3, SubscribeStep
      <3>3. c \notin Own
        <4>1. \A h \in Handlers : \A s \in AskedOf(h) : s.kind \in {"validate", "call"}
          BY DEF BInv, HandlersTrue, CallsTrue
        <4>2. \A s \in AskedOf(Boot) : s.kind = "mint"
          BY DEF BInv, TokensTrue
        <4> QED BY <3>2, <4>1, <4>2 DEF Own, Subscribing
      <3> QED BY <1>0, <3>1, <3>3, OneConnStep
    <2>4. CASE CountMemories(c) \/ CountFails(c)
      BY <1>0, <2>1, <2>4, SnapshotStep
    <2>5. CASE SendSnapshot(c)
      BY <1>0, <2>1, <2>5, SendSnapshotStep
    <2>6. CASE Respond(c)
      BY <1>0, <2>1, <2>6, RespondStep
    <2>7. CASE Deliver(c)
      BY <1>0, <2>1, <2>7, DeliverStep
    <2>8. CASE Hangup(c)
      BY <1>0, <2>1, <2>8, HangupStep
    <2> QED BY <1>1, <2>2, <2>3, <2>4, <2>5, <2>6, <2>7, <2>8 DEF Serve
  <1>2. ASSUME NEW c \in Conns, Handle(c) PROVE BInv'
    <2>1. SInv' /\ OthersSame(c) /\ c \in Callers
      BY <1>0, <1>2, HandleStep
    <2>2. c \notin Own
      BY <2>1, BridgeAssumption DEF Own
    <2> QED BY <1>0, <2>1, <2>2, OneConnStep
  <1>3. CASE Die
    <2>1. SInv' /\ \A d \in Own : Calm(d)
      BY <1>0, <1>3, DieStep, BridgeAssumption DEF Own
    <2> QED BY <1>0, <2>1, CalmStep
  <1>4. CASE Start
    <2>1. SInv'
      BY <1>0, <1>4, StartStep
    <2>2. \A d \in Own : Calm(d)
      <3> TAKE d \in Own
      <3>1. client'[d] = client[d] /\ AskedOf(d)' = AskedOf(d) /\ Told(d)' = Told(d)
        BY <1>4 DEF Start, AskedOf, Told, RepliesOf
      <3> QED BY <3>1 DEF Calm
    <2> QED BY <1>0, <2>1, <2>2, CalmStep
  <1> QED BY <1>1, <1>2, <1>3, <1>4 DEF DaemonSteps

(* The steps of the client library.                                        *)
LEMMA ClientStep ==
  ASSUME BInv, ClientSteps
  PROVE  BInv'
  <1>0. UNCHANGED bvars /\ SInv
    BY DEF ClientSteps, BInv
  <1>1. ASSUME NEW c \in Conns, Recv(c) \/ RecvClosed(c) \/ Timeout(c) PROVE BInv'
    <2>1. SInv' /\ OthersSame(c) /\ Calm(c)
      BY <1>0, <1>1, RecvStep, RecvClosedStep, TimeoutStep
    <2> QED BY <1>0, <2>1, OneConnStep
  <1>2. ASSUME NEW c \in Callers, Call(c) PROVE BInv'
    <2>0. c \in Conns /\ c \notin Own
      BY SessionAssumption, BridgeAssumption DEF Own
    <2>1. ASSUME SInv', OthersSame(c) PROVE BInv'
      BY <1>0, <2>0, <2>1, OneConnStep
    <2>2. CASE Connect(c)
      BY <1>0, <2>0, <2>1, <2>2, ConnectStep
    <2>3. ASSUME NEW k \in Kinds, Send(c, k) PROVE BInv'
      <3>1. [id |-> 1, kind |-> k] \in Request
        BY SessionAssumption DEF Request
      <3> QED BY <1>0, <2>0, <2>1, <2>3, <3>1, SendStep
    <2>4. CASE Recv(c) \/ RecvClosed(c) \/ Timeout(c)
      BY <1>1, <2>0, <2>4
    <2>5. CASE Leave(c)
      BY <1>0, <2>0, <2>1, <2>5, LeaveStep
    <2> QED BY <1>2, <2>2, <2>3, <2>4, <2>5 DEF Call
  <1>3. Handlers \cup {Boot} \subseteq Conns
    BY BridgeAssumption
  <1> QED BY <1>1, <1>2, <1>3 DEF ClientSteps

-----------------------------------------------------------------------------
(* The steps of an HTTP request.                                           *)

(* A handler whose step keeps its own part keeps the invariant.            *)
LEMMA HandlerLocal ==
  ASSUME BInv, SInv', NEW h \in Handlers, OthersSame(h), NEW p \in HttpRequest, NEW e \in Nat,
         http' = [http EXCEPT ![h] = p], effects' = [effects EXCEPT ![h] = e],
         arrived' \in 0..MaxHttp, UNCHANGED <<bridge, starts, wanted, kv, expired, map, file>>,
         p.token \in Tokens => p.token \in DOMAIN kv,
         CallsTrue(client'[h], AskedOf(h)', Told(h)', p, e),
         RefusalsTrue(Told(h)', p, Valid(p.token, p.need))
  PROVE  BInv'
  <1>0. http \in [Handlers -> HttpRequest] /\ effects \in [Handlers -> Nat]
    BY DEF BInv, BridgeTypeOK
  <1>1. /\ http' \in [Handlers -> HttpRequest] /\ effects' \in [Handlers -> Nat]
        /\ http'[h] = p /\ effects'[h] = e
        /\ \A g \in Handlers \ {h} : http'[g] = http[g] /\ effects'[g] = effects[g]
    BY <1>0
  <1>2. BridgeTypeOK'
    BY <1>1 DEF BInv, BridgeTypeOK, SInv
  <1>3. TokensTrue'
    <2>1. Boot \in Conns \ {h}
      BY BridgeAssumption
    <2>2. AskedOf(Boot)' = AskedOf(Boot) /\ Told(Boot)' = Told(Boot)
      BY <2>1, CalmElsewhere
    <2>3. \A g \in Handlers : http'[g].token \in Tokens => http'[g].token \in DOMAIN kv
      BY <1>1 DEF BInv, TokensTrue
    <2> QED BY <2>2, <2>3 DEF BInv, TokensTrue
  <1>4. HandlersTrue'
    <2>1. ASSUME NEW g \in Handlers
          PROVE  /\ CallsTrue(client'[g], AskedOf(g)', Told(g)', http'[g], effects'[g])
                 /\ RefusalsTrue(Told(g)', http'[g], Valid(http[g].token, http[g].need)')
      <3>1. CASE g = h
        <4>1. Valid(http[g].token, http[g].need)' <=> Valid(p.token, p.need)
          BY <1>1, <3>1 DEF Valid
        <4> QED BY <1>1, <3>1, <4>1 DEF RefusalsTrue
      <3>2. CASE g # h
        <4>1. g \in Conns \ {h}
          BY <3>2, BridgeAssumption
        <4>2. AskedOf(g)' = AskedOf(g) /\ Told(g)' = Told(g) /\ client'[g] = client[g]
          BY <4>1, CalmElsewhere
        <4>3. Valid(http[g].token, http[g].need)' <=> Valid(http[g].token, http[g].need)
          BY <1>1, <3>2 DEF Valid
        <4> QED BY <1>1, <3>2, <4>2, <4>3 DEF BInv, HandlersTrue, RefusalsTrue
      <3> QED BY <3>1, <3>2
    <2> QED BY <2>1 DEF HandlersTrue
  <1> QED BY <1>2, <1>3, <1>4 DEF BInv

(* What is known of a handler and its connection.                          *)
LEMMA HandlerAt ==
  ASSUME BInv, NEW h \in Handlers
  PROVE  /\ h \in Conns /\ h \notin Callers /\ SInv
         /\ http \in [Handlers -> HttpRequest] /\ http[h] \in HttpRequest /\ effects[h] \in Nat
         /\ effects = [effects EXCEPT ![h] = effects[h]] /\ arrived \in 0..MaxHttp
         /\ http[h].token \in Tokens => http[h].token \in DOMAIN kv
         /\ CallsTrue(client[h], AskedOf(h), Told(h), http[h], effects[h])
         /\ RefusalsTrue(Told(h), http[h], Valid(http[h].token, http[h].need))
  <1>1. h \in Conns /\ h \notin Callers
    BY BridgeAssumption
  <1>2. http \in [Handlers -> HttpRequest] /\ effects \in [Handlers -> Nat] /\ arrived \in 0..MaxHttp
    BY DEF BInv, BridgeTypeOK
  <1> QED BY <1>1, <1>2 DEF BInv, TokensTrue, HandlersTrue

(* The next stage of an HTTP request.                                      *)
LEMMA BecomesFields ==
  ASSUME NEW h \in Handlers, http \in [Handlers -> HttpRequest],
         NEW stage \in Stages, NEW status \in Nat, Becomes(h, stage, status)
  PROVE  \E p \in HttpRequest :
            /\ http' = [http EXCEPT ![h] = p] /\ p.stage = stage /\ p.status = status
            /\ p.token = http[h].token /\ p.need = http[h].need
            /\ p.unread <=> http[h].unread
  <1> DEFINE o == http[h]
             p == [o EXCEPT !.stage = stage, !.status = status]
  <1>1. http' = [http EXCEPT ![h] = p]
    BY DEF Becomes
  <1>2. o \in HttpRequest
    OBVIOUS
  <1> HIDE DEF o
  <1>3. /\ p \in HttpRequest /\ p.stage = stage /\ p.status = status
        /\ p.token = o.token /\ p.need = o.need /\ p.unread = o.unread
    BY <1>2 DEF HttpRequest
  <1> QED BY <1>1, <1>3 DEF o

(* Nothing has been asked or answered on a connection with no request yet, *)
(* and nothing is asked once its loop has ended.                           *)
LEMMA FreshConn ==
  ASSUME SInv, NEW c \in Conns
  PROVE  /\ client[c].next = 1 => AskedOf(c) = {} /\ RepliesOf(c) = {}
         /\ ~loop[c].open => AskedOf(c) = {}
  <1>1. Issued(client[c], AskedOf(c), RepliesOf(c)) /\ Ended(client[c], inbox[c], loop[c])
    BY SInvAt DEF ConnOK, Consistent, AskedOf, RepliesOf
  <1>2. client[c].next = 1 => AskedOf(c) = {} /\ RepliesOf(c) = {}
    BY <1>1 DEF Issued
  <1>3. ~loop[c].open => AskedOf(c) = {}
    BY <1>1, EmptyPlaces DEF Ended, AskedOf
  <1> QED BY <1>2, <1>3

(* A step that leaves the sessions alone.                                  *)
LEMMA SessionsSame ==
  ASSUME SInv, UNCHANGED vars, NEW c
  PROVE  /\ SInv' /\ OthersSame(c) /\ client'[c] = client[c]
         /\ AskedOf(c)' = AskedOf(c) /\ Told(c)' = Told(c)
  BY DEF vars, SInv, TypeOK, OthersSame, AskedOf, Told, RepliesOf

(* A new request p, and one from a foreign host.                           *)
New(p, stage, status, k, need) ==
    p = [NoRequest EXCEPT !.stage = stage, !.status = status, !.token = k, !.need = need]

Foreign(p, status) == p = [NoRequest EXCEPT !.stage = "answered", !.status = status]

(* Their fields.                                                           *)
LEMMA NewRequest ==
  ASSUME NEW stage \in Stages, NEW status \in Nat, NEW k \in Held, NEW need \in {"read", "write"},
         NEW p, New(p, stage, status, k, need)
  PROVE  /\ p \in HttpRequest /\ p.stage = stage /\ p.status = status
         /\ p.token = k /\ p.need = need
  BY DEF New, NoRequest, HttpRequest

LEMMA ForeignRequest ==
  ASSUME NEW status \in Nat, NEW p, Foreign(p, status)
  PROVE  p \in HttpRequest /\ p.stage = "answered" /\ p.status = status /\ p.token = NoToken
  BY DEF Foreign, NoRequest, HttpRequest, Stages, Held

(* A request that is refused on arrival is refused with reason.            *)
Arrived(p) ==
    /\ p.stage \in {"answered", "auth_connect", "connect"}
    /\ p.token \in Tokens => p.token \in DOMAIN kv
    /\ p.stage = "answered" => p.status \in {400, 401, 403} /\ ~Valid(p.token, p.need)

(* An HTTP request arrives.                                                *)
LEMMA ArriveStep ==
  ASSUME BInv, NEW h \in Handlers, Arrive(h) \/ ArriveForeign(h)
  PROVE  BInv'
  <1>0. /\ h \in Conns /\ SInv /\ CallsTrue(client[h], AskedOf(h), Told(h), http[h], effects[h])
        /\ arrived \in 0..MaxHttp
    BY HandlerAt
  <1>1. /\ effects' = [effects EXCEPT ![h] = 0]
        /\ UNCHANGED vars /\ UNCHANGED <<bridge, starts, wanted, kv, expired, map, file>>
        /\ ~loop[h].open
    BY DEF Arrive, ArriveForeign
  <1>2. arrived' \in 0..MaxHttp
    <2>1. arrived < MaxHttp /\ arrived' = arrived + 1
      BY DEF Arrive, ArriveForeign
    <2> QED BY <1>0, <2>1, BridgeAssumption
  <1>3. /\ SInv' /\ OthersSame(h) /\ client'[h] = client[h] /\ AskedOf(h)' = {}
        /\ Told(h)' = Told(h)
    BY <1>0, <1>1, SessionsSame, FreshConn
  <1>4. client[h].next <= 2
    BY <1>0 DEF CallsTrue
  <1>5. DOMAIN kv \subseteq Tokens /\ \A need : ~Valid(NoToken, need)
    BY BridgeAssumption DEF Valid, BInv, BridgeTypeOK
  <1>6. \E p \in HttpRequest : http' = [http EXCEPT ![h] = p] /\ Arrived(p)
    <2>1. CASE ArriveForeign(h)
      <3>1. PICK status \in {400, 403} :
                http' = [http EXCEPT ![h] = [NoRequest EXCEPT !.stage = "answered", !.status = status]]
        BY <2>1 DEF ArriveForeign
      <3> DEFINE p == [NoRequest EXCEPT !.stage = "answered", !.status = status]
      <3>2. Foreign(p, status)
        BY DEF Foreign
      <3>3. http' = [http EXCEPT ![h] = p]
        BY <3>1
      <3> HIDE DEF p
      <3>4. status \in Nat
        OBVIOUS
      <3>5. p \in HttpRequest /\ p.stage = "answered" /\ p.status = status /\ p.token = NoToken
        BY <3>2, <3>4, ForeignRequest
      <3>6. Arrived(p)
        BY <1>5, <3>5, BridgeAssumption DEF Arrived
      <3> QED BY <3>3, <3>5, <3>6
    <2>2. CASE Arrive(h)
      <3>1. PICK k \in DOMAIN kv \cup (Held \ Tokens), need \in {"read", "write"} :
               http' = [http EXCEPT ![h] = [NoRequest EXCEPT !.stage = Authenticate(k, need)[1],
                                                             !.status = Authenticate(k, need)[2],
                                                             !.token = k, !.need = need]]
        BY <2>2 DEF Arrive
      <3> DEFINE stage == Authenticate(k, need)[1]
                 status == Authenticate(k, need)[2]
                 p == [NoRequest EXCEPT !.stage = stage, !.status = status,
                                        !.token = k, !.need = need]
      <3>2. /\ stage \in {"answered", "auth_connect", "connect"} /\ status \in Nat
            /\ stage = "answered" =>
                  /\ status \in {401, 403}
                  /\ k = NoToken \/ (k \in DOMAIN map /\ ~Allows(map[k], need))
        BY DEF Authenticate
      <3>3. k \in Held /\ stage \in Stages /\ (k \in Tokens => k \in DOMAIN kv)
        BY <1>5, <3>2 DEF Held, Stages
      <3>4. stage = "answered" => ~Valid(k, need)
        BY <1>5, <3>2 DEF Valid, BInv, TokensTrue
      <3>5. http' = [http EXCEPT ![h] = p]
        BY <3>1
      <3> HIDE DEF stage, status
      <3>6. New(p, stage, status, k, need)
        BY DEF New
      <3> HIDE DEF p
      <3>7. p \in HttpRequest /\ p.stage = stage /\ p.status = status /\ p.token = k /\ p.need = need
        BY <3>2, <3>3, <3>6, NewRequest
      <3>8. Arrived(p)
        BY <3>2, <3>3, <3>4, <3>7 DEF Arrived
      <3> QED BY <3>5, <3>7, <3>8
    <2> QED BY <2>1, <2>2
  <1>7. PICK p \in HttpRequest : http' = [http EXCEPT ![h] = p] /\ Arrived(p)
    BY <1>6
  <1>8. CallsTrue(client'[h], AskedOf(h)', Told(h)', p, 0)
    BY <1>3, <1>4, <1>7 DEF CallsTrue, Before, Arrived
  <1>9. RefusalsTrue(Told(h)', p, Valid(p.token, p.need))
    BY <1>7 DEF RefusalsTrue, Arrived
  <1>10. p.token \in Tokens => p.token \in DOMAIN kv
    BY <1>7 DEF Arrived
  <1> QED BY <1>1, <1>2, <1>3, <1>7, <1>8, <1>9, <1>10, HandlerLocal

(* The handler opens a connection, or finds no daemon.                     *)
LEMMA HttpConnectStep ==
  ASSUME BInv, NEW h \in Handlers, HttpConnect(h)
  PROVE  BInv'
  <1> DEFINE o == http[h]
             e == effects[h]
  <1>0. /\ h \in Conns /\ SInv /\ CallsTrue(client[h], AskedOf(h), Told(h), o, e)
        /\ RefusalsTrue(Told(h), o, Valid(o.token, o.need))
        /\ http \in [Handlers -> HttpRequest] /\ e \in Nat
        /\ arrived \in 0..MaxHttp /\ effects = [effects EXCEPT ![h] = e]
        /\ o.token \in Tokens => o.token \in DOMAIN kv
    BY HandlerAt
  <1>1. /\ o.stage \in {"auth_connect", "connect"}
        /\ UNCHANGED <<bridge, starts, wanted, kv, expired, map, file, arrived, effects>>
    BY DEF HttpConnect
  <1>2. effects' = [effects EXCEPT ![h] = e] /\ arrived' \in 0..MaxHttp /\ e = 0
    BY <1>0, <1>1 DEF CallsTrue, Before
  <1> DEFINE stage == IF o.stage = "connect" THEN "send" ELSE "auth_send"
  <1>3. CASE Connect(h) /\ Becomes(h, stage, 0)
    <2>1. stage \in Stages /\ 0 \in Nat /\ stage \in {"send", "auth_send"}
      BY DEF Stages
    <2> HIDE DEF stage
    <2>2. PICK p \in HttpRequest :
            /\ http' = [http EXCEPT ![h] = p] /\ p.stage = stage /\ p.status = 0
            /\ p.token = o.token /\ p.need = o.need
            /\ p.unread <=> o.unread
      BY <1>0, <1>3, <2>1, BecomesFields
    <2>3. /\ SInv' /\ OthersSame(h) /\ AskedOf(h)' = {} /\ RepliesOf(h)' = {}
          /\ client'[h].next = 1 /\ client'[h].last = "none"
      BY <1>0, <1>3, ConnectStep
    <2>4. CallsTrue(client'[h], AskedOf(h)', Told(h)', p, e)
      BY <1>2, <2>1, <2>2, <2>3 DEF CallsTrue
    <2>5. RefusalsTrue(Told(h)', p, Valid(p.token, p.need))
      BY <2>1, <2>2 DEF RefusalsTrue
    <2> QED BY <1>0, <1>1, <1>2, <2>2, <2>3, <2>4, <2>5, HandlerLocal
  <1>4. CASE UNCHANGED vars /\ Becomes(h, "answered", 500)
    <2>1. "answered" \in Stages /\ 500 \in Nat
      BY DEF Stages
    <2>2. PICK p \in HttpRequest :
            /\ http' = [http EXCEPT ![h] = p] /\ p.stage = "answered" /\ p.status = 500
            /\ p.token = o.token /\ p.need = o.need
            /\ p.unread <=> o.unread
      BY <1>0, <1>4, <2>1, BecomesFields
    <2>3. /\ SInv' /\ OthersSame(h) /\ client'[h] = client[h] /\ AskedOf(h)' = AskedOf(h)
          /\ Told(h)' = Told(h)
      BY <1>0, <1>4, SessionsSame
    <2>4. CallsTrue(client'[h], AskedOf(h)', Told(h)', p, e)
      BY <1>0, <1>2, <2>2, <2>3 DEF CallsTrue
    <2>5. RefusalsTrue(Told(h)', p, Valid(p.token, p.need))
      BY <2>2 DEF RefusalsTrue
    <2>6. p.token \in Tokens => p.token \in DOMAIN kv
      BY <1>0, <2>2
    <2>7. UNCHANGED <<bridge, starts, wanted, kv, expired, map, file>>
      BY <1>1
    <2>8. p \in HttpRequest /\ http' = [http EXCEPT ![h] = p]
      BY <2>2
    <2> HIDE DEF e, o
    <2> QED BY <1>0, <1>2, <2>3, <2>4, <2>5, <2>6, <2>7, <2>8, HandlerLocal
  <1> QED BY <1>3, <1>4 DEF HttpConnect

(* The handler sends its one request.                                      *)
LEMMA HttpSendStep ==
  ASSUME BInv, NEW h \in Handlers, HttpSend(h)
  PROVE  BInv'
  <1> DEFINE o == http[h]
             e == effects[h]
  <1>0. /\ h \in Conns /\ SInv /\ CallsTrue(client[h], AskedOf(h), Told(h), o, e)
        /\ http \in [Handlers -> HttpRequest] /\ e \in Nat
        /\ arrived \in 0..MaxHttp /\ effects = [effects EXCEPT ![h] = e]
        /\ o.token \in Tokens => o.token \in DOMAIN kv
    BY HandlerAt
  <1>1. UNCHANGED <<bridge, starts, wanted, kv, expired, map, file>> /\ UNCHANGED <<arrived, effects>>
    BY DEF HttpSend
  <1>2. \E kind \in {"validate", "call"}, stage \in {"auth_wait", "wait"} :
           /\ Send(h, kind) /\ Becomes(h, stage, 0)
           /\ stage = "wait" => kind = "call"
           /\ kind = "call" => stage = "wait"
           /\ o.stage \in {"auth_send", "send"}
    BY DEF HttpSend
  <1>3. PICK kind \in {"validate", "call"}, stage \in {"auth_wait", "wait"} :
           /\ Send(h, kind) /\ Becomes(h, stage, 0)
           /\ stage = "wait" => kind = "call"
           /\ kind = "call" => stage = "wait"
           /\ o.stage \in {"auth_send", "send"}
    BY <1>2
  <1>4. e = 0 /\ client[h].next = 1 /\ client[h].last = "none"
    BY <1>0, <1>3 DEF CallsTrue, Before
  <1>5. AskedOf(h) = {} /\ RepliesOf(h) = {}
    BY <1>0, <1>4, FreshConn
  <1>6. [id |-> 1, kind |-> kind] \in Request
    BY DEF Request
  <1>7. /\ SInv' /\ OthersSame(h)
        /\ AskedOf(h)' \subseteq AskedOf(h) \cup {[id |-> client[h].next, kind |-> kind]}
        /\ RepliesOf(h)' = RepliesOf(h)
        /\ client'[h].next = client[h].next + 1
        /\ client'[h].last \in {client[h].last, "closed"}
    BY <1>0, <1>3, <1>6, SendStep
  <1>8. /\ \A r \in AskedOf(h)' : r.kind = kind
        /\ Told(h)' \subseteq {"none", "closed"} /\ client'[h].next = 2
    BY <1>4, <1>5, <1>7 DEF Told
  <1>9. stage \in Stages /\ 0 \in Nat
    BY DEF Stages
  <1>10. PICK p \in HttpRequest :
            /\ http' = [http EXCEPT ![h] = p] /\ p.stage = stage /\ p.status = 0
            /\ p.token = o.token /\ p.need = o.need
            /\ p.unread <=> o.unread
    BY <1>0, <1>3, <1>9, BecomesFields
  <1>11. CallsTrue(client'[h], AskedOf(h)', Told(h)', p, e)
    <2>1. p.stage = "auth_wait" => kind = "validate"
      BY <1>3, <1>10
    <2>2. p.stage \in {"auth_wait", "wait"}
      BY <1>10
    <2>3. p.stage = "wait" => kind = "call"
      BY <1>3, <1>10
    <2> QED BY <1>4, <1>8, <2>1, <2>2, <2>3 DEF CallsTrue
  <1>12. RefusalsTrue(Told(h)', p, Valid(p.token, p.need))
    BY <1>8, <1>10 DEF RefusalsTrue
  <1>13. p.token \in Tokens => p.token \in DOMAIN kv
    BY <1>0, <1>10
  <1>14. p \in HttpRequest /\ http' = [http EXCEPT ![h] = p]
    BY <1>10
  <1>15. effects' = [effects EXCEPT ![h] = e] /\ arrived' \in 0..MaxHttp
    BY <1>0, <1>1
  <1> HIDE DEF o, e
  <1> QED BY <1>0, <1>1, <1>7, <1>11, <1>12, <1>13, <1>14, <1>15, HandlerLocal

(* A dropped client has been told what it was told.                        *)
LEMMA LeaveTold ==
  ASSUME SInv, NEW c \in Conns, Leave(c)
  PROVE  /\ SInv' /\ OthersSame(c) /\ AskedOf(c)' = AskedOf(c) /\ Told(c)' = Told(c)
         /\ client'[c].next = client[c].next /\ client'[c].last = client[c].last
  BY LeaveStep DEF Told

(* The validation or the call has ended.                                   *)
LEMMA DoneStep ==
  ASSUME BInv, NEW h \in Handlers, AuthDone(h) \/ CallDone(h)
  PROVE  BInv'
  <1> DEFINE o == http[h]
             e == effects[h]
             last == client[h].last
  <1>0. /\ h \in Conns /\ SInv /\ CallsTrue(client[h], AskedOf(h), Told(h), o, e)
        /\ RefusalsTrue(Told(h), o, Valid(o.token, o.need))
        /\ http \in [Handlers -> HttpRequest] /\ e \in Nat
        /\ arrived \in 0..MaxHttp /\ effects = [effects EXCEPT ![h] = e]
        /\ o.token \in Tokens => o.token \in DOMAIN kv
    BY HandlerAt
  <1>1. /\ UNCHANGED <<bridge, starts, wanted, kv, expired, map, file>>
        /\ UNCHANGED <<arrived, effects>> /\ Leave(h)
    BY DEF AuthDone, CallDone
  <1>2. /\ SInv' /\ OthersSame(h) /\ AskedOf(h)' = AskedOf(h) /\ Told(h)' = Told(h)
        /\ client'[h].next = client[h].next /\ client'[h].last = client[h].last
    BY <1>0, <1>1, LeaveTold
  <1>3. last \in Told(h)
    BY DEF Told
  <1>4. \E stage \in {"connect", "answered"}, status \in {0, 200, 401, 500} :
           /\ Becomes(h, stage, status)
           /\ o.stage \in {"auth_wait", "wait"}
           /\ stage = "connect" => o.stage = "auth_wait"
           /\ status = 401 => o.stage = "auth_wait" /\ last = "error"
           /\ status = 200 => o.stage = "wait" /\ last = "ok"
           /\ status = 0 => stage = "connect"
    BY DEF AuthDone, CallDone
  <1>5. PICK stage \in {"connect", "answered"}, status \in {0, 200, 401, 500} :
           /\ Becomes(h, stage, status)
           /\ o.stage \in {"auth_wait", "wait"}
           /\ stage = "connect" => o.stage = "auth_wait"
           /\ status = 401 => o.stage = "auth_wait" /\ last = "error"
           /\ status = 200 => o.stage = "wait" /\ last = "ok"
           /\ status = 0 => stage = "connect"
    BY <1>4
  <1>6. stage \in Stages /\ status \in Nat
    BY DEF Stages
  <1>7. PICK p \in HttpRequest :
            /\ http' = [http EXCEPT ![h] = p] /\ p.stage = stage /\ p.status = status
            /\ p.token = o.token /\ p.need = o.need
            /\ p.unread <=> o.unread
    BY <1>0, <1>5, <1>6, BecomesFields
  <1> HIDE DEF o, e, last
  <1>8. CallsTrue(client'[h], AskedOf(h)', Told(h)', p, e)
    <2>1. /\ o.stage = "auth_wait" => e = 0 /\ \A r \in AskedOf(h) : r.kind # "call"
          /\ o.stage = "wait" /\ last = "ok" => e = 1 /\ \A r \in AskedOf(h) : r.kind # "call"
      BY <1>0, <1>3 DEF CallsTrue, Before
    <2>2. ASSUME NEW r \in AskedOf(h), r.kind = "call"
          PROVE  e = 0 /\ p.stage = "answered" /\ p.status = 500
      BY <1>0, <1>5, <1>7, <2>1, <2>2 DEF CallsTrue
    <2>3. p.stage = "connect" => e = 0
      BY <1>5, <1>7, <2>1
    <2>4. p.stage = "answered" /\ p.status = 200 => e = 1
      BY <1>5, <1>7, <2>1
    <2>5. p.stage = "answered" /\ p.status \in {400, 401, 403} => e = 0
      BY <1>5, <1>7, <2>1
    <2>6. client[h].next <= 2 /\ \A r \in AskedOf(h) : r.kind \in {"validate", "call"}
      BY <1>0 DEF CallsTrue
    <2>7. p.stage \in {"connect", "answered"}
      BY <1>7
    <2> QED BY <1>2, <2>2, <2>3, <2>4, <2>5, <2>6, <2>7 DEF CallsTrue, Before
  <1>9. RefusalsTrue(Told(h)', p, Valid(p.token, p.need))
    <2>1. o.stage = "auth_wait" /\ "error" \in Told(h) => o.unread \/ ~Valid(o.token, o.need)
      BY <1>0 DEF RefusalsTrue
    <2>2. p.status = 401 => p.unread \/ ~Valid(p.token, p.need)
      BY <1>3, <1>5, <1>7, <2>1
    <2>3. p.stage # "auth_wait" /\ p.status # 403
      BY <1>7
    <2> QED BY <2>2, <2>3 DEF RefusalsTrue
  <1>10. p.token \in Tokens => p.token \in DOMAIN kv
    BY <1>0, <1>7
  <1>11. p \in HttpRequest /\ http' = [http EXCEPT ![h] = p]
    BY <1>7
  <1>12. effects' = [effects EXCEPT ![h] = e] /\ arrived' \in 0..MaxHttp
    BY <1>0, <1>1
  <1> QED BY <1>0, <1>1, <1>2, <1>8, <1>9, <1>10, <1>11, <1>12, HandlerLocal

(* A handler that is free again, whatever its connection still does.       *)
LEMMA FreeHandler ==
  ASSUME NEW k, NEW m, NEW A, NEW T, NEW p, NEW e, m.next = k.next, CallsTrue(k, A, T, p, e)
  PROVE  /\ NoRequest \in HttpRequest /\ NoRequest.token = NoToken
         /\ CallsTrue(m, A, T, NoRequest, e)
         /\ \A valid : RefusalsTrue(T, NoRequest, valid)
  <1>1. NoRequest \in HttpRequest /\ NoRequest.token = NoToken /\ NoRequest.stage = "idle"
    BY DEF NoRequest, HttpRequest, Stages, Held
  <1> QED BY <1>1 DEF CallsTrue, RefusalsTrue, Before

(* The HTTP request is answered, or its client has gone.                   *)
LEMMA HttpEndStep ==
  ASSUME BInv, NEW h \in Handlers, HttpEnd(h) \/ HttpGone(h)
  PROVE  BInv'
  <1>0. /\ h \in Conns /\ SInv /\ CallsTrue(client[h], AskedOf(h), Told(h), http[h], effects[h])
        /\ effects[h] \in Nat /\ arrived \in 0..MaxHttp
        /\ effects = [effects EXCEPT ![h] = effects[h]]
    BY HandlerAt
  <1>1. /\ UNCHANGED <<bridge, starts, wanted, kv, expired, map, file>>
        /\ UNCHANGED <<arrived, effects>> /\ http' = [http EXCEPT ![h] = NoRequest]
    BY DEF HttpEnd, HttpGone
  <1>2. Leave(h) \/ UNCHANGED vars
    BY DEF HttpEnd, HttpGone
  <1>3. /\ SInv' /\ OthersSame(h) /\ AskedOf(h)' = AskedOf(h) /\ Told(h)' = Told(h)
        /\ client'[h].next = client[h].next
    BY <1>0, <1>2, LeaveTold, SessionsSame
  <1>4. /\ NoRequest \in HttpRequest /\ NoRequest.token = NoToken
        /\ CallsTrue(client'[h], AskedOf(h)', Told(h)', NoRequest, effects[h])
        /\ RefusalsTrue(Told(h)', NoRequest, Valid(NoRequest.token, NoRequest.need))
    BY <1>0, <1>3, FreeHandler
  <1>5. NoRequest.token \in Tokens => NoRequest.token \in DOMAIN kv
    BY <1>4, BridgeAssumption
  <1>6. effects' = [effects EXCEPT ![h] = effects[h]] /\ arrived' \in 0..MaxHttp
    BY <1>0, <1>1
  <1> QED BY <1>0, <1>1, <1>3, <1>4, <1>5, <1>6, HandlerLocal

-----------------------------------------------------------------------------
(* The daemon's handlers behind the bridge.                                *)

(* A handler that serves the bridge ends.                                  *)
LEMMA BehindStep ==
  ASSUME SInv, NEW c \in Conns, c \notin Callers, NEW r, NEW a \in Answer, Answered(c, r, a),
         UNCHANGED <<up, restarts, published, client, inbox, wire, told, executed>>
  PROVE  /\ SInv' /\ OthersSame(c) /\ client'[c] = client[c] /\ r \in AskedOf(c)
         /\ AskedOf(c)' \subseteq AskedOf(c) /\ (\A s \in AskedOf(c)' : s.id # r.id)
         /\ Told(c)' \subseteq Told(c) \cup {a}
  <1> DEFINE v == executed[c][r.id]
  <1>1. /\ executed \in [Conns -> [1..MaxId -> Nat]] /\ published \in 0..MaxEvents
    BY DEF SInv, TypeOK
  <1>2. r \in AskedOf(c)
    BY PartsOf DEF Answered, Asked
  <1>3. r.id \in 1..MaxId
    <2>1. Issued(client[c], AskedOf(c), RepliesOf(c))
      BY SInvAt DEF ConnOK, Consistent, AskedOf, RepliesOf
    <2>2. client[c].next \in Nat /\ MaxId \in Nat
      BY SInvAt, SessionAssumption DEF ConnTyped, ClientState
    <2> QED BY <1>2, <2>1, <2>2 DEF Issued
  <1>4. v \in Nat /\ executed' = [executed EXCEPT ![c] = [executed[c] EXCEPT ![r.id] = v]]
    BY <1>1, <1>3
  <1>5. published' \in 0..MaxEvents /\ UNCHANGED <<up, restarts, client, inbox, wire, told>>
    BY <1>1
  <1> HIDE DEF v
  <1>6. /\ SInv' /\ OthersSame(c) /\ UNCHANGED client
        /\ AskedOf(c)' \subseteq AskedOf(c) /\ (\A s \in AskedOf(c)' : s.id # r.id)
        /\ RepliesOf(c)' \subseteq RepliesOf(c) \cup {Reply(r.id, a)}
    BY <1>4, <1>5, AnsweredStep
  <1>7. Told(c)' \subseteq Told(c) \cup {a}
    BY <1>6 DEF Told, Reply
  <1> QED BY <1>2, <1>6, <1>7

(* A table that cannot be read.                                            *)
Unreadable(p, o) == p = [o EXCEPT !.unread = TRUE]

LEMMA UnreadRequest ==
  ASSUME NEW o \in HttpRequest, NEW p, Unreadable(p, o)
  PROVE  /\ p \in HttpRequest /\ p.unread /\ p.stage = o.stage /\ p.status = o.status
         /\ p.token = o.token /\ p.need = o.need
  BY DEF Unreadable, HttpRequest

(* The daemon validates a token.                                           *)
LEMMA HandleValidateStep ==
  ASSUME BInv, NEW h \in Handlers, HandleValidate(h)
  PROVE  BInv'
  <1> DEFINE o == http[h]
             e == effects[h]
             valid == Valid(o.token, o.need)
             answer == IF valid THEN "ok" ELSE "error"
  <1>0. /\ h \in Conns /\ h \notin Callers /\ SInv
        /\ CallsTrue(client[h], AskedOf(h), Told(h), o, e)
        /\ RefusalsTrue(Told(h), o, valid)
        /\ http \in [Handlers -> HttpRequest] /\ o \in HttpRequest /\ e \in Nat
        /\ arrived \in 0..MaxHttp /\ effects = [effects EXCEPT ![h] = e]
        /\ o.token \in Tokens => o.token \in DOMAIN kv
    BY HandlerAt
  <1>1. /\ UNCHANGED <<bridge, starts, wanted, kv, expired, map, file>>
        /\ UNCHANGED <<arrived, effects>>
        /\ UNCHANGED <<up, restarts, published, client, inbox, wire, told, executed>>
    BY DEF HandleValidate
  <1>2. PICK r \in loop[h].running :
          /\ r.kind = "validate"
          /\ \/ Answered(h, r, answer) /\ UNCHANGED http
             \/ /\ Answered(h, r, "error")
                /\ http' = [http EXCEPT ![h].unread = TRUE]
    BY DEF HandleValidate
  <1>3. \E a \in {"ok", "error"}, p \in HttpRequest :
           /\ Answered(h, r, a) /\ http' = [http EXCEPT ![h] = p]
           /\ p.stage = o.stage /\ p.status = o.status /\ p.token = o.token /\ p.need = o.need
           /\ a = "error" => p.unread \/ ~valid
           /\ o.unread => p.unread
    <2>1. CASE Answered(h, r, answer) /\ UNCHANGED http
      <3>1. answer \in {"ok", "error"} /\ (answer = "error" => ~valid)
        OBVIOUS
      <3>2. http' = [http EXCEPT ![h] = o]
        BY <1>0, <2>1
      <3> HIDE DEF answer, o, valid
      <3> QED BY <1>0, <2>1, <3>1, <3>2
    <2>2. CASE Answered(h, r, "error") /\ http' = [http EXCEPT ![h].unread = TRUE]
      <3> DEFINE p == [o EXCEPT !.unread = TRUE]
      <3>1. http' = [http EXCEPT ![h] = p]
        BY <1>0, <2>2
      <3>2. Unreadable(p, o)
        BY DEF Unreadable
      <3> HIDE DEF p, o, valid
      <3>3. /\ p \in HttpRequest /\ p.unread /\ p.stage = o.stage /\ p.status = o.status
            /\ p.token = o.token /\ p.need = o.need
        BY <1>0, <3>2, UnreadRequest
      <3> QED BY <2>2, <3>1, <3>3
    <2> QED BY <1>2, <2>1, <2>2
  <1>4. PICK a \in {"ok", "error"}, p \in HttpRequest :
           /\ Answered(h, r, a) /\ http' = [http EXCEPT ![h] = p]
           /\ p.stage = o.stage /\ p.status = o.status /\ p.token = o.token /\ p.need = o.need
           /\ a = "error" => p.unread \/ ~valid
           /\ o.unread => p.unread
    BY <1>3
  <1>5. a \in Answer
    BY DEF Answer
  <1>6. /\ SInv' /\ OthersSame(h) /\ client'[h] = client[h] /\ r \in AskedOf(h)
        /\ AskedOf(h)' \subseteq AskedOf(h) /\ Told(h)' \subseteq Told(h) \cup {a}
    BY <1>0, <1>1, <1>4, <1>5, BehindStep
  <1>7. valid <=> Valid(p.token, p.need)
    BY <1>4
  <1> HIDE DEF o, e, valid
  <1>8. CallsTrue(client'[h], AskedOf(h)', Told(h)', p, e)
    <2>1. o.stage # "wait"
      BY <1>0, <1>2, <1>6 DEF CallsTrue
    <2>2. p.stage = o.stage /\ p.status = o.status
      BY <1>4
    <2> QED BY <1>0, <1>6, <2>1, <2>2 DEF CallsTrue
  <1>9. RefusalsTrue(Told(h)', p, Valid(p.token, p.need))
    <2>1. /\ o.stage = "auth_wait" /\ "error" \in Told(h) => o.unread \/ ~valid
          /\ o.stage = "answered" /\ o.status \in {401, 403} => o.unread \/ ~valid
      BY <1>0 DEF RefusalsTrue
    <2>2. "error" \in Told(h)' => "error" \in Told(h) \/ a = "error"
      BY <1>6
    <2> QED BY <1>4, <1>7, <2>1, <2>2 DEF RefusalsTrue
  <1>10. p.token \in Tokens => p.token \in DOMAIN kv
    BY <1>0, <1>4
  <1>11. p \in HttpRequest /\ http' = [http EXCEPT ![h] = p]
    BY <1>4
  <1>12. effects' = [effects EXCEPT ![h] = e] /\ arrived' \in 0..MaxHttp
    BY <1>0, <1>1
  <1> QED BY <1>0, <1>1, <1>6, <1>8, <1>9, <1>10, <1>11, <1>12, HandlerLocal

(* The daemon serves the call of a handler.                                *)
LEMMA HandleCallStep ==
  ASSUME BInv, NEW h \in Handlers, HandleCall(h)
  PROVE  BInv'
  <1> DEFINE o == http[h]
  <1>0. /\ h \in Conns /\ h \notin Callers /\ SInv
        /\ CallsTrue(client[h], AskedOf(h), Told(h), o, effects[h])
        /\ http \in [Handlers -> HttpRequest] /\ o \in HttpRequest /\ effects[h] \in Nat
        /\ arrived \in 0..MaxHttp
        /\ o.token \in Tokens => o.token \in DOMAIN kv
    BY HandlerAt
  <1>1. /\ UNCHANGED <<bridge, starts, wanted, kv, expired, map, file>>
        /\ UNCHANGED <<arrived, http>>
        /\ UNCHANGED <<up, restarts, published, client, inbox, wire, told, executed>>
    BY DEF HandleCall
  <1>2. PICK r \in loop[h].running :
          /\ r.kind = "call"
          /\ \/ /\ Answered(h, r, "ok")
                /\ effects' = [effects EXCEPT ![h] = effects[h] + 1]
             \/ /\ Answered(h, r, "error")
                /\ \E n \in {0, 1} : effects' = [effects EXCEPT ![h] = effects[h] + n]
    BY DEF HandleCall
  <1>3. r \in AskedOf(h)
    BY <1>0, PartsOf DEF Asked
  <1>4. /\ effects[h] = 0
        /\ o.stage \in {"wait", "idle"} \/ (o.stage = "answered" /\ o.status = 500)
        /\ "ok" \in Told(h) => o.stage # "wait"
    BY <1>0, <1>2, <1>3 DEF CallsTrue
  <1>5. \E a \in {"ok", "error"}, e \in {0, 1} :
           Answered(h, r, a) /\ effects' = [effects EXCEPT ![h] = e] /\ (a = "ok" => e = 1)
    <2>1. effects[h] + 1 = 1 /\ \A n \in {0, 1} : effects[h] + n = n
      BY <1>4
    <2> QED BY <1>2, <2>1
  <1>6. PICK a \in {"ok", "error"}, e \in {0, 1} :
           Answered(h, r, a) /\ effects' = [effects EXCEPT ![h] = e] /\ (a = "ok" => e = 1)
    BY <1>5
  <1>7. a \in Answer /\ e \in Nat
    BY DEF Answer
  <1>8. /\ SInv' /\ OthersSame(h) /\ client'[h] = client[h]
        /\ AskedOf(h)' \subseteq AskedOf(h) /\ (\A s \in AskedOf(h)' : s.id # r.id)
        /\ Told(h)' \subseteq Told(h) \cup {a}
    BY <1>0, <1>1, <1>6, <1>7, BehindStep
  <1>9. AskedOf(h)' = {}
    <2>1. Issued(client[h], AskedOf(h), RepliesOf(h))
      BY <1>0, SInvAt DEF ConnOK, Consistent, AskedOf, RepliesOf
    <2>2. client[h].next \in Nat /\ client[h].next <= 2
      BY <1>0, SInvAt DEF ConnTyped, ClientState, CallsTrue
    <2>3. \A s \in AskedOf(h) : s.id = 1
      BY <2>1, <2>2 DEF Issued
    <2> QED BY <1>3, <1>8, <2>3
  <1> HIDE DEF o
  <1>10. CallsTrue(client'[h], AskedOf(h)', Told(h)', o, e)
    <2>1. o.stage = "wait" /\ "ok" \in Told(h)' => e = 1
      BY <1>4, <1>6, <1>8
    <2>2. client'[h].next <= 2
      BY <1>0, <1>8 DEF CallsTrue
    <2> QED BY <1>4, <1>9, <2>1, <2>2 DEF CallsTrue, Before
  <1>11. RefusalsTrue(Told(h)', o, Valid(o.token, o.need))
    BY <1>4 DEF RefusalsTrue
  <1>12. http' = [http EXCEPT ![h] = o] /\ arrived' \in 0..MaxHttp
    BY <1>0, <1>1 DEF o
  <1>13. effects' = [effects EXCEPT ![h] = e]
    BY <1>6
  <1> QED BY <1>0, <1>1, <1>7, <1>8, <1>10, <1>11, <1>12, <1>13, HandlerLocal

-----------------------------------------------------------------------------
(* The steps of the starting bridge.                                       *)

(* Handlers whose connections stay as they are.                            *)
LEMMA KeepHandlers ==
  ASSUME BInv, UNCHANGED <<http, effects>>,
         \A h \in Handlers : /\ client'[h] = client[h] /\ AskedOf(h)' = AskedOf(h)
                             /\ Told(h)' = Told(h),
         \A h \in Handlers : Valid(http[h].token, http[h].need)' => Valid(http[h].token, http[h].need)
  PROVE  HandlersTrue'
  <1> SUFFICES ASSUME NEW h \in Handlers
               PROVE  /\ CallsTrue(client'[h], AskedOf(h)', Told(h)', http'[h], effects'[h])
                      /\ RefusalsTrue(Told(h)', http'[h], Valid(http[h].token, http[h].need)')
    BY DEF HandlersTrue
  <1>1. /\ CallsTrue(client[h], AskedOf(h), Told(h), http[h], effects[h])
        /\ RefusalsTrue(Told(h), http[h], Valid(http[h].token, http[h].need))
    BY DEF BInv, HandlersTrue
  <1>2. Valid(http[h].token, http[h].need)' => Valid(http[h].token, http[h].need)
    OBVIOUS
  <1> QED BY <1>1, <1>2 DEF RefusalsTrue

(* A step at the connection of the starting bridge.                        *)
LEMMA BootLocal ==
  ASSUME BInv, OthersSame(Boot), UNCHANGED <<kv, expired, http, effects>>
  PROVE  HandlersTrue'
  <1>1. ASSUME NEW h \in Handlers
        PROVE  client'[h] = client[h] /\ AskedOf(h)' = AskedOf(h) /\ Told(h)' = Told(h)
    <2>1. h \in Conns \ {Boot}
      BY BridgeAssumption
    <2> QED BY <2>1, CalmElsewhere
  <1>2. \A h \in Handlers : Valid(http[h].token, http[h].need)' => Valid(http[h].token, http[h].need)
    BY DEF Valid
  <1> QED BY <1>1, <1>2, KeepHandlers

(* The bridge connects, to mint a token.                                   *)
LEMMA BootMintStep ==
  ASSUME BInv, BootMint
  PROVE  BInv'
  <1>1. /\ Connect(Boot) /\ UNCHANGED <<kv, expired, http, effects>>
        /\ UNCHANGED <<map, file, arrived>> /\ wanted' \in Scope /\ bridge' = "minting"
        /\ starts < MaxStarts /\ starts' = starts + 1
    BY DEF BootMint
  <1>2. Boot \in Conns /\ SInv
    BY BridgeAssumption DEF BInv
  <1>3. /\ SInv' /\ OthersSame(Boot) /\ AskedOf(Boot)' = {} /\ RepliesOf(Boot)' = {}
        /\ client'[Boot].last = "none"
    BY <1>1, <1>2, ConnectStep
  <1>4. starts' \in 0..MaxStarts
    BY <1>1, BridgeAssumption DEF BInv, BridgeTypeOK
  <1>5. BridgeTypeOK'
    BY <1>1, <1>3, <1>4 DEF BInv, BridgeTypeOK, SInv
  <1>6. Told(Boot)' \cap Tokens = {}
    BY <1>3, SessionAssumption, BridgeAssumption DEF Told
  <1>7. TokensTrue'
    BY <1>1, <1>3, <1>6 DEF BInv, TokensTrue
  <1> QED BY <1>1, <1>3, <1>5, <1>7, BootLocal DEF BInv

(* The bridge asks for its token.                                          *)
LEMMA BootSendStep ==
  ASSUME BInv, BootSend
  PROVE  BInv'
  <1>1. /\ Send(Boot, "mint") /\ UNCHANGED <<kv, expired, http, effects>>
        /\ UNCHANGED <<map, file, arrived, wanted, bridge, starts>>
    BY DEF BootSend, bvars
  <1>2. Boot \in Conns /\ SInv /\ [id |-> 1, kind |-> "mint"] \in Request
    BY BridgeAssumption DEF BInv, Request
  <1>3. /\ SInv' /\ OthersSame(Boot)
        /\ AskedOf(Boot)' \subseteq AskedOf(Boot) \cup {[id |-> client[Boot].next, kind |-> "mint"]}
        /\ RepliesOf(Boot)' = RepliesOf(Boot)
        /\ client'[Boot].last \in {client[Boot].last, "closed"}
    BY <1>1, <1>2, SendStep
  <1>4. BridgeTypeOK'
    BY <1>1, <1>3 DEF BInv, BridgeTypeOK, SInv
  <1>5. \A r \in AskedOf(Boot)' : r.kind = "mint"
    BY <1>3 DEF BInv, TokensTrue
  <1>6. \A t \in Told(Boot)' \cap Tokens : t \in Told(Boot)
    BY <1>3, SessionAssumption, BridgeAssumption DEF Told
  <1>7. TokensTrue'
    BY <1>1, <1>5, <1>6 DEF BInv, TokensTrue
  <1> QED BY <1>1, <1>3, <1>4, <1>7, BootLocal DEF BInv

(* The bridge has its token, or ends.                                      *)
LEMMA BootDoneStep ==
  ASSUME BInv, BootDone
  PROVE  BInv'
  <1> DEFINE k == client[Boot].last
  <1>1. /\ Leave(Boot) /\ UNCHANGED <<kv, expired, http, effects>>
        /\ UNCHANGED <<arrived, wanted, starts>> /\ bridge' \in {"listening", "down"}
        /\ \/ k \in Tokens /\ file' = k /\ map' = Insert(map, k, wanted)
           \/ file' = NoToken /\ UNCHANGED map
           \/ UNCHANGED <<file, map>>
    BY DEF BootDone
  <1>2. Boot \in Conns /\ SInv
    BY BridgeAssumption DEF BInv
  <1>3. /\ SInv' /\ OthersSame(Boot) /\ AskedOf(Boot)' = AskedOf(Boot) /\ Told(Boot)' = Told(Boot)
    BY <1>1, <1>2, LeaveTold
  <1>4. k \in Tokens => k \in DOMAIN kv /\ kv[k] = wanted
    BY DEF BInv, TokensTrue, Told
  <1>5. /\ map \in [DOMAIN map -> Scope] /\ DOMAIN map \subseteq Tokens \cup {Bootstrap}
        /\ wanted \in Scope
        /\ \A t \in DOMAIN map \cap Tokens : t \in DOMAIN kv /\ map[t] = kv[t]
    BY DEF BInv, BridgeTypeOK, TokensTrue
  <1>6. /\ DOMAIN map' \subseteq Tokens \cup {Bootstrap} /\ map' \in [DOMAIN map' -> Scope]
        /\ file' \in Tokens \cup {NoToken}
        /\ \A t \in DOMAIN map' \cap Tokens : t \in DOMAIN kv /\ map'[t] = kv[t]
    <2>1. CASE k \in Tokens /\ file' = k /\ map' = Insert(map, k, wanted)
      <3> HIDE DEF k
      <3>1. /\ DOMAIN map' = DOMAIN map \cup {k} /\ map' \in [DOMAIN map' -> Scope]
            /\ map'[k] = wanted /\ \A t \in DOMAIN map : t # k => map'[t] = map[t]
        BY <1>5, <2>1 DEF Insert
      <3> QED BY <1>4, <1>5, <2>1, <3>1
    <2>2. CASE UNCHANGED map /\ file' \in {file, NoToken}
      BY <1>5, <2>2 DEF BInv, BridgeTypeOK
    <2> QED BY <1>1, <2>1, <2>2
  <1>7. BridgeTypeOK'
    BY <1>1, <1>3, <1>6 DEF BInv, BridgeTypeOK, SInv
  <1>8. TokensTrue'
    BY <1>1, <1>3, <1>6 DEF BInv, TokensTrue
  <1> QED BY <1>1, <1>3, <1>7, <1>8, BootLocal DEF BInv

(* The bridge starts without minting.                                      *)
LEMMA BootPlainStep ==
  ASSUME BInv, BootPlain
  PROVE  BInv'
  <1>1. /\ UNCHANGED vars /\ UNCHANGED <<kv, expired, http, effects>>
        /\ UNCHANGED <<arrived, wanted, file>> /\ bridge' = "listening"
        /\ starts < MaxStarts /\ starts' = starts + 1
        /\ map' = map \/ \E s \in Scope : map' = Insert(map, Bootstrap, s)
    BY DEF BootPlain
  <1>2. SInv' /\ OthersSame(Boot) /\ AskedOf(Boot)' = AskedOf(Boot) /\ Told(Boot)' = Told(Boot)
    BY <1>1, SessionsSame DEF BInv
  <1>3. /\ map \in [DOMAIN map -> Scope] /\ DOMAIN map \subseteq Tokens \cup {Bootstrap}
        /\ \A t \in DOMAIN map \cap Tokens : t \in DOMAIN kv /\ map[t] = kv[t]
    BY DEF BInv, BridgeTypeOK, TokensTrue
  <1>4. /\ DOMAIN map' \subseteq Tokens \cup {Bootstrap} /\ map' \in [DOMAIN map' -> Scope]
        /\ \A t \in DOMAIN map' \cap Tokens : t \in DOMAIN kv /\ map'[t] = kv[t]
    <2>1. ASSUME NEW s \in Scope, map' = Insert(map, Bootstrap, s) PROVE <1>4
      <3>1. /\ DOMAIN map' = DOMAIN map \cup {Bootstrap} /\ map' \in [DOMAIN map' -> Scope]
            /\ \A t \in DOMAIN map : t # Bootstrap => map'[t] = map[t]
        BY <1>3, <2>1 DEF Insert
      <3> QED BY <1>3, <3>1, BridgeAssumption
    <2>2. CASE map' = map
      BY <1>3, <2>2
    <2> QED BY <1>1, <2>1, <2>2
  <1>5. starts' \in 0..MaxStarts
    BY <1>1, BridgeAssumption DEF BInv, BridgeTypeOK
  <1>6. BridgeTypeOK'
    BY <1>1, <1>2, <1>4, <1>5 DEF BInv, BridgeTypeOK, SInv
  <1>7. TokensTrue'
    BY <1>1, <1>2, <1>4 DEF BInv, TokensTrue
  <1> QED BY <1>1, <1>2, <1>6, <1>7, BootLocal DEF BInv

(* The daemon mints a token.                                               *)
LEMMA HandleMintStep ==
  ASSUME BInv, HandleMint
  PROVE  BInv'
  <1>0. Boot \in Conns /\ Boot \notin Callers /\ SInv
    BY BridgeAssumption DEF BInv
  <1>1. /\ UNCHANGED <<up, restarts, published, client, inbox, wire, told, executed>>
        /\ UNCHANGED <<bridge, starts, wanted, expired, map, file, http, arrived, effects>>
    BY DEF HandleMint
  <1>2. \E r \in loop[Boot].running, a \in Tokens \cup {"error"} :
           /\ Answered(Boot, r, a)
           /\ \/ a \in Tokens \ DOMAIN kv /\ kv' = Insert(kv, a, wanted)
              \/ a = "error" /\ UNCHANGED kv
    BY DEF HandleMint
  <1>3. PICK r \in loop[Boot].running, a \in Tokens \cup {"error"} :
           /\ Answered(Boot, r, a)
           /\ \/ a \in Tokens \ DOMAIN kv /\ kv' = Insert(kv, a, wanted)
              \/ a = "error" /\ UNCHANGED kv
    BY <1>2
  <1>4. a \in Answer /\ "error" \notin Tokens
    BY SessionAssumption, BridgeAssumption DEF Answer
  <1>5. /\ SInv' /\ OthersSame(Boot) /\ AskedOf(Boot)' \subseteq AskedOf(Boot)
        /\ Told(Boot)' \subseteq Told(Boot) \cup {a}
    BY <1>0, <1>1, <1>3, <1>4, BehindStep
  <1>6. /\ kv \in [DOMAIN kv -> Scope] /\ DOMAIN kv \subseteq Tokens /\ wanted \in Scope
    BY DEF BInv, BridgeTypeOK
  <1>7. /\ DOMAIN kv \subseteq DOMAIN kv' /\ DOMAIN kv' \subseteq DOMAIN kv \cup {a}
        /\ DOMAIN kv' \subseteq Tokens /\ kv' \in [DOMAIN kv' -> Scope]
        /\ \A t \in DOMAIN kv : kv'[t] = kv[t]
        /\ a \in Tokens => a \in DOMAIN kv' /\ kv'[a] = wanted /\ a \notin DOMAIN kv
    <2>1. CASE a \in Tokens \ DOMAIN kv /\ kv' = Insert(kv, a, wanted)
      <3>1. /\ DOMAIN kv' = DOMAIN kv \cup {a} /\ kv' \in [DOMAIN kv' -> Scope]
            /\ kv'[a] = wanted /\ \A t \in DOMAIN kv : t # a => kv'[t] = kv[t]
        BY <1>6, <2>1 DEF Insert
      <3> QED BY <1>6, <2>1, <3>1
    <2>2. CASE a = "error" /\ UNCHANGED kv
      BY <1>4, <1>6, <2>2
    <2> QED BY <1>3, <2>1, <2>2
  <1>8. BridgeTypeOK'
    BY <1>1, <1>5, <1>7 DEF BInv, BridgeTypeOK, SInv
  <1>9. TokensTrue'
    <2>1. \A h \in Handlers : http'[h].token \in Tokens => http'[h].token \in DOMAIN kv'
      BY <1>1, <1>7 DEF BInv, TokensTrue
    <2>2. \A s \in AskedOf(Boot)' : s.kind = "mint"
      BY <1>5 DEF BInv, TokensTrue
    <2>3. \A t \in Told(Boot)' \cap Tokens : t \in DOMAIN kv' /\ kv'[t] = wanted'
      BY <1>1, <1>5, <1>7 DEF BInv, TokensTrue
    <2>4. \A t \in DOMAIN map' \cap Tokens : t \in DOMAIN kv' /\ map'[t] = kv'[t]
      BY <1>1, <1>7 DEF BInv, TokensTrue
    <2> QED BY <2>1, <2>2, <2>3, <2>4 DEF TokensTrue
  <1>10. HandlersTrue'
    <2>1. ASSUME NEW h \in Handlers
          PROVE  client'[h] = client[h] /\ AskedOf(h)' = AskedOf(h) /\ Told(h)' = Told(h)
      <3>1. h \in Conns \ {Boot}
        BY BridgeAssumption
      <3> QED BY <1>5, <3>1, CalmElsewhere
    <2>2. ASSUME NEW h \in Handlers, Valid(http[h].token, http[h].need)'
          PROVE  Valid(http[h].token, http[h].need)
      <3>1. http[h].token \in DOMAIN kv' /\ (http[h].token \in Tokens => http[h].token \in DOMAIN kv)
        BY <1>1, <2>2 DEF Valid, BInv, TokensTrue
      <3>2. http[h].token \in DOMAIN kv
        BY <1>7, <3>1
      <3> QED BY <1>1, <1>7, <2>2, <3>2 DEF Valid
    <2> QED BY <1>1, <2>1, <2>2, KeepHandlers
  <1> QED BY <1>5, <1>8, <1>9, <1>10 DEF BInv

(* A token expires.                                                        *)
LEMMA ExpireStep ==
  ASSUME BInv, Expire
  PROVE  BInv'
  <1>1. /\ UNCHANGED vars /\ UNCHANGED <<bridge, starts, wanted, kv, map, file, http, arrived, effects>>
        /\ expired \subseteq expired' /\ expired' \subseteq DOMAIN kv
    BY DEF Expire, BInv, BridgeTypeOK
  <1>2. SInv' /\ AskedOf(Boot)' = AskedOf(Boot) /\ Told(Boot)' = Told(Boot)
    BY <1>1, SessionsSame DEF BInv
  <1>3. BridgeTypeOK'
    BY <1>1, <1>2 DEF BInv, BridgeTypeOK, SInv
  <1>4. TokensTrue'
    BY <1>1, <1>2 DEF BInv, TokensTrue
  <1>5. \A h \in Handlers : client'[h] = client[h] /\ AskedOf(h)' = AskedOf(h) /\ Told(h)' = Told(h)
    BY <1>1, SessionsSame DEF BInv
  <1>6. \A h \in Handlers : Valid(http[h].token, http[h].need)' => Valid(http[h].token, http[h].need)
    BY <1>1 DEF Valid
  <1>7. HandlersTrue'
    BY <1>1, <1>5, <1>6, KeepHandlers
  <1> QED BY <1>2, <1>3, <1>4, <1>7 DEF BInv

(* The bridge dies, and with it the clients of its connections.            *)
LEMMA BridgeDiesStep ==
  ASSUME BInv, BridgeDies
  PROVE  BInv'
  <1>1. /\ bridge' = "down" /\ map' = <<>> /\ http' = [h \in Handlers |-> NoRequest]
        /\ UNCHANGED <<up, restarts, published, inbox, loop, wire, told, executed>>
        /\ UNCHANGED <<starts, wanted, kv, expired, file, arrived, effects>>
    BY DEF BridgeDies
  <1>2. SInv /\ TypeOK /\ Own \subseteq Conns
    BY BridgeAssumption DEF BInv, SInv, Own
  <1>3. /\ \A c \in Own : Dropped(client[c], client'[c])
        /\ \A c \in Conns \ Own : client'[c] = client[c]
        /\ client' = [c \in Conns |-> client'[c]]
    <2>1. client' = [c \in Conns |-> IF c \in Own
                                     THEN [client[c] EXCEPT !.open = FALSE, !.waits = 0]
                                     ELSE client[c]]
      BY DEF BridgeDies, Own
    <2> QED BY <1>2, <2>1 DEF Dropped
  <1>4. ASSUME NEW c \in Conns
        PROVE  /\ client'[c] \in ClientState
               /\ client'[c].next = client[c].next /\ client'[c].last = client[c].last
               /\ ConnOK(c \in Callers, client'[c], inbox[c], loop[c], wire[c], told[c], executed[c])
    <2> DEFINE k == client[c]
               m == client'[c]
    <2>0. /\ ConnTyped(k, inbox[c], loop[c], wire[c], told[c], executed[c])
          /\ ConnOK(c \in Callers, k, inbox[c], loop[c], wire[c], told[c], executed[c])
      BY <1>2, SInvAt
    <2>1. CASE c \in Own
      <3>1. Dropped(k, m)
        BY <1>3, <2>1
      <3> HIDE DEF k, m
      <3>2. /\ ConnTyped(m, inbox[c], loop[c], wire[c], told[c], executed[c])
            /\ ConnOK(c \in Callers, m, inbox[c], loop[c], wire[c], told[c], executed[c])
            /\ m.next = k.next /\ m.last = k.last
        BY <2>0, <3>1, LeavingConn
      <3> QED BY <3>2 DEF ConnTyped, k, m
    <2>2. CASE c \notin Own
      <3>1. m = k
        BY <1>3, <2>2
      <3> QED BY <2>0, <3>1 DEF ConnTyped
    <2> QED BY <2>1, <2>2
  <1>5. SInv'
    <2>1. client' \in [Conns -> ClientState]
      BY <1>3, <1>4
    <2>2. TypeOK'
      BY <1>1, <1>2, <2>1 DEF TypeOK
    <2> QED BY <1>1, <1>2, <1>4, <2>2 DEF SInv
  <1>6. NoRequest \in HttpRequest /\ NoRequest.token = NoToken
    BY DEF NoRequest, HttpRequest, Stages, Held
  <1>7. BridgeTypeOK'
    <2>1. DOMAIN map' = {} /\ map' \in [DOMAIN map' -> Scope]
      BY <1>1
    <2>2. http' \in [Handlers -> HttpRequest]
      BY <1>1, <1>6
    <2> QED BY <1>1, <1>5, <2>1, <2>2 DEF BInv, BridgeTypeOK, SInv
  <1>8. \A c \in Own : AskedOf(c)' = AskedOf(c) /\ Told(c)' = Told(c)
    BY <1>1, <1>2, <1>4 DEF AskedOf, Told, RepliesOf
  <1>9. TokensTrue'
    <2>1. DOMAIN map' = {}
      BY <1>1
    <2>2. \A h \in Handlers : http'[h].token \notin Tokens
      BY <1>1, <1>6, BridgeAssumption
    <2>3. AskedOf(Boot)' = AskedOf(Boot) /\ Told(Boot)' = Told(Boot)
      BY <1>8 DEF Own
    <2> QED BY <1>1, <2>1, <2>2, <2>3 DEF BInv, TokensTrue
  <1>10. ASSUME NEW h \in Handlers
         PROVE  /\ CallsTrue(client'[h], AskedOf(h)', Told(h)', http'[h], effects'[h])
                /\ RefusalsTrue(Told(h)', http'[h], Valid(http[h].token, http[h].need)')
    <2>1. /\ http'[h] = NoRequest /\ effects'[h] = effects[h] /\ AskedOf(h)' = AskedOf(h)
          /\ Told(h)' = Told(h) /\ client'[h].next = client[h].next
      BY <1>1, <1>2, <1>4, <1>8 DEF Own
    <2>2. CallsTrue(client[h], AskedOf(h), Told(h), http[h], effects[h])
      BY HandlerAt
    <2> QED BY <2>1, <2>2, FreeHandler
  <1>11. HandlersTrue'
    BY <1>10 DEF HandlersTrue
  <1> QED BY <1>5, <1>7, <1>9, <1>11 DEF BInv

-----------------------------------------------------------------------------
(* The invariant holds.                                                    *)

LEMMA BInvInit == BridgeInit => BInv
  <1> SUFFICES ASSUME BridgeInit PROVE BInv
    OBVIOUS
  <1>1. SInv /\ TypeOK
    BY SessionInit DEF BridgeInit, SInv
  <1>2. /\ bridge \in {"absent", "down"} /\ starts = 0 /\ wanted = "write"
        /\ kv = <<>> /\ expired = {} /\ map = <<>> /\ file = NoToken
        /\ http = [h \in Handlers |-> NoRequest] /\ arrived = 0
        /\ effects = [h \in Handlers |-> 0]
    BY DEF BridgeInit
  <1>3. NoRequest \in HttpRequest /\ NoRequest.token = NoToken /\ NoRequest.stage = "idle"
    BY DEF NoRequest, HttpRequest, Stages, Held
  <1>4. DOMAIN kv = {} /\ DOMAIN map = {}
    BY <1>2
  <1>5. BridgeTypeOK
    <2>1. kv \in [DOMAIN kv -> Scope] /\ map \in [DOMAIN map -> Scope]
      BY <1>2
    <2>2. starts \in 0..MaxStarts /\ arrived \in 0..MaxHttp /\ wanted \in Scope
      BY <1>2, BridgeAssumption DEF Scope
    <2>3. http \in [Handlers -> HttpRequest] /\ effects \in [Handlers -> Nat]
      BY <1>2, <1>3
    <2> QED BY <1>1, <1>2, <1>4, <2>1, <2>2, <2>3 DEF BridgeTypeOK
  <1>6. ASSUME NEW c \in Own
        PROVE  AskedOf(c) = {} /\ Told(c) = {"none"} /\ client[c].next = 1
    <2>1. c \in Conns
      BY BridgeAssumption DEF Own
    <2>2. client[c] = NoClient
      BY <2>1 DEF BridgeInit, Init
    <2>3. client[c].next = 1 /\ client[c].last = "none"
      BY <2>2 DEF NoClient
    <2> QED BY <1>1, <2>1, <2>3, FreshConn DEF Told
  <1>7. TokensTrue
    <2>1. \A h \in Handlers : http[h].token \notin Tokens
      BY <1>2, <1>3, BridgeAssumption
    <2>2. AskedOf(Boot) = {} /\ Told(Boot) \cap Tokens = {}
      BY <1>6, SessionAssumption, BridgeAssumption DEF Own
    <2> QED BY <1>4, <2>1, <2>2 DEF TokensTrue
  <1>8. ASSUME NEW h \in Handlers
        PROVE  /\ CallsTrue(client[h], AskedOf(h), Told(h), http[h], effects[h])
               /\ RefusalsTrue(Told(h), http[h], Valid(http[h].token, http[h].need))
    <2>1. http[h].stage = "idle" /\ effects[h] = 0
      BY <1>2, <1>3
    <2>2. AskedOf(h) = {} /\ client[h].next = 1
      BY <1>6 DEF Own
    <2> QED BY <2>1, <2>2 DEF CallsTrue, RefusalsTrue, Before
  <1> QED BY <1>1, <1>5, <1>7, <1>8 DEF BInv, HandlersTrue

LEMMA BInvStep == BInv /\ [BridgeNext]_bridgeVars => BInv'
  <1> SUFFICES ASSUME BInv, [BridgeNext]_bridgeVars PROVE BInv'
    OBVIOUS
  <1>1. CASE DaemonSteps
    BY <1>1, DaemonStep
  <1>2. CASE ClientSteps
    BY <1>2, ClientStep
  <1>3. CASE BootMint \/ BootSend \/ BootDone \/ BootPlain \/ BridgeDies
    BY <1>3, BootMintStep, BootSendStep, BootDoneStep, BootPlainStep, BridgeDiesStep
  <1>4. CASE HandleMint \/ Expire
    BY <1>4, HandleMintStep, ExpireStep
  <1>5. ASSUME NEW h \in Handlers,
               \/ Arrive(h) \/ ArriveForeign(h) \/ HttpConnect(h) \/ HttpSend(h)
               \/ AuthDone(h) \/ CallDone(h) \/ HttpEnd(h) \/ HttpGone(h)
               \/ HandleValidate(h) \/ HandleCall(h)
        PROVE  BInv'
    BY <1>5, ArriveStep, HttpConnectStep, HttpSendStep, DoneStep, HttpEndStep,
       HandleValidateStep, HandleCallStep
  <1>6. CASE UNCHANGED bridgeVars
    <2>1. UNCHANGED vars /\ UNCHANGED bvars
      BY <1>6 DEF bridgeVars
    <2>2. SInv' /\ \A d \in Own : Calm(d)
      BY <2>1, SessionsSame DEF BInv, Calm
    <2> QED BY <2>1, <2>2, CalmStep
  <1> QED BY <1>1, <1>2, <1>3, <1>4, <1>5, <1>6 DEF BridgeNext, BridgeSteps

LEMMA BInvHolds == BridgeSpec => []BInv
  BY BInvInit, BInvStep, PTL DEF BridgeSpec

-----------------------------------------------------------------------------
(* The theorems.                                                           *)

(* Sessions, tokens and HTTP requests keep their types.                    *)
THEOREM BridgeTypeCorrect == BridgeSpec => []BridgeTypeOK
  <1>1. BInv => BridgeTypeOK
    BY DEF BInv
  <1> QED BY <1>1, BInvHolds, PTL

(* What the client library returns as answered is its own request's        *)
(* answer, however many earlier ones timed out and whenever the daemon     *)
(* dies: "ok" is only returned for a request that took effect once.        *)
THEOREM OwnAnswerHolds == BridgeSpec => []OwnAnswer
  <1>1. ASSUME BInv PROVE OwnAnswer
    <2> SUFFICES ASSUME NEW c \in Callers, client[c].last = "ok"
                 PROVE  executed[c][client[c].lastId] = 1
      BY DEF OwnAnswer
    <2>1. c \in Conns
      BY SessionAssumption
    <2>2. ConnOK(c \in Callers, client[c], inbox[c], loop[c], wire[c], told[c], executed[c])
      BY <1>1, <2>1, SInvAt DEF BInv
    <2> QED BY <2>2 DEF ConnOK, Consistent, Done
  <1> QED BY <1>1, BInvHolds, PTL

(* IdMismatch is only returned by a client one of whose earlier requests   *)
(* timed out: neither events nor the order in which tasks end cause it.    *)
THEOREM MismatchHolds == BridgeSpec => []MismatchNeedsTimeout
  <1>1. ASSUME BInv PROVE MismatchNeedsTimeout
    <2> SUFFICES ASSUME NEW c \in Callers, client[c].last = "mismatch"
                 PROVE  client[c].late
      BY DEF MismatchNeedsTimeout
    <2>1. c \in Conns
      BY SessionAssumption
    <2>2. ConnOK(c \in Callers, client[c], inbox[c], loop[c], wire[c], told[c], executed[c])
      BY <1>1, <2>1, SInvAt DEF BInv
    <2> QED BY <2>2 DEF ConnOK, Consistent, Awaited
  <1> QED BY <1>1, BInvHolds, PTL

(* No event is lost silently to a subscriber: it was delivered, counted as *)
(* skipped, or is part of the snapshot.                                    *)
THEOREM NothingMissedHolds == BridgeSpec => []NothingMissed
  <1>1. ASSUME BInv PROVE NothingMissed
    <2> SUFFICES ASSUME NEW c \in Conns PROVE loop[c].rx <= told[c]
      BY DEF NothingMissed
    <2> QED BY <1>1, SInvAt DEF BInv, ConnOK
  <1> QED BY <1>1, BInvHolds, PTL

(* The HTTP status tells the truth about the daemon's data: 200 for one    *)
(* effect, 400, 401 and 403 for none, whichever connection broke or timed  *)
(* out on the way.                                                         *)
THEOREM StatusHolds == BridgeSpec => []StatusMatchesEffect
  <1>1. ASSUME BInv PROVE StatusMatchesEffect
    BY <1>1 DEF BInv, HandlersTrue, CallsTrue, StatusMatchesEffect, Answers
  <1> QED BY <1>1, BInvHolds, PTL

(* A request that was refused for its scope holds a token of a scope that  *)
(* does not suffice.                                                       *)
Narrow(p) ==
    p.stage = "answered" /\ p.status = 403 /\ p.token \in DOMAIN kv => ~Allows(kv[p.token], p.need)

NInv == BInv /\ \A h \in Handlers : Narrow(http[h])

(* Only the arrival of a request answers it with 403.                      *)
LEMMA NarrowStep ==
  ASSUME BInv, [BridgeNext]_bridgeVars, NEW h \in Handlers
  PROVE  \/ http'[h].stage # "answered" \/ http'[h].status # 403 \/ http'[h].token = NoToken
         \/ /\ http'[h].stage = http[h].stage /\ http'[h].status = http[h].status
            /\ http'[h].token = http[h].token /\ http'[h].need = http[h].need
         \/ /\ http'[h].token \in DOMAIN map /\ ~Allows(map[http'[h].token], http'[h].need)
            /\ UNCHANGED kv
  <1> DEFINE Goal ==
         \/ http'[h].stage # "answered" \/ http'[h].status # 403 \/ http'[h].token = NoToken
         \/ /\ http'[h].stage = http[h].stage /\ http'[h].status = http[h].status
            /\ http'[h].token = http[h].token /\ http'[h].need = http[h].need
         \/ /\ http'[h].token \in DOMAIN map /\ ~Allows(map[http'[h].token], http'[h].need)
            /\ UNCHANGED kv
  <1> SUFFICES Goal
    OBVIOUS
  <1>0. http \in [Handlers -> HttpRequest] /\ DOMAIN kv \subseteq Tokens
    BY DEF BInv, BridgeTypeOK
  <1>1. NoRequest.token = NoToken
    BY DEF NoRequest
  <1>2. ASSUME http'[h] = http[h] \/ http'[h] = NoRequest PROVE Goal
    BY <1>1, <1>2
  <1>3. ASSUME NEW g \in Handlers, NEW p, http' = [http EXCEPT ![g] = p],
               http'[h] = p => Goal
        PROVE  Goal
    <2>1. http'[h] = p \/ http'[h] = http[h]
      BY <1>0, <1>3
    <2> QED BY <1>2, <1>3, <2>1
  <1> HIDE DEF Goal
  <1>4. CASE DaemonSteps \/ ClientSteps \/ UNCHANGED bridgeVars
    BY <1>2, <1>4 DEF DaemonSteps, ClientSteps, bridgeVars, bvars
  <1>5. CASE BootMint \/ BootSend \/ BootDone \/ BootPlain \/ HandleMint \/ Expire
    BY <1>2, <1>5 DEF BootMint, BootSend, BootDone, BootPlain, HandleMint, Expire, bvars
  <1>6. CASE BridgeDies
    <2>1. http' = [g \in Handlers |-> NoRequest]
      BY <1>6 DEF BridgeDies
    <2> QED BY <1>2, <2>1
  <1>7. ASSUME NEW g \in Handlers, HttpEnd(g) \/ HttpGone(g) \/ HandleCall(g) PROVE Goal
    <2>1. http' = [http EXCEPT ![g] = NoRequest] \/ UNCHANGED http
      BY <1>7 DEF HttpEnd, HttpGone, HandleCall
    <2> QED BY <1>0, <1>2, <2>1
  <1>8. ASSUME NEW g \in Handlers, HttpConnect(g) \/ HttpSend(g) \/ AuthDone(g) \/ CallDone(g)
        PROVE  Goal
    <2>1. \E stage \in Stages, status \in {0, 200, 401, 500} : Becomes(g, stage, status)
      BY <1>8 DEF HttpConnect, HttpSend, AuthDone, CallDone, Stages
    <2>2. PICK stage \in Stages, status \in {0, 200, 401, 500} : Becomes(g, stage, status)
      BY <2>1
    <2>3. status \in Nat /\ status # 403
      OBVIOUS
    <2>4. PICK p \in HttpRequest : http' = [http EXCEPT ![g] = p] /\ p.status = status
      BY <1>0, <2>2, <2>3, BecomesFields
    <2> QED BY <1>3, <2>3, <2>4 DEF Goal
  <1>9. ASSUME NEW g \in Handlers, HandleValidate(g) PROVE Goal
    <2>1. CASE UNCHANGED http
      BY <1>2, <2>1
    <2>2. CASE http' = [http EXCEPT ![g].unread = TRUE]
      <3> DEFINE o == http[g]
                 p == [o EXCEPT !.unread = TRUE]
      <3>1. http' = [http EXCEPT ![g] = p] /\ o \in HttpRequest
        BY <1>0, <2>2
      <3>2. Unreadable(p, o)
        BY DEF Unreadable
      <3> HIDE DEF p, o
      <3>3. p.stage = o.stage /\ p.status = o.status /\ p.token = o.token /\ p.need = o.need
        BY <3>1, <3>2, UnreadRequest
      <3>4. CASE h = g
        BY <1>0, <3>1, <3>3, <3>4 DEF o, Goal
      <3>5. CASE h # g
        BY <1>0, <1>2, <3>1, <3>5
      <3> QED BY <3>4, <3>5
    <2> QED BY <1>9, <2>1, <2>2 DEF HandleValidate
  <1>10. ASSUME NEW g \in Handlers, ArriveForeign(g) PROVE Goal
    <2>1. PICK status \in {400, 403} :
             http' = [http EXCEPT ![g] = [NoRequest EXCEPT !.stage = "answered", !.status = status]]
      BY <1>10 DEF ArriveForeign
    <2> DEFINE p == [NoRequest EXCEPT !.stage = "answered", !.status = status]
    <2>2. Foreign(p, status) /\ status \in Nat
      BY DEF Foreign
    <2>3. http' = [http EXCEPT ![g] = p]
      BY <2>1
    <2> HIDE DEF p
    <2>4. p.token = NoToken
      BY <2>2, ForeignRequest
    <2> QED BY <1>3, <2>3, <2>4 DEF Goal
  <1>11. ASSUME NEW g \in Handlers, Arrive(g) PROVE Goal
    <2>1. PICK k \in DOMAIN kv \cup (Held \ Tokens), need \in {"read", "write"} :
             http' = [http EXCEPT ![g] = [NoRequest EXCEPT !.stage = Authenticate(k, need)[1],
                                                           !.status = Authenticate(k, need)[2],
                                                           !.token = k, !.need = need]]
      BY <1>11 DEF Arrive
    <2> DEFINE stage == Authenticate(k, need)[1]
               status == Authenticate(k, need)[2]
               p == [NoRequest EXCEPT !.stage = stage, !.status = status,
                                      !.token = k, !.need = need]
    <2>2. /\ stage \in {"answered", "auth_connect", "connect"} /\ status \in Nat
          /\ stage = "answered" => k = NoToken \/ (k \in DOMAIN map /\ ~Allows(map[k], need))
      BY DEF Authenticate
    <2>3. k \in Held /\ stage \in Stages
      BY <1>0, <2>2 DEF Held, Stages
    <2>4. http' = [http EXCEPT ![g] = p] /\ UNCHANGED kv
      BY <1>11, <2>1 DEF Arrive
    <2> HIDE DEF stage, status
    <2>5. New(p, stage, status, k, need)
      BY DEF New
    <2> HIDE DEF p
    <2>6. p.stage = stage /\ p.token = k /\ p.need = need
      BY <2>2, <2>3, <2>5, NewRequest
    <2>7. CASE http'[h] = p
      BY <2>2, <2>4, <2>6, <2>7 DEF Goal
    <2> QED BY <1>3, <2>4, <2>7
  <1> QED BY <1>4, <1>5, <1>6, <1>7, <1>8, <1>9, <1>10, <1>11 DEF BridgeNext, BridgeSteps

LEMMA NInvHolds == BridgeSpec => []NInv
  <1>1. ASSUME BridgeInit PROVE NInv
    <2>1. \A h \in Handlers : http[h] = NoRequest /\ NoRequest.stage = "idle"
      BY <1>1 DEF BridgeInit, NoRequest
    <2> QED BY <1>1, <2>1, BInvInit DEF NInv, Narrow
  <1>2. ASSUME NInv, [BridgeNext]_bridgeVars PROVE NInv'
    <2>1. BInv /\ BInv'
      BY <1>2, BInvStep DEF NInv
    <2>2. /\ \A t \in DOMAIN kv : t \in DOMAIN kv' /\ kv'[t] = kv[t]
          /\ DOMAIN kv' \subseteq Tokens /\ NoToken \notin Tokens
      <3>1. UNCHANGED kv \/ \E k \in Tokens \ DOMAIN kv : kv' = Insert(kv, k, wanted)
        BY <1>2 DEF BridgeNext, DaemonSteps, ClientSteps, BridgeSteps, bridgeVars, bvars, BootMint,
                    BootSend, BootDone, BootPlain, BridgeDies, HandleMint, Expire, Arrive,
                    ArriveForeign, HttpConnect, HttpSend, AuthDone, CallDone, HttpEnd, HttpGone,
                    HandleValidate, HandleCall
      <3>2. \A t \in DOMAIN kv : t \in DOMAIN kv' /\ kv'[t] = kv[t]
        BY <3>1 DEF Insert
      <3> QED BY <2>1, <3>2, BridgeAssumption DEF BInv, BridgeTypeOK
    <2>3. ASSUME NEW h \in Handlers PROVE Narrow(http[h])'
      <3> DEFINE p == http[h]
                 q == http'[h]
      <3>1. /\ Narrow(p) /\ (p.token \in Tokens => p.token \in DOMAIN kv)
            /\ \A t \in DOMAIN map \cap Tokens : t \in DOMAIN kv /\ map[t] = kv[t]
        BY <1>2, <2>1 DEF NInv, BInv, TokensTrue
      <3>2. \/ q.stage # "answered" \/ q.status # 403 \/ q.token = NoToken
            \/ /\ q.stage = p.stage /\ q.status = p.status /\ q.token = p.token /\ q.need = p.need
            \/ q.token \in DOMAIN map /\ ~Allows(map[q.token], q.need) /\ UNCHANGED kv
        BY <1>2, <2>1, NarrowStep
      <3> HIDE DEF p, q
      <3>3. q.stage = "answered" /\ q.status = 403 /\ q.token \in DOMAIN kv' =>
               ~Allows(kv'[q.token], q.need)
        BY <2>2, <3>1, <3>2 DEF Narrow
      <3> QED BY <3>3 DEF Narrow, q
    <2> QED BY <2>1, <2>3 DEF NInv
  <1> QED BY <1>1, <1>2, PTL DEF BridgeSpec

(* A token that the daemon minted is refused with 403 only for its scope,  *)
(* and with 401 only if it is too narrow, has expired or the daemon cannot *)
(* read its table, also after restarts of the bridge.                      *)
THEOREM RefusalHolds == BridgeSpec => []RefusalJustified
  <1>1. ASSUME NInv PROVE RefusalJustified
    <2> SUFFICES ASSUME NEW h \in Handlers, http[h].token \in DOMAIN kv
                 PROVE  /\ Answers(h, {403}) => ~Allows(kv[http[h].token], http[h].need)
                        /\ Answers(h, {401}) => \/ http[h].token \in expired
                                                \/ ~Allows(kv[http[h].token], http[h].need)
                                                \/ http[h].unread
      BY DEF RefusalJustified
    <2>1. Narrow(http[h]) /\ RefusalsTrue(Told(h), http[h], Valid(http[h].token, http[h].need))
      BY <1>1 DEF NInv, BInv, HandlersTrue
    <2> QED BY <2>1 DEF Narrow, RefusalsTrue, Answers, Valid
  <1> QED BY <1>1, NInvHolds, PTL
=============================================================================
