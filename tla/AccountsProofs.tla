--------------------------- MODULE AccountsProofs ---------------------------
(***************************************************************************)
(* Proofs about Accounts, for any users, passwords, requests under way,    *)
(* nested calls and lost connections: what belongs to an account comes     *)
(* with it, client and server agree on whose the connection is, what is    *)
(* saved opens the account, and no registration takes over another.        *)
(***************************************************************************)
EXTENDS Accounts, SequenceTheorems, TLAPS

Probes == {"probe", "look"}
Ops == Probes \cup {"login", "register", "reset", "change", "genres", "logout"}
WithPassword == {"login", "register", "reset", "change"}
Answers == {"ok", "no", "taken"}

Requests ==
  [do : Ops, user : User \cup {Nobody}, pw : Password \cup {Nobody},
   proof : User \cup Password \cup {Nobody}, at : Nat]
Waits ==
  [do : Ops, user : User \cup {Nobody}, pw : Password \cup {Nobody},
   got : Answers \cup {NoAnswer, "late"}]

\* What a request or a call carries.
Fit(r) ==
  /\ r.do \in WithPassword => r.pw \in Password
  /\ r.do \notin Probes => r.user \in User

\* The call whose answer a request will be.
Awaits(c, q) == c.got = NoAnswer /\ c.do = q.do /\ c.user = q.user /\ c.pw = q.pw

\* Requests and calls: a request is for a call that waits for it, unless it is
\* for none any more, and no two are for the same call.
Linked(w, s) ==
  /\ w \in Seq(Requests) /\ s \in Seq(Waits)
  /\ \A i \in DOMAIN w : Fit(w[i])
  /\ \A i \in DOMAIN s : Fit(s[i])
  /\ \A i \in DOMAIN w : w[i].at # 0 => w[i].at \in DOMAIN s /\ Awaits(s[w[i].at], w[i])
  /\ \A i, j \in DOMAIN w : w[i].at = w[j].at /\ w[i].at # 0 => i = j

\* A page submits once at a time.
OneLogin ==
  \A i, j \in DOMAIN stack : stack[i].do = "login" /\ stack[j].do = "login" => i = j

LinkInv == Linked(wire, stack) /\ OneLogin /\ unsure \in BOOLEAN

\* A second INSERT is due only in the middle of a registration, and nothing is
\* under way without a connection.
InRegistration ==
  todo # Nobody => wire # <<>> /\ Head(wire).do = "register" /\ Head(wire).user = todo
NothingWhenDown == ~ up => wire = <<>> /\ unsure = TRUE

\* What a call and its answer say of the accounts.
CallTrue ==
  \A i \in DOMAIN stack :
    /\ stack[i].got = "ok" /\ stack[i].do \in {"login", "register"} =>
         stack[i].user \in Registered
    /\ stack[i].got = "ok" /\ stack[i].do = "login" =>
         spoiled \/ account[stack[i].user] = stack[i].pw
    /\ stack[i].do = "logout" => stack[i].got \in {NoAnswer, "ok", "late"}
    /\ stack[i].got \in Answers /\ stack[i].do = "genres" =>
         stack[i].user \in genres \cup untold \cup Publishers

\* The user the connection belongs to when a sign-in or sign-out has worked.
Outcome(c) == IF c.do = "logout" THEN Nobody ELSE c.user

\* While the client can know whose the connection is: at most one sign-in or
\* sign-out has its answer in hand, and the connection is whose it says or else
\* whose the client takes it for; none that was given up may still be served.
SessionKnown ==
  ~ unsure =>
    /\ \A i, j \in Settled : i = j
    /\ \A i \in Settled : session = Outcome(stack[i])
    /\ Settled = {} => session = current
    /\ \A i \in DOMAIN stack : stack[i].do = "logout" => stack[i].got # "late"
    /\ \A i \in DOMAIN wire : wire[i].do \in SignsInOrOut => wire[i].at # 0

AccountsInv ==
  /\ LinkInv /\ TypeOK /\ outdated \in BOOLEAN /\ spoiled \in BOOLEAN
  /\ InRegistration /\ NothingWhenDown /\ CallTrue /\ SessionKnown
  /\ PublisherHasProfile /\ GenresReachServer /\ SavedOpensAccount

-----------------------------------------------------------------------------
(* The link.                                                               *)

LEMMA LinkedFacts ==
  ASSUME NEW w, NEW s, Linked(w, s)
  PROVE  /\ Len(w) \in Nat /\ DOMAIN w = 1 .. Len(w)
         /\ Len(s) \in Nat /\ DOMAIN s = 1 .. Len(s)
         /\ \A i \in 1 .. Len(w) : w[i] \in Requests /\ Fit(w[i])
         /\ \A i \in 1 .. Len(s) : s[i] \in Waits /\ Fit(s[i])
         /\ w # <<>> => /\ Len(w) >= 1 /\ Head(w) = w[1]
                        /\ Tail(w) \in Seq(Requests) /\ Len(Tail(w)) = Len(w) - 1
                        /\ DOMAIN Tail(w) = 1 .. Len(w) - 1
                        /\ \A i \in 1 .. Len(w) - 1 : Tail(w)[i] = w[i + 1]
         /\ s # <<>> => Len(s) >= 1
<1>1. w \in Seq(Requests) /\ s \in Seq(Waits)
  BY DEF Linked
<1>2. /\ Len(w) \in Nat /\ DOMAIN w = 1 .. Len(w)
      /\ Len(s) \in Nat /\ DOMAIN s = 1 .. Len(s)
      /\ \A i \in 1 .. Len(w) : w[i] \in Requests
      /\ \A i \in 1 .. Len(s) : s[i] \in Waits
  BY <1>1, LenProperties, ElementOfSeq
<1>3. /\ \A i \in 1 .. Len(w) : Fit(w[i])
      /\ \A i \in 1 .. Len(s) : Fit(s[i])
  BY <1>2 DEF Linked
<1>4. ASSUME w # <<>>
      PROVE  /\ Len(w) >= 1 /\ Head(w) = w[1]
             /\ Tail(w) \in Seq(Requests) /\ Len(Tail(w)) = Len(w) - 1
             /\ DOMAIN Tail(w) = 1 .. Len(w) - 1
             /\ \A i \in 1 .. Len(w) - 1 : Tail(w)[i] = w[i + 1]
  <2>1. Len(w) >= 1
    BY <1>1, <1>2, <1>4, EmptySeq
  <2>2. /\ Tail(w) \in Seq(Requests) /\ Len(Tail(w)) = Len(w) - 1
        /\ \A i \in 1 .. Len(w) - 1 : Tail(w)[i] = w[i + 1]
    BY <1>1, <1>4, HeadTailProperties
  <2>3. DOMAIN Tail(w) = 1 .. Len(w) - 1
    BY <2>2, LenProperties
  <2> QED
    BY <2>1, <2>2, <2>3
<1>5. s # <<>> => Len(s) >= 1
  BY <1>1, <1>2, EmptySeq
<1> QED
  BY <1>2, <1>3, <1>4, <1>5

\* A call is made in the event loop of the innermost.
LEMMA LinkedSend ==
  ASSUME NEW w, NEW s, Linked(w, s),
         NEW req \in Requests, Fit(req), req.at = Len(s) + 1,
         NEW c, c = Wait(req.do, req.user, req.pw)
  PROVE  /\ Linked(Append(w, req), Append(s, c))
         /\ DOMAIN Append(w, req) = 1 .. Len(w) + 1
         /\ DOMAIN Append(s, c) = 1 .. Len(s) + 1
         /\ Len(Append(w, req)) = Len(w) + 1 /\ Len(Append(s, c)) = Len(s) + 1
         /\ \A i \in 1 .. Len(w) : Append(w, req)[i] = w[i]
         /\ \A i \in 1 .. Len(s) : Append(s, c)[i] = s[i]
         /\ Append(w, req)[Len(w) + 1] = req /\ Append(s, c)[Len(s) + 1] = c
         /\ c \in Waits /\ c.got = NoAnswer /\ c.do = req.do /\ c.user = req.user
<1> DEFINE w2 == Append(w, req)
           s2 == Append(s, c)
<1>1. /\ w \in Seq(Requests) /\ Len(w) \in Nat /\ DOMAIN w = 1 .. Len(w)
      /\ s \in Seq(Waits) /\ Len(s) \in Nat /\ DOMAIN s = 1 .. Len(s)
      /\ \A i \in 1 .. Len(w) : w[i] \in Requests
  BY LinkedFacts DEF Linked
<1>2. /\ c \in Waits /\ Fit(c) /\ Awaits(c, req)
  BY DEF Wait, Waits, Fit, Awaits, Requests, NoAnswer
<1>3. /\ w2 \in Seq(Requests) /\ Len(w2) = Len(w) + 1 /\ DOMAIN w2 = 1 .. Len(w) + 1
      /\ w2[Len(w) + 1] = req /\ \A i \in 1 .. Len(w) : w2[i] = w[i]
  BY <1>1, AppendProperties, LenProperties
<1>4. /\ s2 \in Seq(Waits) /\ Len(s2) = Len(s) + 1 /\ DOMAIN s2 = 1 .. Len(s) + 1
      /\ s2[Len(s) + 1] = c /\ \A i \in 1 .. Len(s) : s2[i] = s[i]
  BY <1>1, <1>2, AppendProperties, LenProperties
<1> HIDE DEF w2, s2
<1>5. \A i \in DOMAIN w2 : Fit(w2[i])
  BY <1>1, <1>3, LinkedFacts
<1>6. \A i \in DOMAIN s2 : Fit(s2[i])
  BY <1>1, <1>2, <1>4, LinkedFacts
<1>7. ASSUME NEW i \in DOMAIN w2, w2[i].at # 0
      PROVE  w2[i].at \in DOMAIN s2 /\ Awaits(s2[w2[i].at], w2[i])
  <2>1. CASE i = Len(w) + 1
    BY <1>1, <1>2, <1>3, <1>4, <2>1
  <2>2. CASE i # Len(w) + 1
    <3>1. i \in DOMAIN w /\ w2[i] = w[i]
      BY <1>1, <1>3, <2>2
    <3>2. w[i].at \in DOMAIN s /\ Awaits(s[w[i].at], w[i])
      BY <1>7, <3>1 DEF Linked
    <3> QED
      BY <1>1, <1>4, <3>1, <3>2
  <2> QED
    BY <2>1, <2>2
<1>8. ASSUME NEW i \in DOMAIN w2, NEW j \in DOMAIN w2, w2[i].at = w2[j].at, w2[i].at # 0
      PROVE  i = j
  <2>1. \A k \in DOMAIN w : w[k].at # 0 => w[k].at \in 1 .. Len(s)
    BY <1>1 DEF Linked
  <2>2. \A k \in 1 .. Len(w) : w2[k].at # Len(s) + 1
    BY <1>1, <1>3, <2>1
  <2>3. CASE i \in 1 .. Len(w) /\ j \in 1 .. Len(w)
    BY <1>1, <1>3, <1>8, <2>3 DEF Linked
  <2> QED
    BY <1>1, <1>3, <1>8, <2>2, <2>3
<1>9. Linked(w2, s2)
  BY <1>3, <1>4, <1>5, <1>6, <1>7, <1>8 DEF Linked
<1> QED
  BY <1>2, <1>3, <1>4, <1>9 DEF Awaits, w2, s2

\* The innermost call, with its answer or without, returns.
LEMMA LinkedReturn ==
  ASSUME NEW w, NEW s, Linked(w, s), s # <<>>, s[Len(s)].got # NoAnswer,
         NEW t, t = [i \in 1 .. Len(s) - 1 |-> s[i]]
  PROVE  /\ Linked(w, t) /\ Len(t) = Len(s) - 1
         /\ DOMAIN t = 1 .. Len(s) - 1 /\ \A i \in DOMAIN t : t[i] = s[i]
<1>1. /\ Len(s) \in Nat /\ DOMAIN s = 1 .. Len(s) /\ Len(s) >= 1
      /\ \A i \in 1 .. Len(s) : s[i] \in Waits
  BY LinkedFacts
<1>2. /\ t \in Seq(Waits) /\ DOMAIN t = 1 .. Len(s) - 1 /\ Len(t) = Len(s) - 1
      /\ \A i \in DOMAIN t : t[i] = s[i]
  <2>1. t \in [1 .. Len(s) - 1 -> Waits] /\ Len(s) - 1 \in Nat
    BY <1>1
  <2> QED
    BY <2>1
<1>3. ASSUME NEW i \in DOMAIN w, w[i].at # 0
      PROVE  w[i].at \in DOMAIN t /\ Awaits(t[w[i].at], w[i])
  <2>1. w[i].at \in DOMAIN s /\ Awaits(s[w[i].at], w[i])
    BY <1>3 DEF Linked
  <2>2. w[i].at # Len(s)
    BY <2>1 DEF Awaits
  <2> QED
    BY <1>1, <1>2, <2>1, <2>2
<1>4. \A i \in DOMAIN t : Fit(t[i])
  BY <1>1, <1>2 DEF Linked
<1>5. /\ w \in Seq(Requests) /\ \A i \in DOMAIN w : Fit(w[i])
      /\ \A i, j \in DOMAIN w : w[i].at = w[j].at /\ w[i].at # 0 => i = j
  BY DEF Linked
<1>6. Linked(w, t)
  BY <1>2, <1>3, <1>4, <1>5 DEF Linked
<1> QED
  BY <1>2, <1>6

\* The server answers the first request.
LEMMA LinkedAnswer ==
  ASSUME NEW w, NEW s, Linked(w, s), w # <<>>, NEW a \in Answers,
         NEW t, t = IF Head(w).at = 0 THEN s ELSE [s EXCEPT ![Head(w).at].got = a]
  PROVE  /\ Linked(Tail(w), t) /\ DOMAIN t = DOMAIN s /\ Len(t) = Len(s)
         /\ \A i \in DOMAIN s : t[i].do = s[i].do /\ t[i].user = s[i].user
                                /\ t[i].pw = s[i].pw
         /\ \A i \in DOMAIN s : i # Head(w).at => t[i] = s[i]
         /\ Head(w).at # 0 => /\ Head(w).at \in DOMAIN s
                              /\ Awaits(s[Head(w).at], Head(w)) /\ t[Head(w).at].got = a
<1> DEFINE q == Head(w)
           v == Tail(w)
<1>1. /\ q = w[1] /\ q \in Requests /\ Len(w) \in Nat /\ Len(w) >= 1
      /\ DOMAIN w = 1 .. Len(w) /\ v \in Seq(Requests) /\ DOMAIN v = 1 .. Len(w) - 1
      /\ \A i \in 1 .. Len(w) - 1 : v[i] = w[i + 1]
      /\ Len(s) \in Nat /\ DOMAIN s = 1 .. Len(s) /\ s \in Seq(Waits)
      /\ \A i \in 1 .. Len(s) : s[i] \in Waits
  BY LinkedFacts DEF Linked
<1>2. q.at # 0 => q.at \in DOMAIN s /\ Awaits(s[q.at], q)
  BY <1>1 DEF Linked
<1> HIDE DEF q, v
<1>3. t = IF q.at = 0 THEN s ELSE [s EXCEPT ![q.at].got = a]
  BY DEF q
<1>4. \A c \in Waits : LET d == [c EXCEPT !.got = a]
                       IN d \in Waits /\ d.got = a /\ d.do = c.do /\ d.user = c.user
                          /\ d.pw = c.pw
  BY DEF Waits
<1>5. /\ DOMAIN t = 1 .. Len(s)
      /\ \A i \in 1 .. Len(s) : t[i] = IF q.at # 0 /\ i = q.at
                                       THEN [s[i] EXCEPT !.got = a] ELSE s[i]
  BY <1>1, <1>2, <1>3
<1>6. /\ \A i \in 1 .. Len(s) : /\ t[i] \in Waits /\ t[i].do = s[i].do
                                /\ t[i].user = s[i].user /\ t[i].pw = s[i].pw
                                /\ i # q.at => t[i] = s[i]
      /\ q.at # 0 => t[q.at].got = a
  BY <1>1, <1>2, <1>4, <1>5
<1>7. t \in Seq(Waits) /\ Len(t) = Len(s)
  <2>1. t \in [1 .. Len(s) -> Waits]
    <3>1. CASE q.at = 0
      BY <1>1, <1>3, <3>1
    <3>2. CASE q.at # 0
      BY <1>1, <1>2, <1>3, <1>4, <3>2
    <3> QED
      BY <3>1, <3>2
  <2> QED
    BY <1>1, <2>1
<1>8. \A i \in DOMAIN v : Fit(v[i])
  <2>1. \A i \in 1 .. Len(w) : Fit(w[i])
    BY LinkedFacts
  <2>2. \A i \in DOMAIN v : v[i] = w[i + 1] /\ i + 1 \in 1 .. Len(w)
    BY <1>1
  <2> QED
    BY <2>1, <2>2
<1>9. \A i \in DOMAIN t : Fit(t[i])
  BY <1>5, <1>6, LinkedFacts DEF Fit
<1>10. ASSUME NEW i \in DOMAIN v, v[i].at # 0
       PROVE  v[i].at \in DOMAIN t /\ Awaits(t[v[i].at], v[i])
  <2>1. i + 1 \in DOMAIN w /\ v[i] = w[i + 1] /\ i + 1 # 1
    BY <1>1
  <2>2. w[i + 1].at \in DOMAIN s /\ Awaits(s[w[i + 1].at], w[i + 1])
    BY <1>10, <2>1 DEF Linked
  <2>3. w[i + 1].at # q.at
    BY <1>1, <1>10, <2>1 DEF Linked
  <2> QED
    BY <1>1, <1>5, <1>6, <2>1, <2>2, <2>3
<1>11. \A i, j \in DOMAIN v : v[i].at = v[j].at /\ v[i].at # 0 => i = j
  <2> SUFFICES ASSUME NEW i \in DOMAIN v, NEW j \in DOMAIN v, v[i].at = v[j].at, v[i].at # 0
               PROVE  i = j
    OBVIOUS
  <2>1. i + 1 \in DOMAIN w /\ v[i] = w[i + 1] /\ j + 1 \in DOMAIN w /\ v[j] = w[j + 1]
    BY <1>1
  <2>2. i + 1 = j + 1
    BY <2>1 DEF Linked
  <2> QED
    BY <1>1, <2>2
<1>12. Linked(v, t)
  BY <1>1, <1>7, <1>8, <1>9, <1>10, <1>11 DEF Linked
<1> QED
  BY <1>1, <1>2, <1>5, <1>6, <1>7, <1>12 DEF q, v

\* A call gives up.
NobodysFor(w, i) ==
  [k \in DOMAIN w |-> IF w[k].at = i THEN [w[k] EXCEPT !.at = 0] ELSE w[k]]
Late(s, i) == [s EXCEPT ![i].got = "late"]

LEMMA LinkedGiveUp ==
  ASSUME NEW w, NEW s, Linked(w, s), NEW i \in DOMAIN s, s[i].got = NoAnswer,
         NEW v, v = NobodysFor(w, i), NEW t, t = Late(s, i)
  PROVE  /\ Linked(v, t) /\ Len(v) = Len(w) /\ Len(t) = Len(s)
         /\ DOMAIN v = DOMAIN w /\ DOMAIN t = DOMAIN s
         /\ \A k \in DOMAIN w : v[k].do = w[k].do /\ v[k].user = w[k].user
         /\ \A k \in DOMAIN w : v[k].at # w[k].at => w[k].do = s[i].do
         /\ \A k \in DOMAIN s : t[k].do = s[k].do /\ (k # i => t[k] = s[k])
         /\ t[i].got = "late"
<1>1. /\ Len(w) \in Nat /\ DOMAIN w = 1 .. Len(w)
      /\ Len(s) \in Nat /\ DOMAIN s = 1 .. Len(s)
      /\ \A k \in 1 .. Len(w) : w[k] \in Requests
      /\ \A k \in 1 .. Len(s) : s[k] \in Waits
  BY LinkedFacts
<1>2. \A r \in Requests : LET d == [r EXCEPT !.at = 0]
                          IN d \in Requests /\ d.at = 0 /\ d.do = r.do /\ d.user = r.user
                             /\ d.pw = r.pw
  BY DEF Requests
<1>3. \A c \in Waits : LET d == [c EXCEPT !.got = "late"]
                       IN d \in Waits /\ d.got = "late" /\ d.do = c.do /\ d.user = c.user
                          /\ d.pw = c.pw
  BY DEF Waits
<1>4. /\ DOMAIN v = 1 .. Len(w)
      /\ \A k \in 1 .. Len(w) : /\ v[k] \in Requests /\ v[k].do = w[k].do
                                /\ v[k].user = w[k].user /\ v[k].pw = w[k].pw
                                /\ w[k].at = i => v[k].at = 0
                                /\ w[k].at # i => v[k] = w[k]
  BY <1>1, <1>2 DEF NobodysFor
<1>5. /\ DOMAIN t = 1 .. Len(s)
      /\ \A k \in 1 .. Len(s) : /\ t[k] \in Waits /\ t[k].do = s[k].do
                                /\ t[k].user = s[k].user /\ t[k].pw = s[k].pw
                                /\ k # i => t[k] = s[k]
      /\ t[i].got = "late"
  BY <1>1, <1>3 DEF Late
<1>6. v \in Seq(Requests) /\ Len(v) = Len(w)
  <2>1. v \in [1 .. Len(w) -> Requests]
    BY <1>1, <1>4 DEF NobodysFor
  <2> QED
    BY <1>1, <2>1
<1>7. t \in Seq(Waits) /\ Len(t) = Len(s)
  <2>1. t \in [1 .. Len(s) -> Waits]
    BY <1>1, <1>5 DEF Late
  <2> QED
    BY <1>1, <2>1
<1>8. /\ \A k \in DOMAIN v : Fit(v[k])
      /\ \A k \in DOMAIN t : Fit(t[k])
  BY <1>4, <1>5, LinkedFacts DEF Fit
<1>9. ASSUME NEW k \in DOMAIN v, v[k].at # 0
      PROVE  v[k].at \in DOMAIN t /\ Awaits(t[v[k].at], v[k])
  <2>1. w[k].at # i /\ v[k] = w[k]
    BY <1>4, <1>9
  <2>2. w[k].at \in DOMAIN s /\ Awaits(s[w[k].at], w[k])
    BY <1>1, <1>4, <1>9, <2>1 DEF Linked
  <2> QED
    BY <1>1, <1>5, <2>1, <2>2
<1>10. \A k, j \in DOMAIN v : v[k].at = v[j].at /\ v[k].at # 0 => k = j
  BY <1>1, <1>4 DEF Linked
<1>11. \A k \in DOMAIN w : v[k].at # w[k].at => w[k].do = s[i].do
  <2> SUFFICES ASSUME NEW k \in DOMAIN w, w[k].at = i PROVE w[k].do = s[i].do
    BY <1>1, <1>4
  <2>1. i # 0
    BY <1>1
  <2> QED
    BY <2>1 DEF Linked, Awaits
<1> QED
  BY <1>1, <1>4, <1>5, <1>6, <1>7, <1>8, <1>9, <1>10, <1>11 DEF Linked

\* With the connection go the requests, and every call that waits gives up.
LEMMA LinkedLose ==
  ASSUME NEW w, NEW s, Linked(w, s),
         NEW t, t = [i \in DOMAIN s |-> IF s[i].got = NoAnswer
                                        THEN [s[i] EXCEPT !.got = "late"] ELSE s[i]]
  PROVE  /\ Linked(<<>>, t) /\ Len(t) = Len(s) /\ DOMAIN t = DOMAIN s
         /\ \A i \in DOMAIN s : /\ t[i].do = s[i].do
                                /\ s[i].got # NoAnswer => t[i] = s[i]
                                /\ s[i].got = NoAnswer => t[i].got = "late"
<1>1. /\ Len(s) \in Nat /\ DOMAIN s = 1 .. Len(s)
      /\ \A k \in 1 .. Len(s) : s[k] \in Waits
  BY LinkedFacts
<1>2. \A c \in Waits : LET d == [c EXCEPT !.got = "late"]
                       IN d \in Waits /\ d.got = "late" /\ d.do = c.do /\ d.user = c.user
                          /\ d.pw = c.pw
  BY DEF Waits
<1>3. /\ DOMAIN t = 1 .. Len(s)
      /\ \A k \in 1 .. Len(s) : /\ t[k] \in Waits /\ t[k].do = s[k].do
                                /\ t[k].user = s[k].user /\ t[k].pw = s[k].pw
                                /\ s[k].got # NoAnswer => t[k] = s[k]
                                /\ s[k].got = NoAnswer => t[k].got = "late"
  BY <1>1, <1>2
<1>4. t \in Seq(Waits) /\ Len(t) = Len(s)
  <2>1. t \in [1 .. Len(s) -> Waits]
    BY <1>1, <1>3
  <2> QED
    BY <1>1, <2>1
<1>5. \A k \in DOMAIN t : Fit(t[k])
  BY <1>3, LinkedFacts DEF Fit
<1>6. <<>> \in Seq(Requests) /\ DOMAIN <<>> = {}
  OBVIOUS
<1> QED
  BY <1>1, <1>3, <1>4, <1>5, <1>6 DEF Linked

-----------------------------------------------------------------------------
(* The rows, and what is saved.                                            *)

Rows == [User -> Password \cup {Nobody}]

LEMMA RowFacts ==
  ASSUME TypeOK
  PROVE  /\ account \in Rows /\ Registered \subseteq User
         /\ session # Nobody => session \in Registered
         /\ todo # Nobody => todo \in Registered
         /\ current # Nobody => current \in Registered
         /\ Nobody \notin Registered
BY AccountsAssumption DEF TypeOK, Registered, Rows

\* A password is written for a user.
LEMMA WriteRow ==
  ASSUME TypeOK, NEW u \in User, NEW p \in Password, account' = [account EXCEPT ![u] = p]
  PROVE  /\ account' \in Rows /\ Registered' = Registered \cup {u}
         /\ \A v \in User \ {u} : account'[v] = account[v]
BY RowFacts, AccountsAssumption DEF Rows, Registered

\* What is saved goes on opening its account while neither is written and the
\* answers of resets stay in hand.
LEMMA SavedKept ==
  ASSUME SavedOpensAccount,
         saved' # Nothing => saved' = saved, outdated => outdated',
         saved' # Nothing /\ saved'.user \in Registered =>
           saved'.user \in Registered' /\ account'[saved'.user] = account[saved'.user],
         \A i \in DOMAIN stack : stack[i].do = "reset" /\ stack[i].got = "ok" =>
           i \in DOMAIN stack' /\ stack'[i] = stack[i]
  PROVE  SavedOpensAccount'
<1> SUFFICES ASSUME saved' # Nothing, ~ outdated'
             PROVE  SavedOpensAccount'
  BY DEF SavedOpensAccount
<1>1. CASE \E i \in DOMAIN stack :
             stack[i].do = "reset" /\ stack[i].got = "ok" /\ stack[i].user = saved.user
  BY <1>1 DEF SavedOpensAccount
<1>2. CASE saved.user \in Registered /\ account[saved.user] = saved.pw
  BY <1>2 DEF SavedOpensAccount
<1> QED
  BY <1>1, <1>2 DEF SavedOpensAccount

-----------------------------------------------------------------------------
(* What the user does.                                                     *)

\* A call is made on what is under it: s is the calls it finds there, all of
\* them or all but a probe that has its answer.
LEMMA SendKeeps ==
  ASSUME AccountsInv, NEW s, Linked(wire, s),
         DOMAIN s \subseteq DOMAIN stack, \A i \in DOMAIN s : s[i] = stack[i],
         \A i \in DOMAIN stack \ DOMAIN s : stack[i].do = "probe",
         NEW do \in Ops, NEW u \in User \cup {Nobody}, NEW p \in Password \cup {Nobody},
         NEW f \in User \cup Password \cup {Nobody},
         do \in WithPassword => p \in Password, do \notin Probes => u \in User,
         do = "login" => ~ Waiting({"login"}),
         calls' \in 0 .. MaxCalls, SendOn(s, do, u, p, f)
  PROVE  AccountsInv'
<1> USE DEF database, server, signedIn, history, others
<1> DEFINE req == Request(do, u, p, f, Len(s) + 1)
           c == Wait(do, u, p)
<1>1. /\ up /\ Len(wire) < MaxWire /\ Len(s) < MaxDepth
      /\ wire' = Append(wire, req) /\ stack' = Append(s, c)
      /\ UNCHANGED <<account, profile, genres, session, todo, up, saved, current, recovery>>
      /\ UNCHANGED <<faults, unsure, outdated, spoiled, promised, untold, torn>>
  BY DEF SendOn
<1>2. Len(wire) \in Nat /\ DOMAIN wire = 1 .. Len(wire) /\ Len(s) \in Nat
      /\ DOMAIN s = 1 .. Len(s)
      /\ (wire # <<>> => Len(wire) >= 1 /\ Head(wire) = wire[1])
  BY LinkedFacts DEF AccountsInv, LinkInv
<1>3. /\ req \in Requests /\ Fit(req) /\ req.at = Len(s) + 1 /\ req.do = do
      /\ req.user = u /\ req.pw = p /\ c = Wait(req.do, req.user, req.pw)
  BY <1>2 DEF Request, Requests, Fit
<1> HIDE DEF req, c
<1>4. /\ Linked(wire', stack')
      /\ DOMAIN wire' = 1 .. Len(wire) + 1 /\ DOMAIN stack' = 1 .. Len(s) + 1
      /\ Len(wire') = Len(wire) + 1 /\ Len(stack') = Len(s) + 1
      /\ \A i \in 1 .. Len(wire) : wire'[i] = wire[i]
      /\ \A i \in 1 .. Len(s) : stack'[i] = s[i]
      /\ wire'[Len(wire) + 1] = req /\ stack'[Len(s) + 1] = c
      /\ c.got = NoAnswer /\ c.do = do
  BY <1>1, <1>3, LinkedSend
<1>5. \A i \in DOMAIN s : stack'[i] = stack[i] /\ i \in DOMAIN stack'
  BY <1>2, <1>4
<1>6. \A i \in DOMAIN stack' : i \in DOMAIN s \/ (i = Len(s) + 1 /\ stack'[i] = c)
  BY <1>2, <1>4
<1>7. Registered' = Registered
  BY <1>1 DEF Registered
<1>8. Settled' = Settled
  <2>1. \A i \in DOMAIN stack : i \in DOMAIN s \/ stack[i].do = "probe"
    OBVIOUS
  <2>2. c.got # "ok"
    BY <1>4 DEF NoAnswer
  <2> QED
    BY <1>5, <1>6, <2>1, <2>2 DEF Settled, SignsInOrOut
<1>9. LinkInv'
  <2>1. OneLogin'
    BY <1>4, <1>5, <1>6 DEF AccountsInv, LinkInv, OneLogin, Waiting
  <2> QED
    BY <1>1, <1>4, <2>1 DEF AccountsInv, LinkInv
<1>10. TypeOK'
  BY <1>1, <1>2, <1>4, <1>7, AccountsAssumption DEF AccountsInv, TypeOK
<1>11. InRegistration'
  <2>1. wire # <<>> => wire' # <<>> /\ Head(wire') = Head(wire)
    BY <1>2, <1>4, LinkedFacts
  <2> QED
    BY <1>1, <2>1 DEF AccountsInv, InRegistration
<1>12. NothingWhenDown'
  BY <1>1 DEF NothingWhenDown
<1>13. CallTrue'
  <2>1. NoAnswer \notin Answers /\ NoAnswer # "ok"
    BY DEF NoAnswer, Answers
  <2> QED
    BY <1>1, <1>4, <1>5, <1>6, <1>7, <2>1 DEF AccountsInv, CallTrue
<1>14. SessionKnown'
  <2> SUFFICES ASSUME ~ unsure PROVE SessionKnown'
    BY <1>1 DEF SessionKnown
  <2>1. \A i \in Settled : i \in DOMAIN s
    BY DEF Settled, SignsInOrOut
  <2>2. NoAnswer # "late"
    BY DEF NoAnswer
  <2>3. \A i \in DOMAIN stack' : stack'[i].do = "logout" => stack'[i].got # "late"
    BY <1>4, <1>5, <1>6, <2>2 DEF AccountsInv, SessionKnown
  <2>4. \A i \in DOMAIN wire' : wire'[i].do \in SignsInOrOut => wire'[i].at # 0
    BY <1>2, <1>3, <1>4 DEF AccountsInv, SessionKnown
  <2>5. \A i \in Settled : session = Outcome(stack'[i])
    BY <1>5, <2>1 DEF AccountsInv, SessionKnown
  <2> QED
    BY <1>1, <1>8, <2>3, <2>4, <2>5 DEF AccountsInv, SessionKnown
<1>15. PublisherHasProfile' /\ GenresReachServer'
  BY <1>1, <1>7 DEF AccountsInv, PublisherHasProfile, GenresReachServer
<1>16. SavedOpensAccount'
  <2>1. \A i \in DOMAIN stack : stack[i].do = "reset" => i \in DOMAIN s
    OBVIOUS
  <2> QED
    BY <1>1, <1>5, <1>7, <2>1, SavedKept DEF AccountsInv
<1> QED
  BY <1>1, <1>9, <1>10, <1>11, <1>12, <1>13, <1>14, <1>15, <1>16 DEF AccountsInv

LEMMA Sends ==
  ASSUME AccountsInv,
         \/ Login \/ Register \/ ValidateUsername \/ ResetPassword \/ ChangePassword
         \/ SaveGenreSelection \/ Logout
  PROVE  AccountsInv'
<1>1. current # Nobody => current \in User
  BY RowFacts DEF AccountsInv
<1>2. recovery # Nothing => recovery.user \in User /\ recovery.answer \in User
  BY DEF AccountsInv, TypeOK
<1>3. PICK do \in Ops, u \in User \cup {Nobody}, p \in Password \cup {Nobody},
           f \in User \cup Password \cup {Nobody} :
        /\ do \in WithPassword => p \in Password
        /\ do \notin Probes => u \in User
        /\ do = "login" => ~ Waiting({"login"})
        /\ Send(do, u, p, f)
  <2>1. CASE Login
    BY <2>1 DEF Login, Typed, Ops, Probes
  <2>2. CASE Register \/ ValidateUsername
    BY <2>2 DEF Register, ValidateUsername, Ops, Probes, WithPassword
  <2>3. CASE ResetPassword
    BY <1>2, <2>3 DEF ResetPassword, Ops, Probes
  <2>4. CASE ChangePassword
    BY <1>1, <2>4 DEF ChangePassword, Ops, Probes
  <2>5. CASE SaveGenreSelection \/ Logout
    BY <1>1, <2>5 DEF SaveGenreSelection, Logout, Ops, Probes, WithPassword
  <2> QED
    BY <2>1, <2>2, <2>3, <2>4, <2>5
<1>4. calls' \in 0 .. MaxCalls /\ SendOn(stack, do, u, p, f)
  BY <1>3, AccountsAssumption DEF Send, AccountsInv, TypeOK
<1>5. Linked(wire, stack)
  BY DEF AccountsInv, LinkInv
<1> QED
  BY <1>3, <1>4, <1>5, SendKeeps

LEMMA PagesKeep ==
  ASSUME AccountsInv,
         \/ SetRememberMe \/ \E u, a \in User : StashSecurityAnswer(u, a)
         \/ SaveGenresOffline \/ LogoutOffline
  PROVE  AccountsInv'
<1> USE DEF database, server, signedIn, history, others, counted
<1>1. /\ UNCHANGED <<account, profile, genres, session, todo, wire, up, stack, calls, faults>>
      /\ UNCHANGED <<unsure, outdated, spoiled, torn>>
      /\ saved' \in {saved, Nothing}
  BY DEF SetRememberMe, StashSecurityAnswer, SaveGenresOffline, LogoutOffline
<1>2. current' = current \/ (current' = Nobody /\ ~ up)
  BY DEF SetRememberMe, StashSecurityAnswer, SaveGenresOffline, LogoutOffline
<1>3. recovery' = recovery \/ recovery' \in [user : User, answer : User]
  BY DEF SetRememberMe, StashSecurityAnswer, SaveGenresOffline, LogoutOffline
<1>4. \E S : promised' = promised \cup S /\ untold' = untold \cup S
  <2>1. UNCHANGED <<promised, untold>> \/ SaveGenresOffline
    BY DEF SetRememberMe, StashSecurityAnswer, LogoutOffline
  <2>2. UNCHANGED <<promised, untold>> =>
          promised' = promised \cup {} /\ untold' = untold \cup {}
    OBVIOUS
  <2> QED
    BY <2>1, <2>2 DEF SaveGenresOffline
<1>5. LinkInv' /\ Settled' = Settled /\ Registered' = Registered
  BY <1>1 DEF AccountsInv, LinkInv, OneLogin, Settled, Registered
<1>6. TypeOK' /\ outdated' \in BOOLEAN /\ spoiled' \in BOOLEAN
  BY <1>1, <1>2, <1>3, <1>5 DEF AccountsInv, TypeOK
<1>7. InRegistration' /\ NothingWhenDown'
  BY <1>1 DEF AccountsInv, InRegistration, NothingWhenDown
<1>8. CallTrue'
  BY <1>1, <1>4, <1>5 DEF AccountsInv, CallTrue
<1>9. SessionKnown'
  <2> SUFFICES ASSUME ~ unsure PROVE SessionKnown'
    BY <1>1 DEF SessionKnown
  <2>1. current' = current
    BY <1>2 DEF AccountsInv, NothingWhenDown
  <2> QED
    BY <1>1, <1>5, <2>1 DEF AccountsInv, SessionKnown
<1>10. PublisherHasProfile' /\ GenresReachServer'
  BY <1>1, <1>4, <1>5 DEF AccountsInv, PublisherHasProfile, GenresReachServer
<1>11. SavedOpensAccount'
  BY <1>1, <1>5, SavedKept DEF AccountsInv
<1> QED
  BY <1>5, <1>6, <1>7, <1>8, <1>9, <1>10, <1>11 DEF AccountsInv

-----------------------------------------------------------------------------
(* The server.                                                             *)

\* What answering the first request does to the requests and the calls.
LEMMA AnswerFacts ==
  ASSUME AccountsInv, wire # <<>>, NEW a \in Answers, Answer(a)
  PROVE  /\ LinkInv' /\ unsure' \in BOOLEAN /\ Len(wire') <= MaxWire
         /\ Len(stack') = Len(stack) /\ DOMAIN stack' = DOMAIN stack
         /\ \A i \in DOMAIN stack :
              /\ stack'[i].do = stack[i].do /\ stack'[i].user = stack[i].user
              /\ stack'[i].pw = stack[i].pw
              /\ i # Head(wire).at => stack'[i] = stack[i]
              /\ i = Head(wire).at => stack'[i].got = a
         /\ Head(wire).at # 0 => /\ Head(wire).at \in DOMAIN stack
                                 /\ Awaits(stack[Head(wire).at], Head(wire))
         /\ \A i \in DOMAIN wire' : i + 1 \in DOMAIN wire /\ i + 1 >= 2
                                    /\ wire'[i] = wire[i + 1]
         /\ Head(wire) \in Requests /\ Fit(Head(wire)) /\ up
<1>1. Linked(wire, stack)
  BY DEF AccountsInv, LinkInv
<1>2. /\ wire' = Tail(wire)
      /\ stack' = IF Head(wire).at = 0 THEN stack
                  ELSE [stack EXCEPT ![Head(wire).at].got = a]
  BY DEF Answer
<1>3. /\ Linked(wire', stack') /\ DOMAIN stack' = DOMAIN stack /\ Len(stack') = Len(stack)
      /\ \A i \in DOMAIN stack :
           /\ stack'[i].do = stack[i].do /\ stack'[i].user = stack[i].user
           /\ stack'[i].pw = stack[i].pw
           /\ i # Head(wire).at => stack'[i] = stack[i]
      /\ Head(wire).at # 0 => /\ Head(wire).at \in DOMAIN stack
                              /\ Awaits(stack[Head(wire).at], Head(wire))
                              /\ stack'[Head(wire).at].got = a
  BY <1>1, <1>2, LinkedAnswer
<1>4. /\ Len(wire) \in Nat /\ DOMAIN wire = 1 .. Len(wire) /\ DOMAIN stack = 1 .. Len(stack)
      /\ Len(wire) >= 1 /\ Head(wire) = wire[1] /\ wire[1] \in Requests /\ Fit(wire[1])
      /\ Len(wire') = Len(wire) - 1 /\ DOMAIN wire' = 1 .. Len(wire) - 1
      /\ \A i \in 1 .. Len(wire) - 1 : wire'[i] = wire[i + 1]
  BY <1>1, <1>2, LinkedFacts
<1>5. Len(wire') <= MaxWire
  BY <1>4, AccountsAssumption DEF AccountsInv, TypeOK
<1>6. unsure' \in BOOLEAN
  BY DEF Answer, AccountsInv, LinkInv
<1>7. OneLogin'
  BY <1>3 DEF AccountsInv, LinkInv, OneLogin
<1>8. up
  BY DEF AccountsInv, NothingWhenDown, TypeOK
<1>9. \A i \in DOMAIN wire' : i + 1 \in DOMAIN wire /\ i + 1 >= 2 /\ wire'[i] = wire[i + 1]
  BY <1>4
<1>10. \A i \in DOMAIN stack : i = Head(wire).at => stack'[i].got = a
  BY <1>3, <1>4
<1> QED
  BY <1>3, <1>4, <1>5, <1>6, <1>7, <1>8, <1>9, <1>10 DEF LinkInv

\* The client goes on knowing whose the connection is, or knows that it does not.
LEMMA AnswerKnown ==
  ASSUME AccountsInv, wire # <<>>, NEW a \in Answers, Answer(a), UNCHANGED current,
         Head(wire).do \in SignsInOrOut /\ a = "ok" => session' = Outcome(Head(wire)),
         Head(wire).do \notin SignsInOrOut \/ a # "ok" => session' = session
  PROVE  SessionKnown'
<1> DEFINE q == Head(wire)
           signs == q.at # 0 /\ q.do \in SignsInOrOut /\ a = "ok"
<1>1. /\ DOMAIN stack' = DOMAIN stack
      /\ \A i \in DOMAIN stack :
           /\ stack'[i].do = stack[i].do /\ stack'[i].user = stack[i].user
           /\ i # q.at => stack'[i] = stack[i]
           /\ i = q.at => stack'[i].got = a
      /\ q.at # 0 => q.at \in DOMAIN stack /\ Awaits(stack[q.at], q)
      /\ \A i \in DOMAIN wire' : i + 1 \in DOMAIN wire /\ i + 1 >= 2
                                 /\ wire'[i] = wire[i + 1]
  BY AnswerFacts
<1>2. unsure' = IF signs THEN Settled # {} \/ (unsure /\ Overlapped) ELSE unsure
  BY DEF Answer
<1>3. a # NoAnswer /\ a # "late" /\ NoAnswer # "ok"
  BY DEF Answers, NoAnswer
<1>4. Head(wire) = wire[1] /\ 1 \in DOMAIN wire /\ Len(wire) \in Nat
      /\ DOMAIN wire = 1 .. Len(wire)
  BY LinkedFacts DEF AccountsInv, LinkInv
<1>5. q.at # 0 => q.at \notin Settled
  BY <1>1, <1>3 DEF Settled, Awaits
<1> SUFFICES ASSUME ~ unsure' PROVE SessionKnown'
  BY DEF SessionKnown
<1>6. CASE signs
  <2>1. Settled = {} /\ (~ unsure \/ ~ Overlapped)
    BY <1>2, <1>6
  <2>2. Settled' = {q.at}
    <3>1. q.at \in Settled'
      BY <1>1, <1>6 DEF Settled, Awaits
    <3>2. \A i \in Settled' : i = q.at
      BY <1>1, <2>1 DEF Settled
    <3> QED
      BY <3>1, <3>2
  <2>3. session' = Outcome(stack'[q.at])
    BY <1>1, <1>6 DEF Outcome, Awaits
  <2>4. \A i \in DOMAIN stack' : stack'[i].do = "logout" => stack'[i].got # "late"
    <3> SUFFICES ASSUME NEW i \in DOMAIN stack, i # q.at, stack[i].do = "logout"
                 PROVE  stack[i].got # "late"
      BY <1>1, <1>3
    <3>1. CASE ~ unsure
      BY <3>1 DEF AccountsInv, SessionKnown
    <3>2. CASE ~ Overlapped
      BY <3>2 DEF Overlapped, SignsInOrOut
    <3> QED
      BY <2>1, <3>1, <3>2
  <2>5. \A i \in DOMAIN wire' : wire'[i].do \in SignsInOrOut => wire'[i].at # 0
    <3> SUFFICES ASSUME NEW i \in DOMAIN wire', wire[i + 1].do \in SignsInOrOut
                 PROVE  wire[i + 1].at # 0
      BY <1>1
    <3>1. i + 1 \in DOMAIN wire /\ i + 1 \in 2 .. Len(wire)
      BY <1>1, <1>4
    <3>2. CASE ~ unsure
      BY <3>1, <3>2 DEF AccountsInv, SessionKnown
    <3>3. CASE ~ Overlapped
      BY <3>1, <3>3 DEF Overlapped
    <3> QED
      BY <2>1, <3>2, <3>3
  <2> QED
    BY <2>2, <2>3, <2>4, <2>5 DEF SessionKnown
<1>7. CASE ~ signs
  <2>1. ~ unsure
    BY <1>2, <1>7
  <2>2. q.do \in SignsInOrOut => q.at # 0
    BY <1>4, <2>1 DEF AccountsInv, SessionKnown
  <2>3. session' = session
    BY <1>7, <2>2
  <2>4. Settled' = Settled
    <3>1. \A i \in DOMAIN stack : i # q.at => (i \in Settled' <=> i \in Settled)
      BY <1>1 DEF Settled
    <3>2. q.at \in DOMAIN stack => q.at # 0
      BY LinkedFacts DEF AccountsInv, LinkInv
    <3>3. q.at \in DOMAIN stack => stack'[q.at].do = q.do /\ stack'[q.at].got = a
      BY <1>1, <3>2 DEF Awaits
    <3>4. q.at \in DOMAIN stack => q.at \notin Settled'
      BY <1>7, <3>2, <3>3 DEF Settled
    <3>5. \A i : i \in Settled \/ i \in Settled' => i \in DOMAIN stack
      BY <1>1 DEF Settled
    <3>6. \A i : i \in Settled' <=> i \in Settled
      <4> SUFFICES ASSUME NEW i PROVE i \in Settled' <=> i \in Settled
        OBVIOUS
      <4>1. CASE i = q.at
        BY <1>5, <3>2, <3>4, <3>5, <4>1
      <4>2. CASE i # q.at
        BY <3>1, <3>5, <4>2
      <4> QED
        BY <4>1, <4>2
    <3> QED
      BY <3>6
  <2>5. \A i \in Settled : stack'[i] = stack[i]
    <3>1. \A i \in Settled : i \in DOMAIN stack /\ i # 0
      BY LinkedFacts DEF Settled, AccountsInv, LinkInv
    <3> QED
      BY <1>1, <1>5, <3>1
  <2>6. \A i \in DOMAIN stack' : stack'[i].do = "logout" => stack'[i].got # "late"
    BY <1>1, <1>3, <2>1 DEF AccountsInv, SessionKnown
  <2>7. \A i \in DOMAIN wire' : wire'[i].do \in SignsInOrOut => wire'[i].at # 0
    BY <1>1, <2>1 DEF AccountsInv, SessionKnown
  <2> QED
    BY <2>1, <2>3, <2>4, <2>5, <2>6, <2>7 DEF AccountsInv, SessionKnown
<1> QED
  BY <1>6, <1>7

\* The part of the invariant that answering a request keeps if the connection
\* becomes the caller's, or nobody's, when a sign-in, or sign-out, is answered
\* with "ok" and stays as it is otherwise.
LEMMA AnswerKeeps ==
  ASSUME AccountsInv, wire # <<>>, NEW a \in Answers, Answer(a),
         todo = Nobody \/ Head(wire).do = "register", todo' = Nobody,
         account' \in Rows, Registered \subseteq Registered',
         profile' \subseteq Registered', genres' \subseteq Registered',
         session' \in Registered' \cup {Nobody},
         UNCHANGED <<up, saved, current, recovery, calls, faults>>,
         genres \cup untold \subseteq genres' \cup untold', spoiled => spoiled',
         \A i \in DOMAIN stack :
           stack[i].got = "ok" /\ stack[i].do = "login" /\ stack[i].user \in Registered =>
             spoiled' \/ account'[stack[i].user] = account[stack[i].user],
         Head(wire).do \in SignsInOrOut /\ a = "ok" => session' = Outcome(Head(wire)),
         Head(wire).do \notin SignsInOrOut \/ a # "ok" => session' = session,
         a = "ok" /\ Head(wire).do \in {"login", "register"} =>
           Head(wire).user \in Registered',
         a = "ok" /\ Head(wire).do = "login" =>
           account'[Head(wire).user] = Head(wire).pw,
         Head(wire).do = "logout" => a = "ok",
         Head(wire).do = "genres" => Head(wire).user \in genres' \cup untold' \cup Publishers
  PROVE  /\ LinkInv' /\ TypeOK' /\ InRegistration' /\ NothingWhenDown'
         /\ CallTrue' /\ SessionKnown'
<1> DEFINE q == Head(wire)
<1>1. /\ LinkInv' /\ Len(wire') <= MaxWire /\ Len(stack') = Len(stack)
      /\ DOMAIN stack' = DOMAIN stack
      /\ \A i \in DOMAIN stack :
           /\ stack'[i].do = stack[i].do /\ stack'[i].user = stack[i].user
           /\ stack'[i].pw = stack[i].pw
           /\ i # q.at => stack'[i] = stack[i]
           /\ i = q.at => stack'[i].got = a
      /\ q.at # 0 => q.at \in DOMAIN stack /\ Awaits(stack[q.at], q)
      /\ up
  BY AnswerFacts
<1>2. SessionKnown'
  BY AnswerKnown
<1>3. TypeOK'
  BY <1>1 DEF AccountsInv, TypeOK, Rows
<1>4. InRegistration' /\ NothingWhenDown'
  BY <1>1 DEF InRegistration, NothingWhenDown
<1>5. CallTrue'
  <2> SUFFICES ASSUME NEW i \in DOMAIN stack
      PROVE
    /\ stack'[i].got = "ok" /\ stack'[i].do \in {"login", "register"} =>
         stack'[i].user \in Registered'
    /\ stack'[i].got = "ok" /\ stack'[i].do = "login" =>
         spoiled' \/ account'[stack'[i].user] = stack'[i].pw
    /\ stack'[i].do = "logout" => stack'[i].got \in {NoAnswer, "ok", "late"}
    /\ stack'[i].got \in Answers /\ stack'[i].do = "genres" =>
         stack'[i].user \in genres' \cup untold' \cup Publishers
    BY <1>1 DEF CallTrue
  <2>1. CASE i = q.at
    <3>1. i # 0
      BY LinkedFacts DEF AccountsInv, LinkInv
    <3>2. /\ stack'[i].got = a /\ stack'[i].do = q.do /\ stack'[i].user = q.user
          /\ stack'[i].pw = q.pw
      BY <1>1, <2>1, <3>1 DEF Awaits
    <3> QED
      BY <3>2
  <2>2. CASE i # q.at
    <3>1. stack'[i] = stack[i]
      BY <1>1, <2>2
    <3>2. /\ stack[i].got = "ok" /\ stack[i].do \in {"login", "register"} =>
               stack[i].user \in Registered
          /\ stack[i].got = "ok" /\ stack[i].do = "login" =>
               spoiled \/ account[stack[i].user] = stack[i].pw
          /\ stack[i].do = "logout" => stack[i].got \in {NoAnswer, "ok", "late"}
          /\ stack[i].got \in Answers /\ stack[i].do = "genres" =>
               stack[i].user \in genres \cup untold \cup Publishers
      BY DEF AccountsInv, CallTrue
    <3> QED
      BY <3>1, <3>2
  <2> QED
    BY <2>1, <2>2
<1> QED
  BY <1>1, <1>2, <1>3, <1>4, <1>5

\* What is saved stays good when no account changes that it belongs to.
LEMMA AnswerSaved ==
  ASSUME AccountsInv, wire # <<>>, NEW a \in Answers, Answer(a), UNCHANGED saved,
         outdated => outdated',
         \A u \in Registered : u \in Registered' /\ account'[u] = account[u]
  PROVE  SavedOpensAccount'
<1>1. \A i \in DOMAIN stack : stack[i].got = "ok" => i \in DOMAIN stack' /\ stack'[i] = stack[i]
  <2>1. NoAnswer # "ok"
    BY DEF NoAnswer
  <2> QED
    BY <2>1, AnswerFacts, LinkedFacts DEF AccountsInv, LinkInv, Awaits
<1> QED
  BY <1>1, SavedKept DEF AccountsInv

LEMMA LoginKeeps ==
  ASSUME AccountsInv, HandleLogin PROVE AccountsInv'
<1> DEFINE q == Head(wire)
<1>1. /\ todo = Nobody /\ wire # <<>> /\ q.do = "login"
      /\ UNCHANGED <<account, profile, genres, todo, up, saved, current, recovery>>
      /\ UNCHANGED <<calls, faults, outdated, spoiled, promised, untold, torn>>
  BY DEF HandleLogin, Handle, database, signedIn, others, counted
<1>2. PICK a \in {"ok", "no"} :
        /\ Answer(a)
        /\ a = "ok" => /\ q.user \in Registered /\ account[q.user] = q.pw
                       /\ session' = q.user
        /\ a = "no" => session' = session
  BY DEF HandleLogin
<1>3. Registered' = Registered /\ account' \in Rows
  BY <1>1, RowFacts DEF AccountsInv, Registered
<1>4. a \in Answers /\ session' \in Registered \cup {Nobody}
  BY <1>2 DEF AccountsInv, TypeOK, Answers
<1>5. /\ LinkInv' /\ TypeOK' /\ InRegistration' /\ NothingWhenDown'
      /\ CallTrue' /\ SessionKnown'
  BY <1>1, <1>2, <1>3, <1>4, AnswerKeeps DEF AccountsInv, TypeOK, SignsInOrOut, Outcome
<1>6. PublisherHasProfile' /\ GenresReachServer'
  BY <1>1, <1>3 DEF AccountsInv, PublisherHasProfile, GenresReachServer
<1>7. SavedOpensAccount'
  BY <1>1, <1>2, <1>3, <1>4, AnswerSaved
<1> QED
  BY <1>1, <1>5, <1>6, <1>7 DEF AccountsInv

LEMMA ProbeAndLogoutKeep ==
  ASSUME AccountsInv, HandleProbe \/ HandleLogout PROVE AccountsInv'
<1> DEFINE q == Head(wire)
           a == IF q.do = "logout" THEN "ok" ELSE "no"
<1>1. /\ todo = Nobody /\ wire # <<>> /\ q.do \in {"probe", "look", "logout"} /\ Answer(a)
      /\ session' = IF q.do = "logout" THEN Nobody ELSE session
      /\ UNCHANGED <<account, profile, genres, todo, up, saved, current, recovery>>
      /\ UNCHANGED <<calls, faults, outdated, spoiled, promised, untold, torn>>
  BY DEF HandleProbe, HandleLogout, Handle, database, server, signedIn, others, counted
<1>2. Registered' = Registered /\ account' \in Rows
  BY <1>1, RowFacts DEF AccountsInv, Registered
<1>3. a \in Answers /\ (a = "ok" <=> q.do = "logout")
  BY DEF Answers
<1>4. session' \in Registered \cup {Nobody}
  BY <1>1 DEF AccountsInv, TypeOK
<1> HIDE DEF a
<1>5. /\ LinkInv' /\ TypeOK' /\ InRegistration' /\ NothingWhenDown'
      /\ CallTrue' /\ SessionKnown'
  BY <1>1, <1>2, <1>3, <1>4, AnswerKeeps DEF AccountsInv, TypeOK, SignsInOrOut, Outcome
<1>6. PublisherHasProfile' /\ GenresReachServer'
  BY <1>1, <1>2 DEF AccountsInv, PublisherHasProfile, GenresReachServer
<1>7. SavedOpensAccount'
  BY <1>1, <1>2, <1>3, AnswerSaved
<1> QED
  BY <1>1, <1>5, <1>6, <1>7 DEF AccountsInv

LEMMA RegisterKeeps ==
  ASSUME AccountsInv, HandleRegister PROVE AccountsInv'
<1> DEFINE q == Head(wire)
<1>1. /\ todo = Nobody /\ wire # <<>> /\ q.do = "register"
      /\ UNCHANGED <<profile, genres, up, saved, current, recovery>>
      /\ UNCHANGED <<calls, faults, outdated, spoiled, promised, untold, torn>>
  BY DEF HandleRegister, RegisterAccount, Handle, signedIn, others, counted
<1>2. q.user \in User /\ q.pw \in Password
  BY <1>1, LinkedFacts DEF AccountsInv, LinkInv, Fit, WithPassword, Probes
<1>3. CASE q.user \in Registered
  <2>1. Answer("taken") /\ UNCHANGED <<account, session, todo>>
    BY <1>3 DEF HandleRegister, RegisterAccount, server
  <2>2. Registered' = Registered /\ account' \in Rows /\ "taken" \in Answers
    BY <2>1, RowFacts DEF AccountsInv, Registered, Answers
  <2>3. /\ LinkInv' /\ TypeOK' /\ InRegistration' /\ NothingWhenDown'
        /\ CallTrue' /\ SessionKnown'
    BY <1>1, <2>1, <2>2, AnswerKeeps DEF AccountsInv, TypeOK
  <2>4. PublisherHasProfile' /\ GenresReachServer'
    BY <1>1, <2>1, <2>2 DEF AccountsInv, PublisherHasProfile, GenresReachServer
  <2>5. SavedOpensAccount'
    BY <1>1, <2>1, <2>2, AnswerSaved
  <2> QED
    BY <1>1, <2>3, <2>4, <2>5 DEF AccountsInv
<1>4. CASE q.user \notin Registered
  <2>1. account' = [account EXCEPT ![q.user] = q.pw]
    BY <1>4 DEF HandleRegister, RegisterAccount
  <2>2. /\ account' \in Rows /\ Registered' = Registered \cup {q.user}
        /\ \A v \in Registered : account'[v] = account[v]
    <3>1. /\ account' \in Rows /\ Registered' = Registered \cup {q.user}
          /\ \A v \in User \ {q.user} : account'[v] = account[v]
      BY <1>2, <2>1, WriteRow DEF AccountsInv
    <3> QED
      BY <1>4, <3>1, RowFacts DEF AccountsInv
  <2>3. GenresReachServer'
    BY <1>1 DEF AccountsInv, GenresReachServer
  <2>4. CASE q.user \in Publishers
    <3>1. todo' = q.user /\ UNCHANGED <<session, wire, stack, unsure>>
      BY <1>4, <2>4 DEF HandleRegister, RegisterAccount
    <3>2. LinkInv' /\ Settled' = Settled
      BY <3>1 DEF AccountsInv, LinkInv, OneLogin, Settled
    <3>3. TypeOK'
      BY <1>1, <2>2, <3>1 DEF AccountsInv, TypeOK, Rows
    <3>4. InRegistration' /\ NothingWhenDown'
      BY <1>1, <3>1 DEF AccountsInv, InRegistration, NothingWhenDown
    <3>5. CallTrue'
      BY <1>1, <2>2, <3>1 DEF AccountsInv, CallTrue
    <3>6. SessionKnown'
      BY <1>1, <3>1, <3>2 DEF AccountsInv, SessionKnown
    <3>7. PublisherHasProfile'
      BY <1>1, <2>2, <3>1, RowFacts, AccountsAssumption DEF AccountsInv, PublisherHasProfile
    <3>8. SavedOpensAccount'
      BY <1>1, <2>2, <3>1, SavedKept DEF AccountsInv
    <3> QED
      BY <1>1, <2>3, <3>2, <3>3, <3>4, <3>5, <3>6, <3>7, <3>8 DEF AccountsInv
  <2>5. CASE q.user \notin Publishers
    <3>1. session' = q.user /\ Answer("ok") /\ todo' = todo /\ "ok" \in Answers
      BY <1>4, <2>5 DEF HandleRegister, RegisterAccount, Answers
    <3>2. /\ LinkInv' /\ TypeOK' /\ InRegistration' /\ NothingWhenDown'
          /\ CallTrue' /\ SessionKnown'
      BY <1>1, <2>2, <3>1, AnswerKeeps DEF AccountsInv, TypeOK, SignsInOrOut, Outcome
    <3>3. PublisherHasProfile'
      BY <1>1, <2>2, <2>5, <3>1 DEF AccountsInv, PublisherHasProfile
    <3>4. SavedOpensAccount'
      BY <1>1, <2>2, <3>1, AnswerSaved
    <3> QED
      BY <1>1, <2>3, <3>2, <3>3, <3>4 DEF AccountsInv
  <2> QED
    BY <2>4, <2>5
<1> QED
  BY <1>3, <1>4

LEMMA ProfileKeeps ==
  ASSUME AccountsInv, SaveProfile PROVE AccountsInv'
<1>1. /\ todo # Nobody /\ profile' = profile \cup {todo} /\ session' = todo
      /\ todo' = Nobody /\ Answer("ok") /\ "ok" \in Answers
      /\ UNCHANGED <<account, genres, up, saved, current, recovery>>
      /\ UNCHANGED <<calls, faults, outdated, spoiled, promised, untold, torn>>
  BY DEF SaveProfile, signedIn, others, counted, Answers
<1>2. /\ wire # <<>> /\ Head(wire).do = "register" /\ Head(wire).user = todo
      /\ todo \in Registered
  BY <1>1, RowFacts DEF AccountsInv, InRegistration
<1>3. Registered' = Registered /\ account' \in Rows
  BY <1>1, RowFacts DEF AccountsInv, Registered
<1>4. /\ LinkInv' /\ TypeOK' /\ InRegistration' /\ NothingWhenDown'
      /\ CallTrue' /\ SessionKnown'
  BY <1>1, <1>2, <1>3, AnswerKeeps DEF AccountsInv, TypeOK, SignsInOrOut, Outcome
<1>5. PublisherHasProfile' /\ GenresReachServer'
  BY <1>1, <1>3 DEF AccountsInv, PublisherHasProfile, GenresReachServer
<1>6. SavedOpensAccount'
  BY <1>1, <1>2, <1>3, AnswerSaved
<1> QED
  BY <1>1, <1>4, <1>5, <1>6 DEF AccountsInv


LEMMA PasswordKeeps ==
  ASSUME AccountsInv, HandleResetPassword \/ HandleChangePassword PROVE AccountsInv'
<1> DEFINE q == Head(wire)
<1>1. todo = Nobody /\ wire # <<>> /\ q.do \in {"reset", "change"}
  BY DEF HandleResetPassword, HandleChangePassword, Handle
<1>2. q.pw \in Password
  BY <1>1, LinkedFacts DEF AccountsInv, LinkInv, Fit, WithPassword
<1>3. PICK u, ok : /\ ok \in BOOLEAN /\ (ok => u \in Registered)
                   /\ q.do = "reset" => u = q.user
                   /\ SetPassword(u, ok)
  <2>1. CASE HandleResetPassword
    BY <2>1 DEF HandleResetPassword, Handle
  <2>2. CASE HandleChangePassword
    BY <2>2, RowFacts DEF AccountsInv, HandleChangePassword, Handle
  <2> QED
    BY <2>1, <2>2
<1> DEFINE a == IF ok THEN "ok" ELSE "no"
           silent == q.do = "change" \/ q.at = 0
           inHand == \E i \in Settled : stack[i].do = "login" /\ stack[i].user = u
<1>4. /\ account' = IF ok THEN [account EXCEPT ![u] = q.pw] ELSE account
      /\ outdated' = (outdated \/ (ok /\ silent /\ saved # Nothing /\ saved.user = u))
      /\ spoiled' = (spoiled \/ (ok /\ inHand))
      /\ Answer(a)
      /\ UNCHANGED <<profile, genres, session, todo, up, saved, current, recovery>>
      /\ UNCHANGED <<calls, faults, promised, untold, torn>>
  BY <1>3 DEF SetPassword, server, signedIn, counted
<1>5. /\ account' \in Rows /\ Registered' = Registered
      /\ \A v \in Registered : account'[v] = account[v] \/ (ok /\ v = u)
  <2>1. CASE ok
    <3>1. /\ account' \in Rows /\ Registered' = Registered \cup {u}
          /\ \A v \in User \ {u} : account'[v] = account[v]
      BY <1>2, <1>3, <1>4, <2>1, WriteRow, RowFacts DEF AccountsInv
    <3> QED
      BY <1>3, <2>1, <3>1 DEF Registered
  <2>2. CASE ~ ok
    BY <1>4, <2>2, RowFacts DEF AccountsInv, Registered
  <2> QED
    BY <2>1, <2>2
<1>6. a \in Answers /\ (a = "ok" <=> ok) /\ outdated' \in BOOLEAN /\ spoiled' \in BOOLEAN
  BY <1>3, <1>4 DEF Answers, AccountsInv
<1>7. \A i \in DOMAIN stack :
        stack[i].got = "ok" /\ stack[i].do = "login" /\ stack[i].user \in Registered =>
          spoiled' \/ account'[stack[i].user] = account[stack[i].user]
  BY <1>4, <1>5 DEF Settled, SignsInOrOut
<1>8. /\ spoiled => spoiled'
      /\ \A v \in Registered : ~ (ok /\ v = u) => account'[v] = account[v]
      /\ ok /\ silent /\ saved # Nothing /\ saved.user = u => outdated'
      /\ outdated => outdated'
  BY <1>4, <1>5
<1> HIDE DEF a, inHand
<1>9. /\ LinkInv' /\ TypeOK' /\ InRegistration' /\ NothingWhenDown'
      /\ CallTrue' /\ SessionKnown'
  <2>1. session' \in Registered' \cup {Nobody} /\ profile' \subseteq Registered'
        /\ genres' \subseteq Registered'
    BY <1>4, <1>5 DEF AccountsInv, TypeOK
  <2>2. UNCHANGED <<up, saved, current, recovery, calls, faults>> /\ todo' = Nobody
    BY <1>1, <1>4
  <2> QED
    BY <1>1, <1>4, <1>5, <1>6, <1>7, <1>8, <2>1, <2>2, AnswerKeeps DEF SignsInOrOut
<1>10. PublisherHasProfile' /\ GenresReachServer'
  BY <1>4, <1>5 DEF AccountsInv, PublisherHasProfile, GenresReachServer
<1>11. SavedOpensAccount'
  <2> SUFFICES ASSUME saved # Nothing, ~ outdated' PROVE SavedOpensAccount'
    BY <1>4 DEF SavedOpensAccount
  <2>1. /\ DOMAIN stack' = DOMAIN stack
        /\ \A i \in DOMAIN stack : /\ stack'[i].do = stack[i].do
                                   /\ stack'[i].user = stack[i].user
                                   /\ i # q.at => stack'[i] = stack[i]
                                   /\ i = q.at => stack'[i].got = a
        /\ q.at # 0 => q.at \in DOMAIN stack /\ Awaits(stack[q.at], q)
    BY <1>1, <1>4, <1>6, AnswerFacts
  <2>2. \A i \in DOMAIN stack : i # 0
    BY LinkedFacts DEF AccountsInv, LinkInv
  <2>3. CASE \E i \in DOMAIN stack : stack[i].do = "reset" /\ stack[i].got = "ok"
                                       /\ stack[i].user = saved.user
    <3>1. PICK i \in DOMAIN stack : stack[i].do = "reset" /\ stack[i].got = "ok"
                                      /\ stack[i].user = saved.user
      BY <2>3
    <3>2. i # q.at
      BY <2>1, <2>2, <3>1 DEF Awaits, NoAnswer
    <3> QED
      BY <1>4, <2>1, <3>1, <3>2 DEF SavedOpensAccount
  <2>4. CASE saved.user \in Registered /\ account[saved.user] = saved.pw
    <3>1. CASE ok /\ saved.user = u
      <4>1. q.do = "reset" /\ q.at # 0
        BY <1>1, <1>8, <3>1
      <4>2. /\ q.at \in DOMAIN stack' /\ stack'[q.at].do = "reset"
            /\ stack'[q.at].got = "ok" /\ stack'[q.at].user = u
        BY <1>3, <1>6, <2>1, <3>1, <4>1 DEF Awaits
      <4> QED
        BY <1>4, <3>1, <4>2 DEF SavedOpensAccount
    <3>2. CASE ~ (ok /\ saved.user = u)
      BY <1>4, <1>5, <1>8, <2>4, <3>2 DEF SavedOpensAccount
    <3> QED
      BY <3>1, <3>2
  <2> QED
    BY <1>8, <2>3, <2>4 DEF AccountsInv, SavedOpensAccount
<1> QED
  BY <1>6, <1>9, <1>10, <1>11 DEF AccountsInv

LEMMA GenresKeep ==
  ASSUME AccountsInv, HandleSaveFavoriteGenres PROVE AccountsInv'
<1> DEFINE q  == Head(wire)
           ok == session # Nobody /\ session \notin Publishers
           a  == IF ok THEN "ok" ELSE "no"
           strayed == session # q.user /\ (unsure \/ Settled # {} \/ q.user # current)
<1>1. /\ todo = Nobody /\ wire # <<>> /\ q.do = "genres" /\ Answer(a)
      /\ genres' = IF ok THEN genres \cup {session} ELSE genres
      /\ untold' = IF strayed THEN untold \cup ({q.user} \ Publishers) ELSE untold
      /\ UNCHANGED <<account, profile, session, todo, up, saved, current, recovery>>
      /\ UNCHANGED <<calls, faults, outdated, spoiled, promised, torn>>
  BY DEF HandleSaveFavoriteGenres, Handle, server, signedIn, counted
<1>2. Registered' = Registered /\ account' \in Rows
  BY <1>1, RowFacts DEF AccountsInv, Registered
<1>3. genres' \subseteq Registered
  BY <1>1 DEF AccountsInv, TypeOK
<1>4. a \in Answers
  BY DEF Answers
<1>5. q.user \in genres' \cup untold' \cup Publishers
  <2>1. q.user # Nobody
    BY <1>1, LinkedFacts, AccountsAssumption DEF AccountsInv, LinkInv, Fit, Probes
  <2>2. ~ unsure /\ Settled = {} => session = current
    BY DEF AccountsInv, SessionKnown
  <2> QED
    BY <1>1, <2>1, <2>2
<1>6. genres \subseteq genres' /\ untold \subseteq untold'
  BY <1>1
<1> HIDE DEF a
<1>7. /\ LinkInv' /\ TypeOK' /\ InRegistration' /\ NothingWhenDown'
      /\ CallTrue' /\ SessionKnown'
  BY <1>1, <1>2, <1>3, <1>4, <1>5, <1>6, AnswerKeeps DEF AccountsInv, TypeOK, SignsInOrOut
<1>8. PublisherHasProfile' /\ GenresReachServer'
  BY <1>1, <1>2, <1>6 DEF AccountsInv, PublisherHasProfile, GenresReachServer
<1>9. SavedOpensAccount'
  BY <1>1, <1>2, <1>4, AnswerSaved
<1> QED
  BY <1>1, <1>7, <1>8, <1>9 DEF AccountsInv

-----------------------------------------------------------------------------
(* Calls return, and the connection goes and comes.                        *)

\* The innermost call returns: the client takes from an answer what the server
\* made of the request, as far as it can know.
LEMMA ReturnKeeps ==
  ASSUME AccountsInv, stack # <<>>, Innermost.got # NoAnswer, stack' = Under,
         UNCHANGED <<account, profile, genres, session, todo, wire, up>>,
         UNCHANGED <<calls, faults, unsure, torn>>,
         saved' \in {Nothing} \cup Typed, outdated' \in BOOLEAN, spoiled' \in BOOLEAN,
         recovery' \in {recovery, Nothing},
         current' \in Registered \cup {Nobody},
         ~ unsure => current' = IF Innermost.do \in SignsInOrOut /\ Innermost.got = "ok"
                                THEN Outcome(Innermost) ELSE current,
         Innermost.do = "login" \/ spoiled' = spoiled, untold \subseteq untold',
         GenresReachServer', SavedOpensAccount'
  PROVE  AccountsInv'
<1> DEFINE n == Len(stack)
<1>1. /\ Linked(wire, Under) /\ Len(Under) = n - 1 /\ DOMAIN Under = 1 .. n - 1
      /\ \A i \in DOMAIN Under : Under[i] = stack[i]
  BY LinkedReturn DEF AccountsInv, LinkInv, Under, Innermost
<1>2. n \in Nat /\ n >= 1 /\ DOMAIN stack = 1 .. n /\ Innermost = stack[n]
  BY LinkedFacts DEF AccountsInv, LinkInv, Innermost
<1>3. /\ \A i \in DOMAIN stack' : i \in DOMAIN stack /\ i # n /\ stack'[i] = stack[i]
      /\ \A i \in DOMAIN stack : i = n \/ i \in DOMAIN stack'
      /\ Len(stack') <= MaxDepth
  BY <1>1, <1>2, AccountsAssumption DEF AccountsInv, TypeOK
<1>4. Registered' = Registered
  BY DEF Registered
<1>5. LinkInv'
  BY <1>1, <1>3 DEF AccountsInv, LinkInv, OneLogin
<1>6. TypeOK'
  BY <1>3, <1>4 DEF AccountsInv, TypeOK
<1>7. InRegistration' /\ NothingWhenDown'
  BY DEF AccountsInv, InRegistration, NothingWhenDown
<1>8. CallTrue'
  <2>1. \A i \in DOMAIN stack' : stack'[i].do = "login" => spoiled' = spoiled
    BY <1>2, <1>3 DEF AccountsInv, LinkInv, OneLogin
  <2> QED
    BY <1>3, <1>4, <2>1 DEF AccountsInv, CallTrue
<1>9. SessionKnown'
  <2> SUFFICES ASSUME ~ unsure PROVE SessionKnown'
    BY DEF SessionKnown
  <2>1. \A i \in Settled' : i \in Settled /\ i # n /\ stack'[i] = stack[i]
    BY <1>3 DEF Settled
  <2>2. \A i \in Settled : i = n \/ i \in Settled'
    BY <1>3 DEF Settled
  <2>3. Settled' = {} => session' = current'
    <3>1. CASE n \in Settled
      BY <1>2, <3>1 DEF Settled, AccountsInv, SessionKnown
    <3>2. CASE n \notin Settled
      <4>1. current' = current
        BY <1>2, <3>2 DEF Settled
      <4> QED
        BY <2>2, <3>2, <4>1 DEF AccountsInv, SessionKnown
    <3> QED
      BY <3>1, <3>2
  <2>4. /\ \A i, j \in Settled' : i = j
        /\ \A i \in Settled' : session' = Outcome(stack'[i])
    BY <2>1 DEF AccountsInv, SessionKnown
  <2>5. \A i \in DOMAIN stack' : stack'[i].do = "logout" => stack'[i].got # "late"
    BY <1>3 DEF AccountsInv, SessionKnown
  <2>6. \A i \in DOMAIN wire' : wire'[i].do \in SignsInOrOut => wire'[i].at # 0
    BY DEF AccountsInv, SessionKnown
  <2> QED
    BY <2>3, <2>4, <2>5, <2>6 DEF SessionKnown
<1>10. PublisherHasProfile'
  BY <1>4 DEF AccountsInv, PublisherHasProfile
<1> QED
  BY <1>5, <1>6, <1>7, <1>8, <1>9, <1>10 DEF AccountsInv

LEMMA ReturnsKeep ==
  ASSUME AccountsInv,
         \/ LoginReturns \/ ProbeReturns \/ RegisterReturns \/ ResetReturns
         \/ ChangeReturns \/ GenresReturn \/ LogoutReturns
  PROVE  AccountsInv'
<1> USE DEF Returned, database, server, signedIn, counted, history, others
<1> DEFINE n == Len(stack)
<1>1. /\ saved \in {Nothing} \cup Typed /\ outdated \in BOOLEAN /\ spoiled \in BOOLEAN
      /\ current \in Registered \cup {Nobody}
  BY DEF AccountsInv, TypeOK
<1>2. ASSUME stack # <<>>, Innermost.got # NoAnswer
      PROVE  /\ n \in DOMAIN stack /\ Innermost = stack[n] /\ Linked(wire, Under)
             /\ Innermost \in Waits /\ Fit(Innermost)
             /\ \A i \in DOMAIN Under : i \in DOMAIN stack /\ Under[i] = stack[i]
             /\ \A i \in DOMAIN stack : i = n \/ i \in DOMAIN Under
  <2>1. /\ n \in Nat /\ n >= 1 /\ DOMAIN stack = 1 .. n /\ Innermost = stack[n]
        /\ stack[n] \in Waits /\ Fit(stack[n])
    BY <1>2, LinkedFacts DEF AccountsInv, LinkInv, Innermost
  <2>2. /\ Linked(wire, Under) /\ DOMAIN Under = 1 .. n - 1
        /\ \A i \in DOMAIN Under : Under[i] = stack[i]
    BY <1>2, LinkedReturn DEF AccountsInv, LinkInv, Under, Innermost
  <2> QED
    BY <2>1, <2>2
<1>3. UNCHANGED <<genres, promised, untold>> => GenresReachServer'
  BY DEF AccountsInv, GenresReachServer
<1>4. ASSUME stack # <<>>, Innermost.got # NoAnswer, stack' = Under,
             UNCHANGED <<account, saved, outdated>>,
             Innermost.do # "reset" \/ Innermost.got # "ok"
      PROVE  SavedOpensAccount'
  <2>1. Registered' = Registered
    BY <1>4 DEF Registered
  <2> QED
    BY <1>2, <1>4, <2>1, SavedKept DEF AccountsInv
<1>5. CASE LoginReturns
  <2>1. /\ stack # <<>> /\ Innermost.do = "login" /\ Innermost.got # NoAnswer
        /\ stack' = Under /\ spoiled' = FALSE
        /\ current' = IF Innermost.got = "ok" THEN Innermost.user ELSE current
        /\ UNCHANGED <<account, profile, genres, session, todo, wire, up, recovery>>
        /\ UNCHANGED <<calls, faults, unsure, promised, untold, torn>>
    BY <1>5 DEF LoginReturns, SignedIn
  <2>2. Innermost.got = "ok" =>
          /\ Innermost.user \in Registered
          /\ spoiled \/ account[Innermost.user] = Innermost.pw
    BY <1>2, <2>1 DEF AccountsInv, CallTrue
  <2>3. /\ current' \in Registered \cup {Nobody}
        /\ current' = IF Innermost.do \in SignsInOrOut /\ Innermost.got = "ok"
                      THEN Outcome(Innermost) ELSE current
    BY <1>1, <2>1, <2>2 DEF Outcome, SignsInOrOut
  <2>4. CASE Innermost.got = "ok" /\ \E t \in Typed :
               saved' = t /\ outdated' = (t # Sent \/ spoiled)
    <3>1. saved' \in Typed /\ outdated' \in BOOLEAN
      BY <1>1, <2>4
    <3>2. ~ outdated' => saved' = Sent /\ ~ spoiled
      BY <2>4
    <3>3. SavedOpensAccount'
      <4>1. ~ outdated' => /\ saved'.user = Innermost.user
                           /\ saved'.pw = Innermost.pw
        BY <3>2 DEF Sent
      <4>2. Registered' = Registered
        BY <2>1 DEF Registered
      <4> QED
        BY <2>1, <2>2, <2>4, <3>2, <4>1, <4>2 DEF SavedOpensAccount
    <3> QED
      BY <1>3, <2>1, <2>3, <3>1, <3>3, ReturnKeeps
  <2>5. CASE UNCHANGED <<saved, outdated>>
    <3>1. SavedOpensAccount'
      BY <1>4, <2>1, <2>5
    <3> QED
      BY <1>1, <1>3, <2>1, <2>3, <2>5, <3>1, ReturnKeeps
  <2> QED
    BY <1>5, <2>4, <2>5 DEF LoginReturns
<1>6. CASE ProbeReturns
  <2>1. stack # <<>> /\ Innermost.do = "probe" /\ Innermost.got # NoAnswer
    BY <1>6 DEF ProbeReturns
  <2>2. CASE stack' = Under
               /\ UNCHANGED <<database, server, wire, up, saved, signedIn, counted, history>>
    <3>1. SavedOpensAccount'
      BY <1>4, <2>1, <2>2
    <3>2. ~ (Innermost.do \in SignsInOrOut /\ Innermost.got = "ok")
      BY <2>1 DEF SignsInOrOut
    <3> QED
      BY <1>1, <1>3, <2>1, <2>2, <3>1, <3>2, ReturnKeeps
  <2>3. CASE (\E t \in Typed : SendOn(Under, "register", t.user, t.pw, Nobody))
             /\ UNCHANGED calls
    <3>1. PICK t \in Typed : SendOn(Under, "register", t.user, t.pw, Nobody)
      BY <2>3
    <3>2. t.user \in User /\ t.pw \in Password
      BY DEF Typed
    <3>3. calls' \in 0 .. MaxCalls /\ "register" \in Ops
      BY <2>3 DEF AccountsInv, TypeOK, Ops
    <3>4. \A i \in DOMAIN stack \ DOMAIN Under : stack[i].do = "probe"
      BY <1>2, <2>1
    <3>5. DOMAIN Under \subseteq DOMAIN stack /\ Linked(wire, Under)
          /\ \A i \in DOMAIN Under : Under[i] = stack[i]
      BY <1>2, <2>1
    <3> QED
      BY <3>1, <3>2, <3>3, <3>4, <3>5, SendKeeps
  <2> QED
    BY <1>6, <2>2, <2>3 DEF ProbeReturns
<1>7. CASE RegisterReturns
  <2>1. /\ stack # <<>> /\ Innermost.do = "register" /\ Innermost.got # NoAnswer
        /\ stack' = Under
        /\ current' = IF Innermost.got = "ok" THEN Innermost.user ELSE current
        /\ UNCHANGED <<database, server, wire, up, saved, recovery, counted, history>>
    BY <1>7 DEF RegisterReturns, SignedIn
  <2>2. Innermost.got = "ok" => Innermost.user \in Registered
    BY <1>2, <2>1 DEF AccountsInv, CallTrue
  <2>3. /\ current' \in Registered \cup {Nobody}
        /\ current' = IF Innermost.do \in SignsInOrOut /\ Innermost.got = "ok"
                      THEN Outcome(Innermost) ELSE current
    BY <1>1, <2>1, <2>2 DEF Outcome, SignsInOrOut
  <2>4. SavedOpensAccount'
    BY <1>4, <2>1
  <2> QED
    BY <1>1, <1>3, <2>1, <2>3, <2>4, ReturnKeeps
<1>8. CASE ResetReturns
  <2>1. /\ stack # <<>> /\ Innermost.do = "reset" /\ Innermost.got # NoAnswer
        /\ stack' = Under /\ recovery' \in {recovery, Nothing}
        /\ UNCHANGED <<database, server, wire, up, current, counted>>
        /\ UNCHANGED <<unsure, spoiled, promised, untold, torn>>
    BY <1>8 DEF ResetReturns, ClearSavedCredentials
  <2>2. ~ (Innermost.do \in SignsInOrOut /\ Innermost.got = "ok")
    BY <2>1 DEF SignsInOrOut
  <2>3. CASE UNCHANGED <<saved, outdated>> /\ Innermost.got # "ok"
    <3>1. SavedOpensAccount'
      BY <1>4, <2>1, <2>3
    <3> QED
      BY <1>1, <1>3, <2>1, <2>2, <2>3, <3>1, ReturnKeeps
  <2>4. CASE saved' = Nothing /\ UNCHANGED outdated
    <3>1. SavedOpensAccount'
      BY <2>4 DEF SavedOpensAccount
    <3> QED
      BY <1>1, <1>3, <2>1, <2>2, <2>4, <3>1, ReturnKeeps
  <2>5. CASE /\ outdated' = (outdated \/ (saved # Nothing /\ saved.user = Innermost.user))
             /\ UNCHANGED saved
    <3>1. outdated' \in BOOLEAN
      BY <1>1, <2>5
    <3>2. SavedOpensAccount'
      <4> SUFFICES ASSUME saved # Nothing, ~ outdated' PROVE SavedOpensAccount'
        BY <2>5 DEF SavedOpensAccount
      <4>1. ~ outdated /\ saved.user # Innermost.user
        BY <2>5
      <4>2. CASE \E i \in DOMAIN stack : stack[i].do = "reset" /\ stack[i].got = "ok"
                                           /\ stack[i].user = saved.user
        BY <1>2, <2>1, <2>5, <4>1, <4>2 DEF SavedOpensAccount
      <4>3. CASE saved.user \in Registered /\ account[saved.user] = saved.pw
        BY <2>1, <2>5, <4>3 DEF SavedOpensAccount, Registered
      <4> QED
        BY <4>1, <4>2, <4>3 DEF AccountsInv, SavedOpensAccount
    <3> QED
      BY <1>1, <1>3, <2>1, <2>2, <2>5, <3>1, <3>2, ReturnKeeps
  <2> QED
    BY <1>8, <2>3, <2>4, <2>5 DEF ResetReturns, ClearSavedCredentials
<1>9. CASE ChangeReturns
  <2>1. /\ stack # <<>> /\ Innermost.do \in {"change", "look"} /\ Innermost.got # NoAnswer
        /\ stack' = Under
        /\ UNCHANGED <<database, server, wire, up, saved, signedIn, counted, history>>
    BY <1>9 DEF ChangeReturns
  <2>2. SavedOpensAccount'
    BY <1>4, <2>1
  <2>3. ~ (Innermost.do \in SignsInOrOut /\ Innermost.got = "ok")
    BY <2>1 DEF SignsInOrOut
  <2> QED
    BY <1>1, <1>3, <2>1, <2>2, <2>3, ReturnKeeps
<1>10. CASE GenresReturn
  <2> DEFINE told == {Innermost.user} \ Publishers
  <2>1. /\ stack # <<>> /\ Innermost.do = "genres" /\ Innermost.got # NoAnswer
        /\ stack' = Under /\ promised' = promised \cup told
        /\ untold' = IF Innermost.got = "late" THEN untold \cup told ELSE untold
        /\ UNCHANGED <<database, server, wire, up, saved, signedIn, counted>>
        /\ UNCHANGED <<unsure, outdated, spoiled, torn>>
    BY <1>10 DEF GenresReturn
  <2>2. Innermost.got = "late" \/ Innermost.user \in genres \cup untold \cup Publishers
    BY <1>2, <2>1 DEF AccountsInv, CallTrue, Waits, NoAnswer
  <2>3. GenresReachServer'
    BY <2>1, <2>2 DEF AccountsInv, GenresReachServer
  <2>4. SavedOpensAccount'
    BY <1>4, <2>1
  <2>5. ~ (Innermost.do \in SignsInOrOut /\ Innermost.got = "ok")
    BY <2>1 DEF SignsInOrOut
  <2>6. untold \subseteq untold'
    BY <2>1
  <2> QED
    BY <1>1, <2>1, <2>3, <2>4, <2>5, <2>6, ReturnKeeps
<1>11. CASE LogoutReturns
  <2>1. /\ stack # <<>> /\ Innermost.do = "logout" /\ Innermost.got # NoAnswer
        /\ stack' = Under /\ current' = Nobody
        /\ UNCHANGED <<database, server, wire, up, saved, recovery, counted, history>>
    BY <1>11 DEF LogoutReturns
  <2>2. ~ unsure => Innermost.got = "ok"
    BY <1>2, <2>1 DEF AccountsInv, CallTrue, SessionKnown
  <2>3. SavedOpensAccount'
    BY <1>4, <2>1
  <2>4. Outcome(Innermost) = Nobody
    BY <2>1 DEF Outcome
  <2> QED
    BY <1>1, <1>3, <2>1, <2>2, <2>3, <2>4, ReturnKeeps DEF SignsInOrOut
<1> QED
  BY <1>5, <1>6, <1>7, <1>8, <1>9, <1>10, <1>11

LEMMA TimesOutKeeps ==
  ASSUME AccountsInv, NEW i \in DOMAIN stack, TimesOut(i) PROVE AccountsInv'
<1>1. /\ stack[i].got = NoAnswer /\ faults < MaxFaults /\ faults' = faults + 1
      /\ stack' = [stack EXCEPT ![i].got = "late"]
      /\ wire' = [k \in DOMAIN wire |->
                    IF wire[k].at = i THEN [wire[k] EXCEPT !.at = 0] ELSE wire[k]]
      /\ unsure' = (unsure \/ stack[i].do \in SignsInOrOut)
      /\ UNCHANGED <<account, profile, genres, session, todo, up, saved, current, recovery>>
      /\ UNCHANGED <<calls, outdated, spoiled, promised, untold, torn>>
  BY DEF TimesOut, database, server, signedIn, others
<1>2. /\ Linked(wire', stack') /\ Len(wire') = Len(wire) /\ Len(stack') = Len(stack)
      /\ DOMAIN wire' = DOMAIN wire /\ DOMAIN stack' = DOMAIN stack
      /\ \A k \in DOMAIN wire : wire'[k].do = wire[k].do /\ wire'[k].user = wire[k].user
      /\ \A k \in DOMAIN wire : wire'[k].at # wire[k].at => wire[k].do = stack[i].do
      /\ \A k \in DOMAIN stack : stack'[k].do = stack[k].do /\ (k # i => stack'[k] = stack[k])
      /\ stack'[i].got = "late"
  <2>1. Linked(wire, stack)
    BY DEF AccountsInv, LinkInv
  <2>2. wire' = NobodysFor(wire, i) /\ stack' = Late(stack, i)
    BY <1>1 DEF NobodysFor, Late
  <2>3. stack[i].got = NoAnswer
    BY <1>1
  <2> QED
    BY <2>1, <2>2, <2>3, LinkedGiveUp
<1>3. Registered' = Registered
  BY <1>1 DEF Registered
<1>4. LinkInv'
  BY <1>1, <1>2 DEF AccountsInv, LinkInv, OneLogin
<1>5. TypeOK'
  BY <1>1, <1>2, <1>3, AccountsAssumption DEF AccountsInv, TypeOK
<1>6. InRegistration'
  <2>1. wire # <<>> => /\ wire' # <<>> /\ Head(wire').do = Head(wire).do
                       /\ Head(wire').user = Head(wire).user
    <3> SUFFICES ASSUME wire # <<>>
                 PROVE  /\ wire' # <<>> /\ Head(wire').do = Head(wire).do
                        /\ Head(wire').user = Head(wire).user
      OBVIOUS
    <3>1. Head(wire) = wire[1] /\ 1 \in DOMAIN wire /\ Len(wire) >= 1 /\ Len(wire) \in Nat
      BY LinkedFacts DEF AccountsInv, LinkInv
    <3>2. wire' # <<>>
      BY <1>2, <3>1
    <3>3. Head(wire') = wire'[1]
      BY <1>2, <3>2, LinkedFacts
    <3> QED
      BY <1>2, <3>1, <3>2, <3>3
  <2> QED
    BY <1>1, <2>1 DEF AccountsInv, InRegistration
<1>7. NothingWhenDown'
  <2>1. wire = <<>> => wire' = <<>>
    <3>1. wire' \in Seq(Requests)
      BY <1>2 DEF Linked
    <3> QED
      BY <1>2, <3>1, EmptySeq
  <2> QED
    BY <1>1, <2>1 DEF AccountsInv, NothingWhenDown
<1>8. CallTrue'
  <2>1. "late" \notin Answers
    BY DEF Answers
  <2>2. \A k \in DOMAIN stack : k # i => stack'[k] = stack[k]
    BY <1>2
  <2> QED
    BY <1>1, <1>2, <1>3, <2>1, <2>2 DEF AccountsInv, CallTrue
<1>9. SessionKnown'
  <2> SUFFICES ASSUME ~ unsure, stack[i].do \notin SignsInOrOut PROVE SessionKnown'
    BY <1>1 DEF SessionKnown
  <2>1. i \notin Settled /\ i \notin Settled'
    BY <1>2 DEF Settled
  <2>2. Settled' = Settled /\ \A k \in Settled : stack'[k] = stack[k]
    BY <1>2, <2>1 DEF Settled
  <2>3. \A k \in DOMAIN stack' : stack'[k].do = "logout" => stack'[k].got # "late"
    BY <1>2 DEF AccountsInv, SessionKnown, SignsInOrOut
  <2>4. \A k \in DOMAIN wire' : wire'[k].do \in SignsInOrOut => wire'[k].at # 0
    BY <1>2 DEF AccountsInv, SessionKnown
  <2> QED
    BY <1>1, <2>2, <2>3, <2>4 DEF AccountsInv, SessionKnown
<1>10. PublisherHasProfile' /\ GenresReachServer'
  BY <1>1, <1>3 DEF AccountsInv, PublisherHasProfile, GenresReachServer
<1>11. SavedOpensAccount'
  <2>1. NoAnswer # "ok"
    BY DEF NoAnswer
  <2> QED
    BY <1>1, <1>2, <1>3, <2>1, SavedKept DEF AccountsInv
<1> QED
  BY <1>1, <1>4, <1>5, <1>6, <1>7, <1>8, <1>9, <1>10, <1>11 DEF AccountsInv

LEMMA LoseKeeps ==
  ASSUME AccountsInv, Lose PROVE AccountsInv'
<1>1. /\ faults < MaxFaults /\ faults' = faults + 1 /\ up' = FALSE /\ wire' = <<>>
      /\ stack' = [i \in DOMAIN stack |-> IF stack[i].got = NoAnswer
                     THEN [stack[i] EXCEPT !.got = "late"] ELSE stack[i]]
      /\ session' = Nobody /\ todo' = Nobody
      /\ torn' = torn \cup ({todo} \ {Nobody}) /\ unsure' = TRUE
      /\ UNCHANGED <<account, profile, genres, saved, current, recovery>>
      /\ UNCHANGED <<calls, outdated, spoiled, promised, untold>>
  BY DEF Lose, database, signedIn
<1>2. /\ Linked(wire', stack') /\ Len(stack') = Len(stack) /\ DOMAIN stack' = DOMAIN stack
      /\ \A i \in DOMAIN stack : /\ stack'[i].do = stack[i].do
                                 /\ stack[i].got # NoAnswer => stack'[i] = stack[i]
                                 /\ stack[i].got = NoAnswer => stack'[i].got = "late"
  BY <1>1, LinkedLose DEF AccountsInv, LinkInv
<1>3. Registered' = Registered
  BY <1>1 DEF Registered
<1>4. LinkInv'
  BY <1>1, <1>2 DEF AccountsInv, LinkInv, OneLogin
<1>5. TypeOK'
  <2>1. Len(wire') = 0 /\ faults' \in 0 .. MaxFaults
    BY <1>1, AccountsAssumption DEF AccountsInv, TypeOK
  <2>2. Len(wire') <= MaxWire /\ Len(stack') <= MaxDepth
    BY <1>2, <2>1, AccountsAssumption DEF AccountsInv, TypeOK
  <2> QED
    BY <1>1, <1>3, <2>1, <2>2 DEF AccountsInv, TypeOK
<1>6. InRegistration' /\ NothingWhenDown' /\ SessionKnown'
  BY <1>1 DEF InRegistration, NothingWhenDown, SessionKnown
<1>7. CallTrue'
  <2>1. "late" \notin Answers
    BY DEF Answers
  <2> QED
    BY <1>1, <1>2, <1>3, <2>1 DEF AccountsInv, CallTrue
<1>8. PublisherHasProfile' /\ GenresReachServer'
  BY <1>1, <1>3, RowFacts DEF AccountsInv, PublisherHasProfile, GenresReachServer
<1>9. SavedOpensAccount'
  <2>1. NoAnswer # "ok"
    BY DEF NoAnswer
  <2> QED
    BY <1>1, <1>2, <1>3, <2>1, SavedKept DEF AccountsInv
<1> QED
  BY <1>1, <1>4, <1>5, <1>6, <1>7, <1>8, <1>9 DEF AccountsInv

\* Steps after which only up, if anything, is another.
LEMMA StillKeeps ==
  ASSUME AccountsInv, up' = up \/ up' = TRUE,
         UNCHANGED <<database, server, wire, saved, stack, signedIn, counted, history>>
  PROVE  AccountsInv'
<1> USE DEF database, server, signedIn, counted, history, others
<1>1. Registered' = Registered /\ Settled' = Settled
  BY DEF Registered, Settled
<1>2. LinkInv' /\ InRegistration' /\ NothingWhenDown' /\ CallTrue'
  BY <1>1 DEF AccountsInv, LinkInv, OneLogin, InRegistration, NothingWhenDown, CallTrue
<1>3. TypeOK' /\ SessionKnown'
  BY <1>1 DEF AccountsInv, TypeOK, SessionKnown
<1>4. PublisherHasProfile' /\ GenresReachServer' /\ SavedOpensAccount'
  BY <1>1 DEF AccountsInv, PublisherHasProfile, GenresReachServer, SavedOpensAccount
<1> QED
  BY <1>2, <1>3, <1>4 DEF AccountsInv

-----------------------------------------------------------------------------
LEMMA AccountsInit == Init => AccountsInv
<1> SUFFICES ASSUME Init PROVE AccountsInv
  OBVIOUS
<1>1. /\ wire \in Seq(Requests) /\ DOMAIN wire = {} /\ Len(wire) = 0
      /\ stack \in Seq(Waits) /\ DOMAIN stack = {} /\ Len(stack) = 0
  BY DEF Init
<1>2. Registered = {} /\ Settled = {}
  BY <1>1 DEF Init, Registered, Settled
<1>3. LinkInv
  BY <1>1, <1>2 DEF Init, LinkInv, Linked, OneLogin
<1>4. TypeOK
  BY <1>1, <1>2, AccountsAssumption DEF Init, TypeOK
<1>5. InRegistration /\ NothingWhenDown /\ CallTrue /\ SessionKnown
  BY <1>1, <1>2 DEF Init, InRegistration, NothingWhenDown, CallTrue, SessionKnown
<1>6. PublisherHasProfile /\ GenresReachServer /\ SavedOpensAccount
  BY <1>2 DEF Init, PublisherHasProfile, GenresReachServer, SavedOpensAccount
<1> QED
  BY <1>3, <1>4, <1>5, <1>6 DEF Init, AccountsInv

LEMMA AccountsStep == AccountsInv /\ [Next]_vars => AccountsInv'
<1> SUFFICES ASSUME AccountsInv, [Next]_vars PROVE AccountsInv'
  OBVIOUS
<1>1. CASE Pages
  BY <1>1, Sends, PagesKeep DEF Pages
<1>2. CASE Server
  BY <1>2, LoginKeeps, ProbeAndLogoutKeep, RegisterKeeps, ProfileKeeps, PasswordKeeps,
     GenresKeep DEF Server
<1>3. CASE Returns
  BY <1>3, ReturnsKeep, TimesOutKeeps DEF Returns
<1>4. CASE Lose
  BY <1>4, LoseKeeps
<1>5. CASE Reconnect
  BY <1>5, StillKeeps DEF Reconnect
<1>6. CASE UNCHANGED vars
  BY <1>6, StillKeeps DEF vars
<1> QED
  BY <1>1, <1>2, <1>3, <1>4, <1>5, <1>6 DEF Next

LEMMA AccountsInvariant == Spec => []AccountsInv
BY AccountsInit, AccountsStep, PTL DEF Spec

\* A publisher has a profile unless the server died between the two INSERTs, and
\* the genres a reader was told are kept are kept unless they went out on another
\* user's connection or without an answer, with any number of users and of calls
\* nested in each other, and whatever is lost, late or typed meanwhile.
THEOREM AccountsAreComplete == Spec => []AccountsComplete
<1>1. AccountsInv => AccountsComplete
  BY DEF AccountsInv, AccountsComplete
<1> QED
  BY <1>1, AccountsInvariant, PTL

\* At rest the client and the server agree on whose the connection is, unless
\* a sign-in or sign-out went unanswered, two overlapped, or the connection was
\* replaced, and none has put it right since.
THEOREM SessionsAgree == Spec => []SessionAgrees
<1>1. AccountsInv => SessionAgrees
  <2> SUFFICES ASSUME AccountsInv, stack = <<>>, ~ unsure PROVE session = current
    BY DEF SessionAgrees, AccountsInv, LinkInv
  <2>1. Settled = {}
    BY DEF Settled
  <2> QED
    BY <2>1 DEF AccountsInv, SessionKnown
<1> QED
  BY <1>1, AccountsInvariant, PTL

\* What "remember me" has saved opens the account, through resets on their page
\* and until the password changes elsewhere.
THEOREM SavedOpens == Spec => []SavedOpensAccount
<1>1. AccountsInv => SavedOpensAccount
  BY DEF AccountsInv
<1> QED
  BY <1>1, AccountsInvariant, PTL

\* Nobody's password changes but by a reset or by its owner's request: a second
\* registration of a name, or the retry of one that timed out, takes nothing.
THEOREM RegistrationsAreKept == Spec => RegistrationKept
<1> DEFINE Kept ==
      \A u \in Registered :
        account'[u] # account[u] =>
          Head(wire).do = "reset" \/ (Head(wire).do = "change" /\ session = u)
<1>1. AccountsInv /\ [Next]_vars => [Kept]_vars
  <2> SUFFICES ASSUME AccountsInv, Next PROVE Kept
    OBVIOUS
  <2>1. CASE UNCHANGED account
    BY <2>1
  <2>2. CASE HandleRegister
    <3>1. /\ wire # <<>> /\ Head(wire).do = "register"
          /\ account' = account \/ (Head(wire).user \notin Registered /\
               account' = [account EXCEPT ![Head(wire).user] = Head(wire).pw])
      BY <2>2 DEF HandleRegister, RegisterAccount, Handle
    <3>2. Head(wire).user \in User /\ Head(wire).pw \in Password
      BY <3>1, LinkedFacts DEF AccountsInv, LinkInv, Fit, WithPassword, Probes
    <3>3. CASE /\ Head(wire).user \notin Registered
               /\ account' = [account EXCEPT ![Head(wire).user] = Head(wire).pw]
      <4>1. \A v \in User \ {Head(wire).user} : account'[v] = account[v]
        BY <3>2, <3>3, WriteRow DEF AccountsInv
      <4> QED
        BY <3>3, <4>1 DEF Registered
    <3> QED
      BY <3>1, <3>3
  <2>3. CASE HandleResetPassword
    BY <2>3 DEF HandleResetPassword, Handle
  <2>4. CASE HandleChangePassword
    <3>1. /\ wire # <<>> /\ Head(wire).do = "change"
          /\ \/ UNCHANGED account
             \/ /\ session # Nobody
                /\ account' = [account EXCEPT ![session] = Head(wire).pw]
      BY <2>4 DEF HandleChangePassword, Handle, SetPassword
    <3>2. session # Nobody => session \in User
      BY RowFacts DEF AccountsInv
    <3>3. Head(wire).pw \in Password
      BY <3>1, LinkedFacts DEF AccountsInv, LinkInv, Fit, WithPassword
    <3>4. CASE session # Nobody /\ account' = [account EXCEPT ![session] = Head(wire).pw]
      <4>1. \A v \in User \ {session} : account'[v] = account[v]
        BY <3>2, <3>3, <3>4, WriteRow DEF AccountsInv
      <4> QED
        BY <3>1, <4>1 DEF Registered
    <3> QED
      BY <2>1, <3>1, <3>4
  <2>5. Next => \/ UNCHANGED account
                \/ HandleRegister \/ HandleResetPassword \/ HandleChangePassword
    <3>1. Pages \/ Lose \/ Reconnect => UNCHANGED account
      BY DEF Pages, SetRememberMe, Login, Register, ValidateUsername, StashSecurityAnswer,
             ResetPassword, ChangePassword, SaveGenreSelection, SaveGenresOffline, Logout,
             LogoutOffline, Send, SendOn, Lose, Reconnect, database
    <3>2. Returns => UNCHANGED account
      BY DEF Returns, LoginReturns, ProbeReturns, RegisterReturns, ResetReturns,
             ChangeReturns, GenresReturn, LogoutReturns, TimesOut, SendOn, database
    <3>3. HandleLogin \/ HandleProbe \/ SaveProfile \/ HandleSaveFavoriteGenres
            \/ HandleLogout => UNCHANGED account
      BY DEF HandleLogin, HandleProbe, SaveProfile, HandleSaveFavoriteGenres,
             HandleLogout, database
    <3> QED
      BY <3>1, <3>2, <3>3 DEF Next, Server
  <2> QED
    BY <2>1, <2>2, <2>3, <2>4, <2>5
<1> QED
  BY <1>1, AccountsInvariant, PTL DEF Spec, RegistrationKept

=============================================================================
