----------------------------- MODULE TcpProofs -----------------------------
(***************************************************************************)
(* The services in TCP mode, for any number of clients, any sizes of       *)
(* messages, buffers and kernel windows, and any splitting of reads and    *)
(* writes: first clients that do as they please, then clients that send    *)
(* their request and wait for the answer, whichever way calls fail.        *)
(***************************************************************************)
EXTENDS TcpServices, FiniteSetTheorems, SequenceTheorems, TLAPS

NetType == [req : 0..Window, res : Seq(Replies), left : BOOLEAN, closed : BOOLEAN]
ConnType == [st : {"none", "read", "write", "freed"}, rlen : 0..BufLen,
             wbuf : Replies \cup {Nil}, wpos : 0..ResLen]
CallType == [st : {"none", "connect", "write", "read", "freed"}, to : {"id", "attend", Nil},
             arg : Client \cup {Nil}, ctx : Call \cup {Nil}, wpos : 0..ReqLen,
             rbuf : Seq(Replies)]
PeerType == [st : {"new", "talking", "gone"}, sent : Nat, got : Seq(Replies)]

Types ==
  /\ net \in [Conn -> NetType]
  /\ conn \in [Conn -> ConnType]
  /\ uc \in [Call -> CallType]
  /\ ctx \in [Call -> Context \cup {Nil}]
  /\ peer \in [Client -> PeerType]
  /\ over \in {"no", "wild", "sigpipe"}

(* What is on its way fits, and there is something to write.               *)
Sizes ==
  /\ \A k \in Conn : /\ Len(net[k].res) <= Window
                     /\ conn[k].st = "write" => conn[k].wbuf # Nil
  /\ \A u \in Call : Len(uc[u].rbuf) < ResLen

Used(u) == uc[u].st # "none"

(* Calls are numbered in the order in which they are made, all for the     *)
(* client itself; the second one of a request takes over the context of    *)
(* the first, which has been freed, and no other call has it.              *)
Calls ==
  \A u \in Call :
    IF Used(u)
    THEN /\ \A j \in 1..u[2] : Used(<<u[1], j>>)
         /\ Asks[u[1]] = "lookup"
         /\ uc[u].to \in {"id", "attend"}
         /\ uc[u].arg = u[1]
         /\ uc[u].to = "id" => uc[u].ctx = u
         /\ uc[u].to = "attend" =>
              /\ u[1] \in IdKeys
              /\ uc[u].ctx \in Call /\ uc[u].ctx[1] = u[1]
              /\ uc[uc[u].ctx].st = "freed" /\ uc[uc[u].ctx].to = "id"
              /\ \A v \in Call : Used(v) /\ uc[v].to = "attend" /\ uc[v].ctx = uc[u].ctx => v = u
    ELSE uc[u].to = Nil /\ conn[u].st = "none"

(* The context of an open call is that of its client's request.            *)
Contexts ==
  \A u \in Open :
    /\ ctx[uc[u].ctx] # Nil
    /\ ctx[uc[u].ctx].stage = uc[u].to
    /\ ctx[uc[u].ctx].name = u[1]
    /\ uc[u].to = "attend" => ctx[uc[u].ctx].id = u[1]

(* All that is sent back on a call is the answer to that call.             *)
AllOf(s, r) == \A i \in 1..Len(s) : s[i] = r

Answers ==
  \A u \in Call :
    IF Used(u)
    THEN /\ AllOf(net[u].res, ServiceReply(u))
         /\ AllOf(uc[u].rbuf, ServiceReply(u))
         /\ conn[u].st = "write" => conn[u].wbuf = ServiceReply(u)
    ELSE net[u].res = << >>

(* The handler runs once for the request and at most once for the piece    *)
(* that may follow it.                                                     *)
Ids(c) == {u \in Call : u[1] = c /\ Used(u) /\ uc[u].to = "id"}
Extra == IF ClientsSendMore THEN 1 ELSE 0

Counts ==
  \A c \in Client :
    /\ conn[c].rlen + net[c].req <= peer[c].sent
    /\ peer[c].sent <= Length(c) + Extra
    /\ conn[c].rlen < Length(c) => Ids(c) = {}
    /\ conn[c].rlen = Length(c) => \A u, v \in Ids(c) : u = v
    /\ \A u, v, w \in Ids(c) : u = v \/ u = w \/ v = w

Core == Types /\ Sizes /\ Calls /\ Contexts /\ Answers /\ Counts

(* When no call fails, request and response of each call pass whole: t, k  *)
(* and z are its streams and its two ends.                                 *)
Written(k) == IF k.st = "write" THEN k.wpos ELSE IF k.st = "freed" THEN ResLen ELSE 0

Passing(t, k, z) ==
  /\ t.left => z.st = "freed"
  /\ t.closed => k.st = "freed"
  /\ z.st = "none" => z.wpos = 0
  /\ z.wpos = ReqLen <=> z.st \in {"read", "freed"}
  /\ k.st \in {"none", "read"} => k.rlen + t.req = z.wpos
  /\ k.st \in {"write", "freed"} => z.wpos = ReqLen
  /\ k.st = "write" => k.wpos < ResLen
  /\ z.st # "freed" => Len(t.res) + Len(z.rbuf) = Written(k)

Flow == \A u \in Call : Passing(net[u], conn[u], uc[u])

(* Each context is the context of an open call.                            *)
NoLeaks == \A x \in Call : ctx[x] # Nil => \E u \in Open : uc[u].ctx = x

FlowInv == Core /\ Flow /\ NoLeaks
-----------------------------------------------------------------------------
(* Sequences of one and the same piece                                     *)

LEMMA Empty == ASSUME NEW S, NEW r
               PROVE  << >> \in Seq(S) /\ Len(<< >>) = 0 /\ AllOf(<< >>, r)
BY DEF AllOf

LEMMA Joined ==
  ASSUME NEW S, NEW s \in Seq(S), NEW t \in Seq(S), NEW r
  PROVE  /\ s \o t \in Seq(S)
         /\ Len(s \o t) = Len(s) + Len(t)
         /\ AllOf(s, r) /\ AllOf(t, r) => AllOf(s \o t, r)
         /\ s # << >> => Head(s \o t) = Head(s)
         /\ s = << >> => s \o t = t
         /\ t = << >> => s \o t = s
BY DEF AllOf

LEMMA Filled ==
  ASSUME NEW S, NEW r \in S, NEW n \in Nat
  PROVE  /\ [i \in 1..n |-> r] \in Seq(S)
         /\ Len([i \in 1..n |-> r]) = n
         /\ AllOf([i \in 1..n |-> r], r)
<1> DEFINE f == [i \in 1..n |-> r]
<1>1. f \in [1..n -> S] /\ \A i \in 1..n : f[i] = r
  OBVIOUS
<1> HIDE DEF f
<1>2. f \in Seq(S)
  BY <1>1, SeqDef
<1>3. Len(f) = n
  BY <1>1, <1>2, LenProperties
<1>4. AllOf(f, r)
  BY <1>1, <1>3 DEF AllOf
<1>. QED
  BY <1>2, <1>3, <1>4 DEF f

LEMMA Cut ==
  ASSUME NEW S, NEW s \in Seq(S), NEW n \in 1..Len(s), NEW r
  PROVE  /\ SubSeq(s, 1, n) \in Seq(S) /\ Len(SubSeq(s, 1, n)) = n
         /\ SubSeq(s, n + 1, Len(s)) \in Seq(S)
         /\ Len(SubSeq(s, n + 1, Len(s))) = Len(s) - n
         /\ AllOf(s, r) => AllOf(SubSeq(s, 1, n), r) /\ AllOf(SubSeq(s, n + 1, Len(s)), r)
<1>. n \in Nat /\ n >= 1 /\ n <= Len(s) /\ Len(s) \in Nat
  OBVIOUS
<1>1. SubSeq(s, 1, n) \in Seq(S) /\ Len(SubSeq(s, 1, n)) = n
      /\ \A i \in 1..n : SubSeq(s, 1, n)[i] = s[i]
  OBVIOUS
<1>2. SubSeq(s, n + 1, Len(s)) \in Seq(S) /\ Len(SubSeq(s, n + 1, Len(s))) = Len(s) - n
      /\ \A i \in 1..(Len(s) - n) : SubSeq(s, n + 1, Len(s))[i] = s[i + n]
  OBVIOUS
<1>3. AllOf(s, r) => AllOf(SubSeq(s, 1, n), r)
  BY <1>1 DEF AllOf
<1>4. AllOf(s, r) => AllOf(SubSeq(s, n + 1, Len(s)), r)
  BY <1>2 DEF AllOf
<1>. QED
  BY <1>1, <1>2, <1>3, <1>4

LEMMA First ==
  ASSUME NEW S, NEW s \in Seq(S), NEW r, AllOf(s, r), Len(s) > 0
  PROVE  Head(s) = r
BY DEF AllOf

LEMMA Longer ==
  ASSUME NEW s \in Seq(Replies), NEW t \in Seq(Replies), NEW r, AllOf(s, r), AllOf(t, r)
  PROVE  s \o t \in Seq(Replies) /\ Len(s \o t) = Len(s) + Len(t) /\ AllOf(s \o t, r)
BY Joined
-----------------------------------------------------------------------------
(* The steps, one for each way through a callback                          *)

Took(k, n) ==
  /\ conn[k].st = "read" /\ Alive(k)
  /\ n \in 1..net[k].req /\ conn[k].rlen + n <= BufLen
  /\ net' = [net EXCEPT ![k].req = @ - n]
  /\ UNCHANGED peer

ReadPart(k, n) ==
  /\ Took(k, n)
  /\ ~Complete(k, conn[k].rlen + n)
  /\ conn' = [conn EXCEPT ![k].rlen = @ + n]
  /\ UNCHANGED <<uc, ctx, over>>

AskId(c, n) ==
  /\ Took(c, n)
  /\ Complete(c, conn[c].rlen + n)
  /\ Asks[c] = "lookup"
  /\ uc' = [uc EXCEPT ![NextCall(c)] = StartUpstream("id", c, NextCall(c))]
  /\ ctx' = [ctx EXCEPT ![NextCall(c)] = [stage |-> "id", name |-> c, id |-> Nil]]
  /\ conn' = [conn EXCEPT ![c].rlen = @ + n]
  /\ UNCHANGED over

(* The answers that a handler gives at once.                               *)
Direct(k) ==
  IF k \in Call THEN {ServiceReply(k)}
  ELSE IF Asks[k] = "lookup" THEN {BadGateway} ELSE {L!Expected(k)}

ReplyNow(k, n, r) ==
  /\ Took(k, n)
  /\ Complete(k, conn[k].rlen + n)
  /\ r \in Direct(k)
  /\ conn' = [conn EXCEPT ![k].st = "write", ![k].wbuf = r, ![k].wpos = 0]
  /\ UNCHANGED <<uc, ctx, over>>

Close(k) ==
  /\ \/ conn[k].st = "read" /\ IF net[k].req = 0 THEN net[k].left ELSE conn[k].rlen = BufLen
     \/ conn[k].st = "write" /\ net[k].left
  /\ ConnFree(k)
  /\ UNCHANGED <<uc, ctx, over, peer>>

WriteOut(k, n) ==
  /\ conn[k].st = "write"
  /\ n \in 1..(ResLen - conn[k].wpos)
  /\ Len(net[k].res) + n <= Window
  /\ conn' = [conn EXCEPT ![k].wpos = @ + n,
                          ![k].st = IF conn[k].wpos + n = ResLen THEN "freed" ELSE @]
  /\ net' = [net EXCEPT ![k].res = @ \o [i \in 1..n |-> conn[k].wbuf],
                        ![k].closed = conn[k].wpos + n = ResLen]
  /\ UNCHANGED <<uc, ctx, over, peer>>

Killed == over' = "sigpipe" /\ UNCHANGED <<net, conn, uc, ctx, peer>>

Fail(u) ==
  /\ u \in Open /\ net[u].closed
  /\ uc[u].st = "read" => net[u].res = << >>
  /\ UpstreamFailed(u)
  /\ UNCHANGED peer

Connected(u) ==
  /\ uc[u].st = "connect"
  /\ uc' = [uc EXCEPT ![u].st = "write"]
  /\ UNCHANGED <<net, conn, ctx, over, peer>>

SendPart(u, n) ==
  /\ uc[u].st = "write"
  /\ n \in 1..(ReqLen - uc[u].wpos)
  /\ net[u].req + n <= Window
  /\ net' = [net EXCEPT ![u].req = @ + n]
  /\ uc' = [uc EXCEPT ![u].wpos = @ + n,
                      ![u].st = IF uc[u].wpos + n = ReqLen THEN "read" ELSE @]
  /\ UNCHANGED <<conn, ctx, over, peer>>

GetPart(u, n) ==
  /\ uc[u].st = "read"
  /\ n \in 1..Len(net[u].res)
  /\ Len(uc[u].rbuf) + n < ResLen
  /\ net' = [net EXCEPT ![u].res = SubSeq(@, n + 1, Len(@))]
  /\ uc' = [uc EXCEPT ![u].rbuf = @ \o SubSeq(net[u].res, 1, n)]
  /\ UNCHANGED <<conn, ctx, over, peer>>

GotAll(u) ==
  /\ uc[u].st = "read"
  /\ net' = [net EXCEPT ![u].res = << >>, ![u].left = TRUE]
  /\ UNCHANGED peer

(* The answers that a client may get when call u has been answered.        *)
Final(u) == {L!Expected(u[1])} \cup IF UpstreamFails THEN {BadGateway} ELSE {}

Answer(u, r) ==
  /\ GotAll(u)
  /\ r \in Final(u)
  /\ StartResponse(u[1], r)
  /\ ctx' = [ctx EXCEPT ![uc[u].ctx] = Nil]
  /\ uc' = [uc EXCEPT ![u].st = "freed"]

AskAttend(u) ==
  /\ GotAll(u)
  /\ uc[u].to = "id" /\ u[1] \in IdKeys
  /\ ctx' = [ctx EXCEPT ![u].stage = "attend", ![u].id = u[1]]
  /\ uc' = [uc EXCEPT ![u].st = "freed", ![NextCall(u[1])] = StartUpstream("attend", u[1], u)]
  /\ over' = IF conn[u[1]].st = "freed" THEN "wild" ELSE over
  /\ UNCHANGED conn

Branch ==
  \/ \E s \in {"frontend", "id", "attend"} : OnAccept(s)
  \/ \E k \in Conn : \/ \E n \in Nat : ReadPart(k, n) \/ WriteOut(k, n)
                     \/ \E n \in Nat : \E r \in Replies : ReplyNow(k, n, r)
                     \/ Close(k)
  \/ \E c \in Client : \/ \E n \in Nat : AskId(c, n)
                       \/ ClientConnect(c) \/ ClientSend(c) \/ ClientRead(c) \/ ClientLeave(c)
  \/ \E u \in Call : \/ Fail(u) \/ Connected(u) \/ AskAttend(u) \/ Break(u)
                     \/ \E n \in Nat : SendPart(u, n) \/ GetPart(u, n)
                     \/ \E r \in Replies : Answer(u, r)
  \/ Killed
  \/ UNCHANGED vars

LEMMA Pairs ==
  /\ \A u \in Call : /\ u = <<u[1], u[2]>> /\ u[1] \in Client /\ u[2] \in 1..4
                     /\ u \in Conn /\ u[1] \in Conn /\ u \notin Client /\ u # u[1]
  /\ \A c \in Client : \A j \in 1..4 : <<c, j>> \in Call /\ <<c, j>>[1] = c /\ <<c, j>>[2] = j
  /\ \A c \in Client : c \in Conn /\ c \notin Call
BY DistinctAssumption DEF Call, Conn, MaxCalls

LEMMA GoodReplies ==
  /\ BadGateway \in Replies
  /\ \A s \in {200, 400, 404, 502} : Reply(s, NoBody) \in Replies
  /\ \A c \in Client : L!Expected(c) \in Replies
  /\ \A c \in Client : HandleId(c) \in Replies /\ HandleAttend(c) \in Replies
  /\ Nil \notin Replies
<1>1. NoBody \in Body /\ NoBody = [name |-> Nil, id |-> Nil, att |-> Nil]
  BY DEF Body, NoBody, L!NoBody
<1>2. \A s \in {200, 400, 404, 502} : \A b \in Body : Reply(s, b) \in Replies
  BY DEF Reply, Replies
<1>3. \A c \in Client : /\ [NoBody EXCEPT !.id = c] \in Body /\ [NoBody EXCEPT !.att = c] \in Body
                        /\ [name |-> c, id |-> c, att |-> c] \in Body
  BY <1>1 DEF Body
<1>4. ASSUME NEW c \in Client
      PROVE  L!Expected(c) \in Replies
  <2>1. \/ L!Expected(c) = Reply(400, NoBody)
        \/ L!Expected(c) = Reply(404, NoBody)
        \/ L!Expected(c) = Reply(200, [name |-> c, id |-> c, att |-> c])
    BY DEF L!Expected, L!Says, Reply, NoBody
  <2>2. Reply(400, NoBody) \in Replies /\ Reply(404, NoBody) \in Replies
    BY <1>1, <1>2
  <2>3. Reply(200, [name |-> c, id |-> c, att |-> c]) \in Replies
    <3>1. PICK b \in Body : b = [name |-> c, id |-> c, att |-> c]
      BY <1>3
    <3>2. Reply(200, b) \in Replies
      BY <1>2
    <3>. QED
      BY <3>1, <3>2
  <2>. QED
    BY <2>1, <2>2, <2>3
<1>5. ASSUME NEW c \in Client
      PROVE  HandleId(c) \in Replies /\ HandleAttend(c) \in Replies
  <2>1. HandleId(c) = Reply(404, NoBody) \/ HandleId(c) = Reply(200, [NoBody EXCEPT !.id = c])
    BY DEF HandleId
  <2>2. HandleAttend(c) = Reply(404, NoBody) \/ HandleAttend(c) = Reply(200, [NoBody EXCEPT !.att = c])
    BY DEF HandleAttend
  <2>3. Reply(404, NoBody) \in Replies
    BY <1>1, <1>2
  <2>4. PICK b \in Body, d \in Body : b = [NoBody EXCEPT !.id = c] /\ d = [NoBody EXCEPT !.att = c]
    BY <1>3
  <2>5. Reply(200, b) \in Replies /\ Reply(200, d) \in Replies
    BY <1>2
  <2>. QED
    BY <2>1, <2>2, <2>3, <2>4, <2>5
<1>. QED
  BY <1>1, <1>2, <1>4, <1>5, DistinctAssumption DEF BadGateway

LEMMA ServiceReplies ==
  ASSUME Types, Calls, NEW u \in Call, Used(u)
  PROVE  /\ ServiceReply(u) \in Replies
         /\ ServiceReply(u) = IF uc[u].to = "id" THEN HandleId(u[1]) ELSE HandleAttend(u[1])
<1>1. u[1] \in Client /\ uc[u].arg = u[1]
  BY Pairs DEF Calls
<1>. QED
  BY <1>1, GoodReplies DEF ServiceReply

LEMMA NextCallIs ==
  ASSUME Types, Calls, NEW c \in Client
  PROVE  \E m \in 0..4 : /\ NextCall(c) = <<c, m + 1>>
                         /\ \A j \in 1..4 : Used(<<c, j>>) <=> j <= m
<1>1. \A i, j \in 1..4 : i <= j /\ Used(<<c, j>>) => Used(<<c, i>>)
  <2>1. SUFFICES ASSUME NEW i \in 1..4, NEW j \in 1..4, i <= j, Used(<<c, j>>)
                 PROVE  Used(<<c, i>>)
    OBVIOUS
  <2>2. PICK u : u = <<c, j>>
    OBVIOUS
  <2>3. u \in Call /\ u[1] = c /\ u[2] = j
    BY <2>1, <2>2, Pairs
  <2>4. Used(u) /\ i \in 1..u[2]
    BY <2>1, <2>2, <2>3
  <2>. QED
    BY <2>3, <2>4 DEF Calls
<1>2. PICK m \in 0..4 : \A j \in 1..4 : Used(<<c, j>>) <=> j <= m
  <2>1. CASE Used(<<c, 4>>)
    BY <1>1, <2>1
  <2>2. CASE ~Used(<<c, 4>>) /\ Used(<<c, 3>>)
    <3>1. \A j \in 1..4 : Used(<<c, j>>) <=> j <= 3
      BY <1>1, <2>2
    <3>. QED
      BY <3>1
  <2>3. CASE ~Used(<<c, 3>>) /\ Used(<<c, 2>>)
    <3>1. \A j \in 1..4 : Used(<<c, j>>) <=> j <= 2
      BY <1>1, <2>3
    <3>. QED
      BY <3>1
  <2>4. CASE ~Used(<<c, 2>>) /\ Used(<<c, 1>>)
    <3>1. \A j \in 1..4 : Used(<<c, j>>) <=> j <= 1
      BY <1>1, <2>4
    <3>. QED
      BY <3>1
  <2>5. CASE ~Used(<<c, 1>>)
    <3>1. \A j \in 1..4 : Used(<<c, j>>) <=> j <= 0
      BY <1>1, <2>5
    <3>. QED
      BY <3>1
  <2>. QED
    BY <1>1, <2>1, <2>2, <2>3, <2>4, <2>5
<1> DEFINE S == {u \in Call : u[1] = c /\ uc[u].st # "none"}
           f == [j \in 1..m |-> <<c, j>>]
<1>3. \A j \in 1..m : <<c, j>> \in S
  BY <1>2, Pairs DEF Used
<1>4. \A u \in S : u[2] \in 1..m /\ u = <<c, u[2]>>
  <2>1. SUFFICES ASSUME NEW u \in S PROVE u[2] \in 1..m /\ u = <<c, u[2]>>
    OBVIOUS
  <2>2. u = <<c, u[2]>> /\ u[2] \in 1..4
    BY <2>1, Pairs
  <2>3. Used(<<c, u[2]>>)
    BY <2>1, <2>2 DEF Used
  <2>. QED
    BY <1>2, <2>2, <2>3
<1>5. f \in Bijection(1..m, S)
  <2>1. f \in [1..m -> S]
    BY <1>3
  <2>2. \A i, j \in 1..m : f[i] = f[j] => i = j
    OBVIOUS
  <2>3. \A u \in S : \E j \in 1..m : f[j] = u
    BY <1>4
  <2>. QED
    BY <2>1, <2>2, <2>3 DEF Bijection, Injection, Surjection, IsInjective
<1>6. IsFiniteSet(1..m) /\ Cardinality(1..m) = m
  <2>1. /\ 1 \in Int /\ m \in Int
        /\ (IF 1 > m THEN 0 ELSE m - 1 + 1) = m
    OBVIOUS
  <2>2. IsFiniteSet(1..m) /\ Cardinality(1..m) = IF 1 > m THEN 0 ELSE m - 1 + 1
    BY <2>1, FS_Interval
  <2>. QED
    BY <2>1, <2>2
<1>7. Cardinality(S) = m
  BY <1>5, <1>6, FS_Bijection DEF ExistsBijection
<1>8. NextCall(c) = <<c, m + 1>>
  BY <1>7 DEF NextCall
<1>. QED
  BY <1>2, <1>8

LEMMA FreshCall ==
  ASSUME Types, Calls, NEW c \in Client, NextCall(c) \in Call
  PROVE  /\ NextCall(c)[1] = c
         /\ ~Used(NextCall(c))
         /\ \A j \in 1..NextCall(c)[2] : j = NextCall(c)[2] \/ Used(<<c, j>>)
<1>1. PICK m \in 0..4 : /\ NextCall(c) = <<c, m + 1>>
                        /\ \A j \in 1..4 : Used(<<c, j>>) <=> j <= m
  BY NextCallIs
<1>2. PICK v : v = NextCall(c)
  OBVIOUS
<1>3. v \in Call /\ v[1] = c /\ v[2] = m + 1 /\ m + 1 \in 1..4 /\ v = <<c, m + 1>>
  BY <1>1, <1>2, Pairs
<1>4. ~Used(v) /\ \A j \in 1..v[2] : j = v[2] \/ Used(<<c, j>>)
  BY <1>1, <1>3
<1>. QED
  BY <1>2, <1>3, <1>4

LEMMA NoFreshCall ==
  ASSUME Types, Calls, NEW c \in Client, NextCall(c) \notin Call
  PROVE  \A j \in 1..4 : Used(<<c, j>>)
<1>1. PICK m \in 0..4 : /\ NextCall(c) = <<c, m + 1>>
                        /\ \A j \in 1..4 : Used(<<c, j>>) <=> j <= m
  BY NextCallIs
<1>2. m + 1 \notin 1..4
  BY <1>1, Pairs
<1>. QED
  BY <1>1, <1>2

(* What a service's answer to an open call leads to.                       *)
LEMMA Outcome ==
  ASSUME Types, Calls, Contexts, NEW u \in Open, NEW x, x = uc[u].ctx,
         NEW r, r = ServiceReply(u)
  PROVE  /\ r \in Replies
         /\ r.status # 200 => r = L!Expected(u[1])
         /\ r.status = 200 /\ ctx[x].stage = "attend" =>
              Reply(200, [name |-> ctx[x].name, id |-> ctx[x].id, att |-> r.body.att]) = L!Expected(u[1])
         /\ r.status = 200 /\ ctx[x].stage = "id" =>
              /\ uc[u].to = "id" /\ x = u /\ u[1] \in IdKeys /\ r.body.id = u[1]
<1> DEFINE c == u[1]
<1>1. /\ u \in Call /\ Used(u) /\ Asks[c] = "lookup" /\ c \in Client
      /\ uc[u].to \in {"id", "attend"} /\ (uc[u].to = "attend" => c \in IdKeys)
      /\ (uc[u].to = "id" => x = u)
      /\ ctx[x].stage = uc[u].to /\ ctx[x].name = c /\ (uc[u].to = "attend" => ctx[x].id = c)
  BY Pairs DEF Calls, Contexts, Open, Used
<1>2. r \in Replies /\ r = IF uc[u].to = "id" THEN HandleId(c) ELSE HandleAttend(c)
  BY <1>1, ServiceReplies
<1>3. /\ c \in IdKeys \cap AttendKeys => L!Expected(c) = Reply(200, [name |-> c, id |-> c, att |-> c])
      /\ c \notin IdKeys \cap AttendKeys => L!Expected(c) = Reply(404, NoBody)
  BY <1>1 DEF L!Expected, L!Says, Reply, NoBody
<1>4. NoBody = [name |-> Nil, id |-> Nil, att |-> Nil]
  BY DEF NoBody, L!NoBody
<1>5. /\ c \in IdKeys => HandleId(c) = Reply(200, [NoBody EXCEPT !.id = c])
      /\ c \notin IdKeys => HandleId(c) = Reply(404, NoBody)
      /\ c \in AttendKeys => HandleAttend(c) = Reply(200, [NoBody EXCEPT !.att = c])
      /\ c \notin AttendKeys => HandleAttend(c) = Reply(404, NoBody)
  BY DEF HandleId, HandleAttend
<1>6. Reply(404, NoBody).status = 404
  BY DEF Reply
<1>7. /\ Reply(200, [NoBody EXCEPT !.id = c]).status = 200
      /\ Reply(200, [NoBody EXCEPT !.id = c]).body.id = c
      /\ Reply(200, [NoBody EXCEPT !.att = c]).status = 200
      /\ Reply(200, [NoBody EXCEPT !.att = c]).body.att = c
  BY <1>4 DEF Reply
<1> HIDE DEF c
<1>8. CASE uc[u].to = "id"
  BY <1>1, <1>2, <1>3, <1>5, <1>6, <1>7, <1>8 DEF c
<1>9. CASE uc[u].to = "attend"
  <2>1. CASE c \in AttendKeys
    <3>1. r = Reply(200, [NoBody EXCEPT !.att = c]) /\ r.status = 200 /\ r.body.att = c
      BY <1>2, <1>5, <1>7, <1>9, <2>1
    <3>2. L!Expected(c) = Reply(200, [name |-> c, id |-> c, att |-> c])
      BY <1>1, <1>3, <1>9, <2>1
    <3>3. ctx[x].stage = "attend" /\ ctx[x].name = c /\ ctx[x].id = c
      BY <1>1, <1>9
    <3>. QED
      BY <1>2, <3>1, <3>2, <3>3 DEF c
  <2>2. CASE c \notin AttendKeys
    <3>1. r = Reply(404, NoBody) /\ r.status = 404
      BY <1>2, <1>5, <1>6, <1>9, <2>2
    <3>. QED
      BY <1>2, <1>3, <2>2, <3>1 DEF c
  <2>. QED
    BY <2>1, <2>2
<1>. QED
  BY <1>1, <1>8, <1>9

LEMMA ReadBranches ==
  ASSUME Types, Calls, NEW k \in Conn, OnClientRead(k)
  PROVE  \/ \E n \in Nat : ReadPart(k, n)
         \/ \E n \in Nat : \E r \in Replies : ReplyNow(k, n, r)
         \/ Close(k)
         \/ k \in Client /\ \E n \in Nat : AskId(k, n)
<1>1. CASE /\ IF net[k].req = 0 THEN net[k].left ELSE conn[k].rlen = BufLen
           /\ ConnFree(k) /\ UNCHANGED <<uc, ctx, over, peer>>
  <2>1. Close(k)
    BY <1>1 DEF OnClientRead, Close
  <2>. QED
    BY <2>1
<1>2. CASE \E n \in 1..net[k].req :
             /\ conn[k].rlen + n <= BufLen
             /\ net' = [net EXCEPT ![k].req = @ - n]
             /\ \/ /\ ~Complete(k, conn[k].rlen + n)
                   /\ conn' = [conn EXCEPT ![k].rlen = @ + n]
                   /\ UNCHANGED <<uc, ctx, over>>
                \/ Complete(k, conn[k].rlen + n) /\ HandleRequest(k, n)
  <2>1. PICK n \in 1..net[k].req :
             /\ conn[k].rlen + n <= BufLen
             /\ net' = [net EXCEPT ![k].req = @ - n]
             /\ \/ /\ ~Complete(k, conn[k].rlen + n)
                   /\ conn' = [conn EXCEPT ![k].rlen = @ + n]
                   /\ UNCHANGED <<uc, ctx, over>>
                \/ Complete(k, conn[k].rlen + n) /\ HandleRequest(k, n)
    BY <1>2
  <2>2. n \in Nat /\ Took(k, n) /\ conn[k].st # "freed"
    BY <2>1 DEF OnClientRead, Took
  <2>3. CASE ~Complete(k, conn[k].rlen + n)
    <3>1. ReadPart(k, n)
      BY <2>1, <2>2, <2>3 DEF ReadPart
    <3>. QED
      BY <2>2, <3>1
  <2>4. CASE Complete(k, conn[k].rlen + n) /\ HandleRequest(k, n)
    <3>1. ASSUME NEW r, StartResponse(k, r), r \in Direct(k), r \in Replies, UNCHANGED <<uc, ctx>>
          PROVE  \E q \in Replies : ReplyNow(k, n, q)
      <4>1. ReplyNow(k, n, r)
        BY <2>2, <2>4, <3>1 DEF ReplyNow, StartResponse
      <4>. QED
        BY <3>1, <4>1
    <3>2. CASE k \in Client /\ Asks[k] = "lookup" /\ HandleLookup(k, n)
      <4>1. CASE AskId(k, n)
        BY <2>2, <3>2, <4>1
      <4>2. CASE StartResponse(k, BadGateway) /\ UNCHANGED <<uc, ctx>>
        <5>1. BadGateway \in Direct(k) /\ BadGateway \in Replies
          BY <3>2, Pairs, GoodReplies DEF Direct
        <5>. QED
          BY <2>2, <3>1, <4>2, <5>1
      <4>. QED
        BY <2>2, <2>4, <3>2, <4>1, <4>2 DEF HandleLookup, AskId
    <3>3. CASE /\ k \in Client /\ Asks[k] # "lookup"
               /\ StartResponse(k, Reply(IF Asks[k] = "noname" THEN 400 ELSE 404, NoBody))
               /\ UNCHANGED <<uc, ctx>>
      <4>1. L!Expected(k) = Reply(IF Asks[k] = "noname" THEN 400 ELSE 404, NoBody)
        BY <3>3 DEF L!Expected, L!Says, Reply, NoBody
      <4>2. L!Expected(k) \in Direct(k) /\ L!Expected(k) \in Replies
        BY <3>3, Pairs, GoodReplies DEF Direct
      <4>. QED
        BY <2>2, <3>1, <3>3, <4>1, <4>2
    <3>4. CASE k \in Call /\ StartResponse(k, ServiceReply(k)) /\ UNCHANGED <<uc, ctx>>
      <4>1. Used(k)
        BY <2>1, <3>4 DEF OnClientRead, Calls
      <4>2. ServiceReply(k) \in Direct(k) /\ ServiceReply(k) \in Replies
        BY <3>4, <4>1, ServiceReplies DEF Direct
      <4>. QED
        BY <2>2, <3>1, <3>4, <4>2
    <3>. QED
      BY <2>4, <3>2, <3>3, <3>4 DEF HandleRequest
  <2>. QED
    BY <2>1, <2>3, <2>4
<1>. QED
  BY <1>1, <1>2 DEF OnClientRead

LEMMA WriteBranches ==
  ASSUME Types, NEW k \in Conn, OnClientWrite(k)
  PROVE  (\E n \in Nat : WriteOut(k, n)) \/ Close(k) \/ Killed
<1>1. CASE net[k].left /\ ConnFree(k) /\ UNCHANGED over
  BY <1>1 DEF OnClientWrite, Close
<1>2. CASE net[k].left /\ over' = "sigpipe" /\ UNCHANGED <<conn, net>>
  BY <1>2 DEF OnClientWrite, Killed
<1>3. CASE \E n \in 1..(ResLen - conn[k].wpos) :
             /\ Len(net[k].res) + n <= Window
             /\ conn' = [conn EXCEPT ![k].wpos = @ + n,
                           ![k].st = IF conn[k].wpos + n = ResLen THEN "freed" ELSE @]
             /\ net' = [net EXCEPT ![k].res = @ \o [i \in 1..n |-> conn[k].wbuf],
                                   ![k].closed = conn[k].wpos + n = ResLen]
             /\ UNCHANGED over
  <2>1. PICK n \in 1..(ResLen - conn[k].wpos) :
             /\ Len(net[k].res) + n <= Window
             /\ conn' = [conn EXCEPT ![k].wpos = @ + n,
                           ![k].st = IF conn[k].wpos + n = ResLen THEN "freed" ELSE @]
             /\ net' = [net EXCEPT ![k].res = @ \o [i \in 1..n |-> conn[k].wbuf],
                                   ![k].closed = conn[k].wpos + n = ResLen]
             /\ UNCHANGED over
    BY <1>3
  <2>2. n \in Nat
    BY <2>1
  <2>3. conn[k].st = "write" /\ UNCHANGED <<uc, ctx, peer>>
    BY DEF OnClientWrite
  <2>4. WriteOut(k, n)
    BY <2>1, <2>3 DEF WriteOut
  <2>. QED
    BY <2>2, <2>4
<1>. QED
  BY <1>1, <1>2, <1>3 DEF OnClientWrite

LEMMA ResponseBranches ==
  ASSUME Types, Sizes, Calls, Contexts, Answers, NEW u \in Call, OnUpstreamRead(u)
  PROVE  \/ \E n \in Nat : GetPart(u, n)
         \/ \E r \in Replies : Answer(u, r)
         \/ AskAttend(u)
         \/ Fail(u)
<1>0. uc[u].st = "read" /\ u \in Open /\ UNCHANGED peer
  BY DEF OnUpstreamRead, Open
<1>1. CASE net[u].closed /\ net[u].res = << >> /\ UpstreamFailed(u)
  BY <1>0, <1>1 DEF Fail
<1>2. ASSUME NEW n \in 1..Len(net[u].res), NEW rbuf,
             rbuf = uc[u].rbuf \o SubSeq(net[u].res, 1, n),
             \/ /\ Len(rbuf) < ResLen
                /\ net' = [net EXCEPT ![u].res = SubSeq(@, n + 1, Len(@))]
                /\ uc' = [uc EXCEPT ![u].rbuf = rbuf]
                /\ UNCHANGED <<conn, ctx, over>>
             \/ /\ Len(rbuf) = ResLen
                /\ net' = [net EXCEPT ![u].res = << >>, ![u].left = TRUE]
                /\ HandleUpstreamResponse(u, Head(rbuf))
      PROVE  \/ GetPart(u, n)
             \/ \E r \in Replies : Answer(u, r)
             \/ AskAttend(u)
  <2>1. net[u].res \in Seq(Replies) /\ uc[u].rbuf \in Seq(Replies) /\ u[1] \in Client
    BY Pairs DEF Types, NetType, CallType
  <2>2. n \in Nat /\ n >= 1 /\ ResLen \in Nat /\ ResLen >= 1
    BY <2>1, TcpAssumption
  <2>3. AllOf(net[u].res, ServiceReply(u)) /\ AllOf(uc[u].rbuf, ServiceReply(u))
    BY <1>0 DEF Answers, Used
  <2>4. /\ SubSeq(net[u].res, 1, n) \in Seq(Replies) /\ Len(SubSeq(net[u].res, 1, n)) = n
        /\ AllOf(SubSeq(net[u].res, 1, n), ServiceReply(u))
    BY <2>1, <2>3, Cut
  <2>5. /\ rbuf \in Seq(Replies) /\ Len(rbuf) = Len(uc[u].rbuf) + n
        /\ AllOf(rbuf, ServiceReply(u))
    <3>1. PICK s, t, a : s = uc[u].rbuf /\ t = SubSeq(net[u].res, 1, n) /\ a = ServiceReply(u)
      OBVIOUS
    <3>2. s \in Seq(Replies) /\ t \in Seq(Replies) /\ AllOf(s, a) /\ AllOf(t, a) /\ Len(t) = n
      BY <2>1, <2>3, <2>4, <3>1
    <3>3. s \o t \in Seq(Replies) /\ Len(s \o t) = Len(s) + n /\ AllOf(s \o t, a)
      BY <3>2, Joined
    <3>. QED
      BY <1>2, <3>1, <3>3
  <2>6. CASE /\ Len(rbuf) < ResLen
             /\ net' = [net EXCEPT ![u].res = SubSeq(@, n + 1, Len(@))]
             /\ uc' = [uc EXCEPT ![u].rbuf = rbuf]
             /\ UNCHANGED <<conn, ctx, over>>
    BY <1>0, <1>2, <2>5, <2>6 DEF GetPart
  <2>7. CASE /\ Len(rbuf) = ResLen
             /\ net' = [net EXCEPT ![u].res = << >>, ![u].left = TRUE]
             /\ HandleUpstreamResponse(u, Head(rbuf))
    <3>1. PICK r, x : r = ServiceReply(u) /\ x = uc[u].ctx
      OBVIOUS
    <3>2. Head(rbuf) = r
      BY <2>2, <2>5, <2>7, <3>1, First
    <3>3. GotAll(u)
      BY <1>0, <2>7 DEF GotAll
    <3>4. /\ r \in Replies
          /\ r.status # 200 => r = L!Expected(u[1])
          /\ r.status = 200 /\ ctx[x].stage = "attend" =>
               Reply(200, [name |-> ctx[x].name, id |-> ctx[x].id, att |-> r.body.att]) = L!Expected(u[1])
          /\ r.status = 200 /\ ctx[x].stage = "id" =>
               /\ uc[u].to = "id" /\ x = u /\ u[1] \in IdKeys /\ r.body.id = u[1]
      BY <1>0, <3>1, Outcome
    <3>5. /\ L!Expected(u[1]) \in Final(u) /\ L!Expected(u[1]) \in Replies
          /\ UpstreamFails => BadGateway \in Final(u) /\ BadGateway \in Replies
      BY <2>1, GoodReplies DEF Final
    <3>6. HandleUpstreamResponse(u, r)
      BY <2>7, <3>2
    <3>7. ASSUME NEW q \in Replies, q \in Final(u), StartResponse(u[1], q),
                 ctx' = [ctx EXCEPT ![x] = Nil], uc' = [uc EXCEPT ![u].st = "freed"]
          PROVE  \E a \in Replies : Answer(u, a)
      BY <3>1, <3>3, <3>7 DEF Answer
    <3>8. CASE /\ r.status # 200
               /\ StartResponse(u[1], r)
               /\ ctx' = [ctx EXCEPT ![x] = Nil]
               /\ uc' = [uc EXCEPT ![u].st = "freed"]
      BY <3>4, <3>5, <3>7, <3>8
    <3>9. CASE /\ r.status = 200
               /\ ctx[x].stage = "attend"
               /\ StartResponse(u[1], Reply(200, [name |-> ctx[x].name, id |-> ctx[x].id, att |-> r.body.att]))
               /\ ctx' = [ctx EXCEPT ![x] = Nil]
               /\ uc' = [uc EXCEPT ![u].st = "freed"]
      <4>1. StartResponse(u[1], L!Expected(u[1]))
        BY <3>4, <3>9
      <4>. QED
        BY <3>5, <3>7, <3>9, <4>1
    <3>10. CASE /\ r.status = 200
                /\ ctx[x].stage = "id"
                /\ ctx' = [ctx EXCEPT ![x].stage = "attend", ![x].id = r.body.id]
                /\ uc' = [uc EXCEPT ![u].st = "freed",
                                    ![NextCall(u[1])] = StartUpstream("attend", r.body.id, x)]
                /\ over' = IF conn[u[1]].st = "freed" THEN "wild" ELSE over
                /\ UNCHANGED conn
      BY <3>3, <3>4, <3>10 DEF AskAttend
    <3>11. CASE /\ UpstreamFails
                /\ StartResponse(u[1], BadGateway)
                /\ ctx' = [ctx EXCEPT ![x] = Nil]
                /\ uc' = [uc EXCEPT ![u].st = "freed"]
      BY <3>5, <3>7, <3>11
    <3>. QED
      BY <3>1, <3>6, <3>8, <3>9, <3>10, <3>11 DEF HandleUpstreamResponse
  <2>. QED
    BY <1>2, <2>6, <2>7
<1>3. CASE \E n \in 1..Len(net[u].res) :
             LET rbuf == uc[u].rbuf \o SubSeq(net[u].res, 1, n)
             IN \/ /\ Len(rbuf) < ResLen
                   /\ net' = [net EXCEPT ![u].res = SubSeq(@, n + 1, Len(@))]
                   /\ uc' = [uc EXCEPT ![u].rbuf = rbuf]
                   /\ UNCHANGED <<conn, ctx, over>>
                \/ /\ Len(rbuf) = ResLen
                   /\ net' = [net EXCEPT ![u].res = << >>, ![u].left = TRUE]
                   /\ HandleUpstreamResponse(u, Head(rbuf))
  <2>1. PICK n \in 1..Len(net[u].res) :
             LET rbuf == uc[u].rbuf \o SubSeq(net[u].res, 1, n)
             IN \/ /\ Len(rbuf) < ResLen
                   /\ net' = [net EXCEPT ![u].res = SubSeq(@, n + 1, Len(@))]
                   /\ uc' = [uc EXCEPT ![u].rbuf = rbuf]
                   /\ UNCHANGED <<conn, ctx, over>>
                \/ /\ Len(rbuf) = ResLen
                   /\ net' = [net EXCEPT ![u].res = << >>, ![u].left = TRUE]
                   /\ HandleUpstreamResponse(u, Head(rbuf))
    BY <1>3
  <2>2. PICK rbuf : rbuf = uc[u].rbuf \o SubSeq(net[u].res, 1, n)
    OBVIOUS
  <2>3. n \in Nat
    BY Pairs DEF Types, NetType
  <2>. QED
    BY <1>2, <2>1, <2>2, <2>3
<1>. QED
  BY <1>1, <1>3 DEF OnUpstreamRead

LEMMA CallBranches ==
  ASSUME Types, NEW u \in Call, OnUpstreamConnect(u) \/ OnUpstreamWrite(u)
  PROVE  (\E n \in Nat : SendPart(u, n)) \/ Connected(u) \/ Fail(u) \/ Killed
<1>1. CASE OnUpstreamConnect(u)
  BY <1>1 DEF OnUpstreamConnect, Connected, Fail, Open
<1>2. CASE OnUpstreamWrite(u)
  <2>1. CASE net[u].closed /\ UpstreamFailed(u)
    BY <1>2, <2>1 DEF OnUpstreamWrite, Fail, Open
  <2>3. CASE net[u].closed /\ over' = "sigpipe" /\ UNCHANGED <<net, conn, uc, ctx>>
    BY <1>2, <2>3 DEF OnUpstreamWrite, Killed
  <2>2. CASE \E n \in 1..(ReqLen - uc[u].wpos) :
               /\ net[u].req + n <= Window
               /\ net' = [net EXCEPT ![u].req = @ + n]
               /\ uc' = [uc EXCEPT ![u].wpos = @ + n,
                                   ![u].st = IF uc[u].wpos + n = ReqLen THEN "read" ELSE @]
               /\ UNCHANGED <<conn, ctx, over>>
    <3>1. PICK n \in 1..(ReqLen - uc[u].wpos) :
               /\ net[u].req + n <= Window
               /\ net' = [net EXCEPT ![u].req = @ + n]
               /\ uc' = [uc EXCEPT ![u].wpos = @ + n,
                                   ![u].st = IF uc[u].wpos + n = ReqLen THEN "read" ELSE @]
               /\ UNCHANGED <<conn, ctx, over>>
      BY <2>2
    <3>2. SendPart(u, n) /\ n \in Nat
      BY <1>2, <3>1 DEF OnUpstreamWrite, SendPart
    <3>. QED
      BY <3>2
  <2>. QED
    BY <1>2, <2>1, <2>2, <2>3 DEF OnUpstreamWrite
<1>. QED
  BY <1>1, <1>2

LEMMA Branches == ASSUME Core, [Next]_vars PROVE Branch
<1>0. Types /\ Sizes /\ Calls /\ Contexts /\ Answers
  BY DEF Core
<1>1. CASE UNCHANGED vars
  BY <1>1 DEF Branch
<1>2. CASE \E s \in {"frontend", "id", "attend"} : OnAccept(s)
  BY <1>2 DEF Branch
<1>3. ASSUME NEW k \in Conn, Callback(k)
      PROVE  Branch
  <2>1. CASE OnClientRead(k)
    BY <1>0, <2>1, ReadBranches DEF Branch
  <2>2. CASE OnClientWrite(k)
    BY <1>0, <2>2, WriteBranches DEF Branch
  <2>3. CASE k \in Call /\ (OnUpstreamConnect(k) \/ OnUpstreamWrite(k))
    BY <1>0, <2>3, CallBranches DEF Branch
  <2>4. CASE k \in Call /\ OnUpstreamRead(k)
    BY <1>0, <2>4, ResponseBranches DEF Branch
  <2>. QED
    BY <1>3, <2>1, <2>2, <2>3, <2>4 DEF Callback
<1>4. CASE \E c \in Client : ClientConnect(c) \/ ClientSend(c) \/ ClientRead(c) \/ ClientLeave(c)
  BY <1>4 DEF Branch
<1>5. CASE \E u \in Call : Break(u)
  BY <1>5 DEF Branch
<1>6. CASE Rest
  BY <1>6 DEF Rest, Branch
<1>. QED
  BY <1>1, <1>2, <1>3, <1>4, <1>5, <1>6 DEF Next
-----------------------------------------------------------------------------
(* What the parts of the invariant depend on                               *)

SameCall(u) ==
  /\ uc'[u].st = "none" <=> uc[u].st = "none"
  /\ uc[u].st = "freed" => uc'[u].st = "freed"
  /\ uc'[u].to = uc[u].to /\ uc'[u].arg = uc[u].arg /\ uc'[u].ctx = uc[u].ctx
SameCalls == \A u \in Call : SameCall(u)

LEMMA ArrivedFirst ==
  ASSUME Types, Calls, NEW u \in Call, conn[u].st # "none"
  PROVE  Used(u)
BY DEF Calls

LEMMA OneContextEach ==
  ASSUME Types, Calls, NEW u \in Open, NEW v \in Open, uc[u].ctx = uc[v].ctx
  PROVE  u = v
<1>1. u \in Call /\ v \in Call /\ Used(u) /\ Used(v) /\ uc[u].st # "freed" /\ uc[v].st # "freed"
  BY DEF Open, Used
<1>2. uc[u].to \in {"id", "attend"} /\ uc[v].to \in {"id", "attend"}
  BY <1>1 DEF Calls
<1>3. \A w \in {u, v} : uc[w].to = "id" => uc[w].ctx = w
  BY <1>1 DEF Calls
<1>4. \A w \in {u, v} : uc[w].to = "attend" => uc[uc[w].ctx].st = "freed"
  BY <1>1 DEF Calls
<1>5. uc[u].to = "attend" /\ uc[v].to = "attend" => u = v
  BY <1>1 DEF Calls
<1>. QED
  BY <1>1, <1>2, <1>3, <1>4, <1>5

LEMMA ContextInUse ==
  ASSUME Types, Calls, NEW u \in Call, Used(u)
  PROVE  uc[u].ctx \in Call /\ Used(uc[u].ctx) /\ uc[u].ctx[1] = u[1]
<1>1. CASE uc[u].to = "id"
  BY <1>1 DEF Calls
<1>2. CASE uc[u].to = "attend"
  BY <1>2 DEF Calls, Used
<1>. QED
  BY <1>1, <1>2 DEF Calls

LEMMA CallsKept ==
  ASSUME Types, Calls, SameCalls, \A u \in Call : ~Used(u) => conn'[u].st = "none"
  PROVE  Calls'
<1>1. \A u \in Call : Used(u)' <=> Used(u)
  BY DEF SameCalls, SameCall, Used
<1>2. SUFFICES ASSUME NEW u \in Call
               PROVE  IF Used(u)'
                      THEN /\ \A j \in 1..u[2] : Used(<<u[1], j>>)'
                           /\ Asks[u[1]] = "lookup"
                           /\ uc'[u].to \in {"id", "attend"}
                           /\ uc'[u].arg = u[1]
                           /\ uc'[u].to = "id" => uc'[u].ctx = u
                           /\ uc'[u].to = "attend" =>
                                /\ u[1] \in IdKeys
                                /\ uc'[u].ctx \in Call /\ uc'[u].ctx[1] = u[1]
                                /\ uc'[uc'[u].ctx].st = "freed" /\ uc'[uc'[u].ctx].to = "id"
                                /\ \A v \in Call : Used(v)' /\ uc'[v].to = "attend" /\ uc'[v].ctx = uc'[u].ctx => v = u
                      ELSE uc'[u].to = Nil /\ conn'[u].st = "none"
  BY DEF Calls
<1>3. CASE ~Used(u)
  BY <1>1, <1>3 DEF Calls, SameCalls, SameCall
<1>4. CASE Used(u)
  <2>1. \A j \in 1..u[2] : Used(<<u[1], j>>)'
    <3>1. SUFFICES ASSUME NEW j \in 1..u[2] PROVE Used(<<u[1], j>>)'
      OBVIOUS
    <3>2. PICK v : v = <<u[1], j>>
      OBVIOUS
    <3>3. v \in Call
      <4>1. u[1] \in Client /\ u[2] \in 1..4
        BY Pairs
      <4>2. j \in 1..4
        BY <4>1
      <4>. QED
        BY <3>2, <4>1, <4>2, Pairs
    <3>4. Used(v)
      BY <1>4, <3>1, <3>2 DEF Calls
    <3>5. Used(v)'
      BY <1>1, <3>3, <3>4
    <3>. QED
      BY <3>2, <3>5
  <2>2. /\ Asks[u[1]] = "lookup"
        /\ uc'[u].to \in {"id", "attend"}
        /\ uc'[u].arg = u[1]
        /\ uc'[u].to = "id" => uc'[u].ctx = u
    BY <1>4 DEF Calls, SameCalls, SameCall
  <2>3. ASSUME uc'[u].to = "attend"
        PROVE  /\ u[1] \in IdKeys
               /\ uc'[u].ctx \in Call /\ uc'[u].ctx[1] = u[1]
               /\ uc'[uc'[u].ctx].st = "freed" /\ uc'[uc'[u].ctx].to = "id"
               /\ \A v \in Call : Used(v)' /\ uc'[v].to = "attend" /\ uc'[v].ctx = uc'[u].ctx => v = u
    <3>1. uc[u].to = "attend" /\ uc'[u].ctx = uc[u].ctx
      BY <2>3 DEF SameCalls, SameCall
    <3>2. /\ u[1] \in IdKeys
          /\ uc[u].ctx \in Call /\ uc[u].ctx[1] = u[1]
          /\ uc[uc[u].ctx].st = "freed" /\ uc[uc[u].ctx].to = "id"
          /\ \A v \in Call : Used(v) /\ uc[v].to = "attend" /\ uc[v].ctx = uc[u].ctx => v = u
      BY <1>4, <3>1 DEF Calls
    <3>3. uc'[uc[u].ctx].st = "freed" /\ uc'[uc[u].ctx].to = "id"
      BY <3>2 DEF SameCalls, SameCall
    <3>4. \A v \in Call : Used(v)' /\ uc'[v].to = "attend" /\ uc'[v].ctx = uc[u].ctx => v = u
      BY <1>1, <3>2 DEF SameCalls, SameCall
    <3>. QED
      BY <3>1, <3>2, <3>3, <3>4
  <2>. QED
    BY <1>1, <1>4, <2>1, <2>2, <2>3
<1>. QED
  BY <1>3, <1>4

LEMMA ContextsKept ==
  ASSUME Types, Calls, Contexts, SameCalls, 
         \A u \in Open : uc'[u].st # "freed" => ctx'[uc[u].ctx] = ctx[uc[u].ctx]
  PROVE  Contexts'
<1>1. SUFFICES ASSUME NEW u \in Open'
               PROVE  /\ ctx'[uc'[u].ctx] # Nil
                      /\ ctx'[uc'[u].ctx].stage = uc'[u].to
                      /\ ctx'[uc'[u].ctx].name = u[1]
                      /\ uc'[u].to = "attend" => ctx'[uc'[u].ctx].id = u[1]
  BY DEF Contexts
<1>2. u \in Call /\ uc'[u].st # "none" /\ uc'[u].st # "freed"
  BY DEF Open
<1>3. /\ uc[u].st # "none" /\ uc[u].st # "freed"
      /\ uc'[u].to = uc[u].to /\ uc'[u].ctx = uc[u].ctx
  BY <1>2 DEF SameCalls, SameCall
<1>4. u \in Open
  BY <1>2, <1>3 DEF Types, CallType, Open
<1>. QED
  BY <1>2, <1>3, <1>4 DEF Contexts

LEMMA IdsKept ==
  ASSUME Types, SameCalls, NEW c \in Client
  PROVE  Ids(c)' = Ids(c)
BY DEF Ids, SameCalls, SameCall, Used

LEMMA CountsKept ==
  ASSUME Types, Types', Counts,
         \A c \in Client :
           /\ Ids(c)' = Ids(c)
           /\ conn'[c].rlen + net'[c].req <= peer'[c].sent
           /\ peer'[c].sent <= Length(c) + Extra
           /\ conn'[c].rlen # conn[c].rlen => conn[c].rlen < Length(c)
           /\ conn'[c].rlen >= conn[c].rlen
  PROVE  Counts'
<1>1. SUFFICES ASSUME NEW c \in Client
               PROVE  /\ conn'[c].rlen + net'[c].req <= peer'[c].sent
                      /\ peer'[c].sent <= Length(c) + Extra
                      /\ conn'[c].rlen < Length(c) => Ids(c)' = {}
                      /\ conn'[c].rlen = Length(c) => \A u, v \in Ids(c)' : u = v
                      /\ \A u, v, w \in Ids(c)' : u = v \/ u = w \/ v = w
  BY DEF Counts, Length, Extra
<1>2. /\ conn[c].rlen < Length(c) => Ids(c) = {}
      /\ conn[c].rlen = Length(c) => \A u, v \in Ids(c) : u = v
      /\ \A u, v, w \in Ids(c) : u = v \/ u = w \/ v = w
  BY DEF Counts
<1>3. conn[c].rlen \in Nat /\ conn'[c].rlen \in Nat /\ Length(c) \in Nat
  BY Pairs, TcpAssumption DEF Types, ConnType, Length
<1>. QED
  BY <1>2, <1>3

Quiet(c) ==
  /\ conn'[c].rlen = conn[c].rlen
  /\ net'[c].req <= net[c].req
  /\ peer'[c].sent = peer[c].sent

LEMMA CountsQuiet ==
  ASSUME Types, Types', Counts, SameCalls, \A c \in Client : Quiet(c)
  PROVE  Counts'
<1>1. ASSUME NEW c \in Client
      PROVE  /\ Ids(c)' = Ids(c)
             /\ conn'[c].rlen + net'[c].req <= peer'[c].sent
             /\ peer'[c].sent <= Length(c) + Extra
             /\ conn'[c].rlen # conn[c].rlen => conn[c].rlen < Length(c)
             /\ conn'[c].rlen >= conn[c].rlen
  <2>1. /\ conn[c].rlen + net[c].req <= peer[c].sent
        /\ peer[c].sent <= Length(c) + Extra
    BY DEF Counts
  <2>2. /\ conn[c].rlen \in Nat /\ net[c].req \in Nat /\ net'[c].req \in Nat
        /\ peer[c].sent \in Nat
    <3>1. c \in Conn /\ Window \in Nat /\ BufLen \in Nat
      BY Pairs, TcpAssumption
    <3>2. conn[c].rlen \in Nat
      BY <3>1 DEF Types, ConnType
    <3>3. net[c].req \in Nat /\ net'[c].req \in Nat
      BY <3>1 DEF Types, NetType
    <3>4. peer[c].sent \in Nat
      BY DEF Types, PeerType
    <3>. QED
      BY <3>2, <3>3, <3>4
  <2>3. Ids(c)' = Ids(c)
    BY IdsKept
  <2>. QED
    BY <2>1, <2>2, <2>3 DEF Quiet
<1>. QED
  BY <1>1, CountsKept

AnswersOf(u) ==
  IF Used(u)
  THEN /\ AllOf(net[u].res, ServiceReply(u))
       /\ AllOf(uc[u].rbuf, ServiceReply(u))
       /\ conn[u].st = "write" => conn[u].wbuf = ServiceReply(u)
  ELSE net[u].res = << >>

LEMMA SameReply ==
  ASSUME Types, NEW u \in Call, SameCall(u)
  PROVE  ServiceReply(u)' = ServiceReply(u)
BY DEF SameCall, ServiceReply, HandleId, HandleAttend

LEMMA AnswersKept ==
  ASSUME Types, NEW u \in Call, SameCall(u), AnswersOf(u),
         net'[u].res = net[u].res, uc'[u].rbuf = uc[u].rbuf,
         conn'[u].st = "write" => conn[u].st = "write" /\ conn'[u].wbuf = conn[u].wbuf
  PROVE  AnswersOf(u)'
<1>1. ServiceReply(u)' = ServiceReply(u)
  BY SameReply
<1>2. Used(u)' <=> Used(u)
  BY DEF SameCall, Used
<1>. QED
  BY <1>1, <1>2 DEF AnswersOf, AllOf

LEMMA Numbers ==
  /\ Window \in Nat /\ BufLen \in Nat /\ ResLen \in Nat /\ ReqLen \in Nat
  /\ ReqLen >= 1 /\ ResLen >= 1 /\ ReqLen <= BufLen
  /\ \A k \in Conn : Length(k) \in Nat /\ Length(k) >= 1
  /\ \A u \in Call : Length(u) = ReqLen
  /\ Extra \in {0, 1}
BY TcpAssumption, Pairs DEF Length, Extra

LEMMA Fields ==
  ASSUME Types
  PROVE  /\ \A k \in Conn :
              /\ net[k] \in NetType /\ conn[k] \in ConnType
              /\ net[k].req \in Nat /\ net[k].req <= Window
              /\ net[k].res \in Seq(Replies) /\ Len(net[k].res) \in Nat
              /\ net[k].left \in BOOLEAN /\ net[k].closed \in BOOLEAN
              /\ conn[k].st \in {"none", "read", "write", "freed"}
              /\ conn[k].rlen \in Nat /\ conn[k].rlen <= BufLen
              /\ conn[k].wbuf \in Replies \cup {Nil}
              /\ conn[k].wpos \in Nat /\ conn[k].wpos <= ResLen
         /\ \A u \in Call :
              /\ uc[u] \in CallType
              /\ uc[u].st \in {"none", "connect", "write", "read", "freed"}
              /\ uc[u].wpos \in Nat /\ uc[u].wpos <= ReqLen
              /\ uc[u].rbuf \in Seq(Replies) /\ Len(uc[u].rbuf) \in Nat
         /\ \A c \in Client : /\ peer[c] \in PeerType /\ peer[c].sent \in Nat
                              /\ peer[c].got \in Seq(Replies)
<1>1. \A k \in Conn : net[k] \in NetType /\ conn[k] \in ConnType
  BY DEF Types
<1>2. \A u \in Call : uc[u] \in CallType
  BY DEF Types
<1>3. \A c \in Client : peer[c] \in PeerType
  BY DEF Types
<1>4. \A t \in NetType : /\ t.req \in Nat /\ t.req <= Window
                         /\ t.res \in Seq(Replies) /\ Len(t.res) \in Nat
                         /\ t.left \in BOOLEAN /\ t.closed \in BOOLEAN
  BY Numbers DEF NetType
<1>5. \A t \in ConnType : /\ t.st \in {"none", "read", "write", "freed"}
                          /\ t.rlen \in Nat /\ t.rlen <= BufLen
                          /\ t.wbuf \in Replies \cup {Nil}
                          /\ t.wpos \in Nat /\ t.wpos <= ResLen
  BY Numbers DEF ConnType
<1>6. \A t \in CallType : /\ t.st \in {"none", "connect", "write", "read", "freed"}
                          /\ t.wpos \in Nat /\ t.wpos <= ReqLen
                          /\ t.rbuf \in Seq(Replies) /\ Len(t.rbuf) \in Nat
  BY Numbers DEF CallType
<1>7. \A t \in PeerType : t.sent \in Nat /\ t.got \in Seq(Replies)
  BY DEF PeerType
<1>. QED
  BY <1>1, <1>2, <1>3, <1>4, <1>5, <1>6, <1>7

LEMMA SameSame == ASSUME UNCHANGED uc PROVE SameCalls
BY DEF SameCalls, SameCall

(* Steps that leave the calls alone keep the invariant when the streams    *)
(* and the server sides of the connections are in order.                   *)
LEMMA ServerSteps ==
  ASSUME Core, UNCHANGED <<uc, ctx>>, Types', Sizes', Counts',
         \A u \in Call : ~Used(u) => conn'[u].st = "none",
         \A u \in Call : AnswersOf(u) => AnswersOf(u)'
  PROVE  Core'
<1>0. Types /\ Calls /\ Contexts /\ Answers
  BY DEF Core
<1>1. SameCalls
  BY SameSame
<1>2. Calls'
  BY <1>0, <1>1, CallsKept
<1>3. Contexts'
  BY <1>0, <1>1, ContextsKept
<1>4. Answers'
  BY <1>0 DEF Answers, AnswersOf
<1>. QED
  BY <1>2, <1>3, <1>4 DEF Core

LEMMA CoreAccept ==
  ASSUME Core, NEW s \in {"frontend", "id", "attend"}, OnAccept(s)
  PROVE  Core'
<1>0. Types /\ Sizes /\ Calls /\ Counts
  BY DEF Core
<1>1. /\ UNCHANGED <<net, uc, ctx, peer, over>>
      /\ conn' = [k \in Conn |-> IF k \in Pending(s) THEN [conn[k] EXCEPT !.st = "read"] ELSE conn[k]]
  BY DEF OnAccept
<1>2. \A k \in Conn : /\ conn'[k] \in ConnType
                      /\ conn'[k].st = IF k \in Pending(s) THEN "read" ELSE conn[k].st
                      /\ conn'[k].rlen = conn[k].rlen /\ conn'[k].wbuf = conn[k].wbuf
  <2>1. SUFFICES ASSUME NEW k \in Conn
                 PROVE  /\ conn'[k] \in ConnType
                        /\ conn'[k].st = IF k \in Pending(s) THEN "read" ELSE conn[k].st
                        /\ conn'[k].rlen = conn[k].rlen /\ conn'[k].wbuf = conn[k].wbuf
    OBVIOUS
  <2>2. conn[k] \in ConnType
    BY <1>0, Fields
  <2>3. conn'[k] = IF k \in Pending(s) THEN [conn[k] EXCEPT !.st = "read"] ELSE conn[k]
    BY <1>1
  <2>. QED
    BY <2>2, <2>3 DEF ConnType
<1>3. Types'
  BY <1>0, <1>1, <1>2 DEF Types
<1>4. Sizes'
  BY <1>0, <1>1, <1>2 DEF Sizes
<1>5. SameCalls
  BY <1>1, SameSame
<1>6. Counts'
  <2>1. \A c \in Client : Quiet(c)
    BY <1>0, <1>1, <1>2, Pairs, Fields DEF Quiet
  <2>. QED
    BY <1>0, <1>3, <1>5, <2>1, CountsQuiet
<1>7. \A u \in Call : ~Used(u) => conn'[u].st = "none"
  <2>1. SUFFICES ASSUME NEW u \in Call, ~Used(u)
                 PROVE  conn'[u].st = "none"
    OBVIOUS
  <2>2. uc[u].to = Nil /\ conn[u].st = "none" /\ u \in Conn /\ u \notin Client
    BY <1>0, <2>1, Pairs DEF Calls
  <2>3. u \notin Pending(s)
    BY <2>2, DistinctAssumption DEF Pending
  <2>. QED
    BY <1>2, <2>2, <2>3
<1>8. ASSUME NEW u \in Call, AnswersOf(u)
      PROVE  AnswersOf(u)'
  <2>1. u \in Conn /\ SameCall(u)
    BY <1>5, Pairs DEF SameCalls
  <2>2. /\ net'[u].res = net[u].res /\ uc'[u].rbuf = uc[u].rbuf
        /\ conn'[u].st = "write" => conn[u].st = "write" /\ conn'[u].wbuf = conn[u].wbuf
    BY <1>1, <1>2, <2>1
  <2>. QED
    BY <1>0, <1>8, <2>1, <2>2, AnswersKept
<1>. QED
  BY <1>1, <1>3, <1>4, <1>6, <1>7, <1>8, ServerSteps

(* A step on one connection that leaves the calls alone.                   *)
LEMMA OneConn ==
  ASSUME Core, UNCHANGED <<uc, ctx>>,
         NEW k \in Conn, NEW nk \in NetType, NEW ck \in ConnType,
         net' = [net EXCEPT ![k] = nk], conn' = [conn EXCEPT ![k] = ck],
         peer' \in [Client -> PeerType], over' \in {"no", "wild", "sigpipe"},
         Len(nk.res) <= Window,
         ck.st = "write" => ck.wbuf # Nil,
         k \in Call /\ ck.st # "none" => Used(k),
         k \in Call /\ AnswersOf(k) => AnswersOf(k)',
         \A c \in Client : c # k => peer'[c] = peer[c],
         k \in Client => /\ ck.rlen + nk.req <= peer'[k].sent
                         /\ peer'[k].sent <= Length(k) + Extra
                         /\ ck.rlen # conn[k].rlen => conn[k].rlen < Length(k)
                         /\ ck.rlen >= conn[k].rlen
  PROVE  Core'
<1>0. Types /\ Sizes /\ Calls /\ Counts
  BY DEF Core
<1>1. /\ net'[k] = nk /\ conn'[k] = ck
      /\ \A j \in Conn : j # k => net'[j] = net[j] /\ conn'[j] = conn[j]
      /\ net' \in [Conn -> NetType] /\ conn' \in [Conn -> ConnType]
  BY <1>0 DEF Types
<1>2. Types'
  BY <1>0, <1>1 DEF Types
<1>3. Sizes'
  <2>1. \A j \in Conn : Len(net'[j].res) <= Window /\ (conn'[j].st = "write" => conn'[j].wbuf # Nil)
    <3>1. SUFFICES ASSUME NEW j \in Conn
                   PROVE  Len(net'[j].res) <= Window /\ (conn'[j].st = "write" => conn'[j].wbuf # Nil)
      OBVIOUS
    <3>2. CASE j = k
      BY <1>1, <3>2
    <3>3. CASE j # k
      BY <1>0, <1>1, <3>3 DEF Sizes
    <3>. QED
      BY <3>2, <3>3
  <2>2. \A u \in Call : Len(uc'[u].rbuf) < ResLen
    BY <1>0 DEF Sizes
  <2>. QED
    BY <2>1, <2>2 DEF Sizes
<1>4. SameCalls
  BY SameSame
<1>5. Counts'
  <2>1. ASSUME NEW c \in Client
        PROVE  /\ Ids(c)' = Ids(c)
               /\ conn'[c].rlen + net'[c].req <= peer'[c].sent
               /\ peer'[c].sent <= Length(c) + Extra
               /\ conn'[c].rlen # conn[c].rlen => conn[c].rlen < Length(c)
               /\ conn'[c].rlen >= conn[c].rlen
    <3>1. Ids(c)' = Ids(c)
      BY <1>0, <1>4, IdsKept
    <3>2. CASE c = k
      BY <1>1, <3>1, <3>2
    <3>3. CASE c # k
      <4>1. c \in Conn /\ conn[c].rlen \in Nat
        BY <1>0, Fields, Pairs
      <4>2. conn[c].rlen + net[c].req <= peer[c].sent /\ peer[c].sent <= Length(c) + Extra
        BY <1>0 DEF Counts
      <4>. QED
        BY <1>1, <3>1, <3>3, <4>1, <4>2
    <3>. QED
      BY <3>2, <3>3
  <2>. QED
    BY <1>0, <1>2, <2>1, CountsKept
<1>6. ASSUME NEW u \in Call, ~Used(u)
      PROVE  conn'[u].st = "none"
  <2>1. u \in Conn /\ conn[u].st = "none"
    BY <1>0, <1>6, Pairs DEF Calls
  <2>2. CASE u = k
    BY <1>1, <1>6, <2>2
  <2>3. CASE u # k
    BY <1>1, <2>1, <2>3
  <2>. QED
    BY <2>2, <2>3
<1>7. ASSUME NEW u \in Call, AnswersOf(u)
      PROVE  AnswersOf(u)'
  <2>1. CASE u = k
    BY <1>7, <2>1
  <2>2. CASE u # k
    <3>1. u \in Conn
      BY Pairs
    <3>2. net'[u].res = net[u].res /\ conn'[u] = conn[u] /\ uc'[u].rbuf = uc[u].rbuf
      BY <1>1, <2>2, <3>1
    <3>. QED
      BY <1>0, <1>4, <1>7, <3>2, AnswersKept DEF SameCalls
  <2>. QED
    BY <2>1, <2>2
<1>. QED
  BY <1>2, <1>3, <1>5, <1>6, <1>7, ServerSteps

LEMMA CountOf ==
  ASSUME Core, NEW k \in Client
  PROVE  /\ conn[k].rlen + net[k].req <= peer[k].sent
         /\ peer[k].sent <= Length(k) + Extra
         /\ conn[k].rlen \in Nat /\ net[k].req \in Nat /\ peer[k].sent \in Nat /\ Length(k) \in Nat
BY Fields, Numbers, Pairs DEF Core, Counts

LEMMA TypesOf ==
  ASSUME Core
  PROVE  /\ Types /\ peer \in [Client -> PeerType] /\ over \in {"no", "wild", "sigpipe"}
         /\ \A k \in Conn : /\ Len(net[k].res) <= Window
                            /\ conn[k].st = "write" => conn[k].wbuf # Nil /\ conn[k].wbuf \in Replies
         /\ \A u \in Call : conn[u].st # "none" => Used(u)
BY Fields DEF Core, Types, Sizes, Calls

LEMMA CoreReadPart ==
  ASSUME Core, NEW k \in Conn, NEW n \in Nat, ReadPart(k, n)
  PROVE  Core'
<1>1. Types
  BY DEF Core
<1>2. /\ net[k] \in NetType /\ conn[k] \in ConnType /\ net[k].req \in Nat /\ net[k].req <= Window
      /\ conn[k].rlen \in Nat /\ Length(k) \in Nat
  BY <1>1, Fields, Numbers
<1>3. PICK q, m : q = net[k].req - n /\ m = conn[k].rlen + n
  OBVIOUS
<1>4. PICK nk, ck : nk = [net[k] EXCEPT !.req = q] /\ ck = [conn[k] EXCEPT !.rlen = m]
  OBVIOUS
<1>5. /\ conn[k].st = "read" /\ n \in 1..net[k].req /\ m <= BufLen
      /\ net' = [net EXCEPT ![k] = nk] /\ conn' = [conn EXCEPT ![k] = ck]
      /\ UNCHANGED <<uc, ctx, over, peer>>
  BY <1>3, <1>4 DEF ReadPart, Took
<1>6. q \in 0..Window /\ m \in 0..BufLen /\ q + n = net[k].req
  BY <1>2, <1>3, <1>5, Numbers
<1>7. m < Length(k) /\ conn[k].rlen < Length(k) /\ m >= conn[k].rlen
  BY <1>2, <1>3 DEF ReadPart, Complete
<1>8. nk \in NetType /\ nk.req = q /\ nk.res = net[k].res
  BY <1>2, <1>4, <1>6 DEF NetType
<1>9. ck \in ConnType /\ ck.st = "read" /\ ck.rlen = m /\ ck.wbuf = conn[k].wbuf
  BY <1>2, <1>4, <1>5, <1>6 DEF ConnType
<1>10. k \in Call /\ AnswersOf(k) => AnswersOf(k)'
  <2>1. /\ net'[k].res = net[k].res /\ conn'[k].st = "read" /\ uc' = uc
    BY <1>1, <1>5, <1>8, <1>9 DEF Types
  <2>2. SameCalls
    BY <2>1, SameSame
  <2>. QED
    BY <1>1, <2>1, <2>2, AnswersKept DEF SameCalls
<1>11. k \in Client => /\ m + q <= peer[k].sent
                       /\ peer[k].sent <= Length(k) + Extra
  BY <1>2, <1>3, CountOf
<1>. QED
  BY <1>2, <1>5, <1>7, <1>8, <1>9, <1>10, <1>11, OneConn, TypesOf

LEMMA CoreReplyNow ==
  ASSUME Core, NEW k \in Conn, NEW n \in Nat, NEW r \in Replies, ReplyNow(k, n, r)
  PROVE  Core'
<1>1. Types /\ r # Nil
  BY GoodReplies DEF Core
<1>2. /\ net[k] \in NetType /\ conn[k] \in ConnType /\ net[k].req \in Nat /\ net[k].req <= Window
      /\ conn[k].rlen \in Nat
  BY <1>1, Fields
<1>3. PICK q : q = net[k].req - n
  OBVIOUS
<1>4. PICK nk, ck : /\ nk = [net[k] EXCEPT !.req = q]
                    /\ ck = [conn[k] EXCEPT !.st = "write", !.wbuf = r, !.wpos = 0]
  OBVIOUS
<1>5. /\ conn[k].st = "read" /\ n \in 1..net[k].req
      /\ net' = [net EXCEPT ![k] = nk] /\ conn' = [conn EXCEPT ![k] = ck]
      /\ UNCHANGED <<uc, ctx, over, peer>>
      /\ k \in Call => r = ServiceReply(k)
  BY <1>3, <1>4 DEF ReplyNow, Took, Direct
<1>6. q \in 0..Window /\ q <= net[k].req
  BY <1>2, <1>3, <1>5, Numbers
<1>7. nk \in NetType /\ nk.req = q /\ nk.res = net[k].res
  BY <1>2, <1>4, <1>6 DEF NetType
<1>8. ck \in ConnType /\ ck.st = "write" /\ ck.rlen = conn[k].rlen /\ ck.wbuf = r
  <2>1. 0 \in 0..ResLen
    BY Numbers
  <2>. QED
    BY <1>2, <1>4, <2>1 DEF ConnType
<1>9. k \in Call => Used(k)
  BY <1>5, TypesOf
<1>10. ASSUME k \in Call, AnswersOf(k)
       PROVE  AnswersOf(k)'
  <2>1. net'[k].res = net[k].res /\ conn'[k] = ck /\ uc' = uc
    BY <1>1, <1>5, <1>7 DEF Types
  <2>2. SameCalls
    BY <2>1, SameSame
  <2>3. ServiceReply(k)' = r /\ ServiceReply(k) = r
    BY <1>1, <1>5, <1>10, <2>2, SameReply DEF SameCalls
  <2>4. Used(k) /\ Used(k)'
    BY <1>9, <1>10, <2>1 DEF Used
  <2>5. AllOf(net[k].res, r) /\ AllOf(uc[k].rbuf, r)
    BY <1>10, <2>3, <2>4 DEF AnswersOf
  <2>. QED
    BY <1>8, <2>1, <2>3, <2>4, <2>5 DEF AnswersOf
<1>11. k \in Client => /\ conn[k].rlen + q <= peer[k].sent
                       /\ peer[k].sent <= Length(k) + Extra
  BY <1>2, <1>6, CountOf
<1>14. /\ peer' \in [Client -> PeerType] /\ over' \in {"no", "wild", "sigpipe"}
       /\ \A c \in Client : c # k => peer'[c] = peer[c]
  BY <1>5, TypesOf
<1>15. /\ ck.st = "write" => ck.wbuf # Nil
       /\ k \in Call /\ ck.st # "none" => Used(k)
       /\ Len(nk.res) <= Window
  BY <1>1, <1>7, <1>8, <1>9, TypesOf
<1>16. k \in Client => /\ ck.rlen + nk.req <= peer'[k].sent
                       /\ peer'[k].sent <= Length(k) + Extra
                       /\ ck.rlen # conn[k].rlen => conn[k].rlen < Length(k)
                       /\ ck.rlen >= conn[k].rlen
  BY <1>2, <1>5, <1>7, <1>8, <1>11
<1>. QED
  BY <1>5, <1>7, <1>8, <1>10, <1>14, <1>15, <1>16, OneConn

(* ConnFree, whoever calls it.                                             *)
LEMMA CoreConnFree ==
  ASSUME Core, NEW k \in Conn, k \in Call => Used(k),
         ConnFree(k), UNCHANGED <<uc, ctx, over, peer>>
  PROVE  Core'
<1>1. Types
  BY DEF Core
<1>2. net[k] \in NetType /\ conn[k] \in ConnType /\ conn[k].rlen \in Nat
  BY <1>1, Fields
<1>3. PICK nk, ck : nk = [net[k] EXCEPT !.closed = TRUE] /\ ck = [conn[k] EXCEPT !.st = "freed"]
  OBVIOUS
<1>4. net' = [net EXCEPT ![k] = nk] /\ conn' = [conn EXCEPT ![k] = ck]
  BY <1>3 DEF ConnFree
<1>5. nk \in NetType /\ nk.req = net[k].req /\ nk.res = net[k].res
  BY <1>2, <1>3 DEF NetType
<1>6. ck \in ConnType /\ ck.st = "freed" /\ ck.rlen = conn[k].rlen
  BY <1>2, <1>3 DEF ConnType
<1>7. k \in Call /\ AnswersOf(k) => AnswersOf(k)'
  <2>1. net'[k].res = net[k].res /\ conn'[k].st = "freed" /\ uc' = uc
    BY <1>1, <1>4, <1>5, <1>6 DEF Types
  <2>2. SameCalls
    BY <2>1, SameSame
  <2>. QED
    BY <1>1, <2>1, <2>2, AnswersKept DEF SameCalls
<1>8. k \in Client => /\ conn[k].rlen + net[k].req <= peer[k].sent
                      /\ peer[k].sent <= Length(k) + Extra
  BY CountOf
<1>14. /\ peer' \in [Client -> PeerType] /\ over' \in {"no", "wild", "sigpipe"}
       /\ \A c \in Client : c # k => peer'[c] = peer[c]
  BY  TypesOf
<1>15. /\ ck.st = "write" => ck.wbuf # Nil
       /\ k \in Call /\ ck.st # "none" => Used(k)
       /\ Len(nk.res) <= Window
  BY <1>5, <1>6, TypesOf
<1>16. k \in Client => /\ ck.rlen + nk.req <= peer'[k].sent
                       /\ peer'[k].sent <= Length(k) + Extra
                       /\ ck.rlen # conn[k].rlen => conn[k].rlen < Length(k)
                       /\ ck.rlen >= conn[k].rlen
  BY <1>2, <1>5, <1>6, <1>8
<1>. QED
  BY <1>4, <1>5, <1>6, <1>7, <1>14, <1>15, <1>16, OneConn

LEMMA CoreWriteOut ==
  ASSUME Core, NEW k \in Conn, NEW n \in Nat, WriteOut(k, n)
  PROVE  Core'
<1>0. Types
  BY DEF Core
<1>1. PICK r, s, t, m, b, st :
        /\ r = conn[k].wbuf /\ s = [i \in 1..n |-> r] /\ t = net[k].res
        /\ m = conn[k].wpos + n /\ b = (conn[k].wpos + n = ResLen)
        /\ st = IF conn[k].wpos + n = ResLen THEN "freed" ELSE "write"
  OBVIOUS
<1>2. PICK nk, ck : /\ nk = [net[k] EXCEPT !.res = t \o s, !.closed = b]
                    /\ ck = [conn[k] EXCEPT !.wpos = m, !.st = st]
  OBVIOUS
<1>3. /\ conn[k].st = "write" /\ n \in 1..(ResLen - conn[k].wpos) /\ Len(t) + n <= Window
      /\ conn' = [conn EXCEPT ![k] = ck] /\ net' = [net EXCEPT ![k] = nk]
      /\ UNCHANGED <<uc, ctx, over, peer>>
  BY <1>0, <1>1, <1>2 DEF WriteOut, Types
<1>4. /\ net[k] \in NetType /\ conn[k] \in ConnType /\ t \in Seq(Replies) /\ Len(t) \in Nat
      /\ conn[k].wpos \in Nat /\ r \in Replies /\ r # Nil /\ conn[k].rlen \in Nat
  BY <1>0, <1>1, <1>3, Fields, TypesOf
<1>5. s \in Seq(Replies) /\ Len(s) = n /\ AllOf(s, r)
  <2>1. s = [i \in 1..n |-> r]
    BY <1>1
  <2>2. s \in Seq(Replies) /\ Len(s) = n
    BY <1>4, <2>1, Filled
  <2>3. \A i \in 1..n : s[i] = r
    BY <2>1
  <2>. QED
    BY <2>2, <2>3 DEF AllOf
<1>6. t \o s \in Seq(Replies) /\ Len(t \o s) = Len(t) + n /\ (AllOf(t, r) => AllOf(t \o s, r))
  <2>1. t \o s \in Seq(Replies) /\ Len(t \o s) = Len(t) + Len(s)
    BY <1>4, <1>5, Joined
  <2>2. ASSUME AllOf(t, r) PROVE AllOf(t \o s, r)
    BY <1>4, <1>5, <2>2, Longer
  <2>. QED
    BY <1>5, <2>1, <2>2
<1>7. m \in 0..ResLen /\ b \in BOOLEAN /\ st \in {"write", "freed"}
  BY <1>1, <1>3, <1>4, Numbers
<1>8. nk \in NetType /\ nk.req = net[k].req /\ nk.res = t \o s
  BY <1>2, <1>4, <1>6, <1>7 DEF NetType
<1>9. ck \in ConnType /\ ck.st = st /\ ck.rlen = conn[k].rlen /\ ck.wbuf = r
  BY <1>1, <1>2, <1>4, <1>7 DEF ConnType
<1>10. k \in Call => Used(k)
  BY <1>3, TypesOf
<1>11. ASSUME k \in Call, AnswersOf(k)
       PROVE  AnswersOf(k)'
  <2>1. net'[k].res = t \o s /\ conn'[k] = ck /\ uc' = uc
    BY <1>0, <1>3, <1>8 DEF Types
  <2>2. SameCalls
    BY <2>1, SameSame
  <2>3. Used(k) /\ Used(k)'
    BY <1>10, <1>11, <2>1 DEF Used
  <2>4. ServiceReply(k)' = r /\ ServiceReply(k) = r
    BY <1>0, <1>1, <1>3, <1>11, <2>2, <2>3, SameReply DEF AnswersOf, SameCalls
  <2>5. AllOf(t, r) /\ AllOf(uc[k].rbuf, r)
    BY <1>1, <1>11, <2>3, <2>4 DEF AnswersOf
  <2>. QED
    BY <1>6, <1>9, <2>1, <2>3, <2>4, <2>5 DEF AnswersOf
<1>12. k \in Client => /\ conn[k].rlen + net[k].req <= peer[k].sent
                       /\ peer[k].sent <= Length(k) + Extra
  BY CountOf
<1>13. Len(nk.res) <= Window
  BY <1>3, <1>6, <1>8
<1>14. /\ peer' \in [Client -> PeerType] /\ over' \in {"no", "wild", "sigpipe"}
       /\ \A c \in Client : c # k => peer'[c] = peer[c]
  BY <1>3, TypesOf
<1>15. /\ ck.st = "write" => ck.wbuf # Nil
       /\ k \in Call /\ ck.st # "none" => Used(k)
       /\ Len(nk.res) <= Window
  BY <1>4, <1>9, <1>10, <1>13, TypesOf
<1>16. k \in Client => /\ ck.rlen + nk.req <= peer'[k].sent
                       /\ peer'[k].sent <= Length(k) + Extra
                       /\ ck.rlen # conn[k].rlen => conn[k].rlen < Length(k)
                       /\ ck.rlen >= conn[k].rlen
  BY <1>3, <1>4, <1>8, <1>9, <1>12
<1>. QED
  BY <1>3, <1>8, <1>9, <1>11, <1>14, <1>15, <1>16, OneConn

LEMMA CoreClient ==
  ASSUME Core, NEW c \in Client,
         ClientConnect(c) \/ ClientSend(c) \/ ClientRead(c) \/ ClientLeave(c)
  PROVE  Core'
<1>0. Types /\ c \in Conn /\ c \notin Call
  BY Pairs DEF Core
<1>1. PICK t, p : t = net[c] /\ p = peer[c]
  OBVIOUS
<1>2. /\ t \in NetType /\ conn[c] \in ConnType /\ p \in PeerType
      /\ t.req \in Nat /\ t.res \in Seq(Replies) /\ conn[c].rlen \in Nat
      /\ p.sent \in Nat /\ p.got \in Seq(Replies) /\ Length(c) \in Nat /\ Window \in Nat
      /\ Len(t.res) <= Window
  BY <1>0, <1>1, Fields, Numbers, TypesOf
<1>3. conn[c].rlen + t.req <= p.sent /\ p.sent <= Length(c) + Extra
  BY <1>1, CountOf
<1>4. ASSUME NEW nc \in NetType, NEW pc \in PeerType,
             net' = [net EXCEPT ![c] = nc], peer' = [peer EXCEPT ![c] = pc],
             UNCHANGED <<conn, uc, ctx, over>>,
             Len(nc.res) <= Window, conn[c].rlen + nc.req <= pc.sent, pc.sent <= Length(c) + Extra
      PROVE  Core'
  <2>1. PICK ck : ck = conn[c]
    OBVIOUS
  <2>2. conn' = [conn EXCEPT ![c] = ck] /\ ck \in ConnType
    BY <1>0, <1>2, <1>4, <2>1 DEF Types
  <2>3. /\ peer' \in [Client -> PeerType] /\ peer'[c] = pc
        /\ \A d \in Client : d # c => peer'[d] = peer[d]
        /\ over' \in {"no", "wild", "sigpipe"}
    BY <1>0, <1>4 DEF Types
  <2>4. ck.st = "write" => ck.wbuf # Nil
    BY <1>0, <2>1, TypesOf
  <2>5. /\ ck.rlen + nc.req <= peer'[c].sent
        /\ peer'[c].sent <= Length(c) + Extra
        /\ ck.rlen # conn[c].rlen => conn[c].rlen < Length(c)
        /\ ck.rlen >= conn[c].rlen
    BY <1>2, <1>4, <2>1, <2>3
  <2>6. UNCHANGED <<uc, ctx>>
    BY <1>4
  <2>. QED
    BY <1>0, <1>4, <2>2, <2>3, <2>4, <2>5, <2>6, OneConn
<1>5. CASE ClientConnect(c)
  <2>1. PICK pc : pc = [p EXCEPT !.st = "talking"]
    OBVIOUS
  <2>2. pc \in PeerType /\ pc.sent = p.sent
    BY <1>2, <2>1 DEF PeerType
  <2>3. net' = [net EXCEPT ![c] = t] /\ peer' = [peer EXCEPT ![c] = pc]
        /\ UNCHANGED <<conn, uc, ctx, over>>
    BY <1>0, <1>1, <1>5, <2>1 DEF ClientConnect, Types
  <2>. QED
    BY <1>2, <1>3, <1>4, <2>2, <2>3
<1>6. CASE ClientSend(c)
  <2>1. PICK q, m : q = t.req + 1 /\ m = p.sent + 1
    OBVIOUS
  <2>2. PICK nc, pc : nc = [t EXCEPT !.req = q] /\ pc = [p EXCEPT !.sent = m]
    OBVIOUS
  <2>3. /\ net' = [net EXCEPT ![c] = nc] /\ peer' = [peer EXCEPT ![c] = pc]
        /\ UNCHANGED <<conn, uc, ctx, over>>
        /\ t.req < Window /\ p.sent < Length(c) + Extra
    BY <1>1, <1>6, <2>1, <2>2 DEF ClientSend, Extra
  <2>4. q \in 0..Window /\ m \in Nat /\ conn[c].rlen + q <= m /\ m <= Length(c) + Extra
    <3>1. PICK a, b, d, e : a = p.sent /\ b = t.req /\ d = Length(c) + Extra /\ e = conn[c].rlen
      OBVIOUS
    <3>2. a \in Nat /\ b \in Nat /\ d \in Nat /\ e \in Nat /\ e + b <= a /\ a < d /\ b < Window
      BY <1>2, <1>3, <2>3, <3>1, Numbers
    <3>3. q = b + 1 /\ m = a + 1
      BY <2>1, <3>1
    <3>4. Window \in Nat
      BY Numbers
    <3>5. q \in 0..Window /\ m \in Nat
      BY <3>2, <3>3, <3>4
    <3>6. e + q <= m
      BY <3>2, <3>3
    <3>7. m <= d
      BY <3>2, <3>3
    <3>. QED
      BY <3>1, <3>5, <3>6, <3>7
  <2>5. nc \in NetType /\ nc.req = q /\ nc.res = t.res
    BY <1>2, <2>2, <2>4 DEF NetType
  <2>6. pc \in PeerType /\ pc.sent = m
    BY <1>2, <2>2, <2>4 DEF PeerType
  <2>. QED
    BY <1>2, <1>4, <2>3, <2>4, <2>5, <2>6
<1>7. CASE ClientRead(c)
  <2>1. PICK s, e : s = p.got \o t.res /\ e = << >>
    OBVIOUS
  <2>2. s \in Seq(Replies) /\ e \in Seq(Replies) /\ Len(e) = 0
    BY <1>2, <2>1
  <2>3. PICK nc, pc : nc = [t EXCEPT !.res = e] /\ pc = [p EXCEPT !.got = s]
    OBVIOUS
  <2>4. /\ net' = [net EXCEPT ![c] = nc] /\ peer' = [peer EXCEPT ![c] = pc]
        /\ UNCHANGED <<conn, uc, ctx, over>>
    BY <1>1, <1>7, <2>1, <2>3 DEF ClientRead
  <2>5. nc \in NetType /\ nc.req = t.req /\ nc.res = e
    BY <1>2, <2>2, <2>3 DEF NetType
  <2>6. pc \in PeerType /\ pc.sent = p.sent
    BY <1>2, <2>2, <2>3 DEF PeerType
  <2>7. Len(nc.res) <= Window
    BY <1>2, <2>2, <2>5
  <2>. QED
    BY <1>3, <1>4, <2>4, <2>5, <2>6, <2>7
<1>8. CASE ClientLeave(c)
  <2>1. PICK nc, pc : nc = [t EXCEPT !.left = TRUE] /\ pc = [p EXCEPT !.st = "gone"]
    OBVIOUS
  <2>2. /\ net' = [net EXCEPT ![c] = nc] /\ peer' = [peer EXCEPT ![c] = pc]
        /\ UNCHANGED <<conn, uc, ctx, over>>
    BY <1>1, <1>8, <2>1 DEF ClientLeave
  <2>3. nc \in NetType /\ nc.req = t.req /\ nc.res = t.res
    BY <1>2, <2>1 DEF NetType
  <2>4. pc \in PeerType /\ pc.sent = p.sent
    BY <1>2, <2>1 DEF PeerType
  <2>. QED
    BY <1>2, <1>3, <1>4, <2>2, <2>3, <2>4
<1>. QED
  BY <1>5, <1>6, <1>7, <1>8

(* A step of an open call u that starts no other.                          *)
LEMMA OneCall ==
  ASSUME Core, NEW u \in Open, NEW nu \in NetType, NEW uu \in CallType,
         net' = [net EXCEPT ![u] = nu], uc' = [uc EXCEPT ![u] = uu], UNCHANGED peer,
         uu.st # "none", uu.to = uc[u].to, uu.arg = uc[u].arg, uu.ctx = uc[u].ctx,
         conn' \in [Conn -> ConnType], ctx' \in [Call -> Context \cup {Nil}],
         over' \in {"no", "wild", "sigpipe"},
         \A k \in Conn : conn'[k].st = "write" => conn'[k].wbuf # Nil,
         \A v \in Call : conn'[v] = conn[v],
         \A c \in Client : conn'[c].rlen = conn[c].rlen,
         \A v \in Open : v # u \/ uu.st # "freed" => ctx'[uc[v].ctx] = ctx[uc[v].ctx],
         Len(nu.res) <= Window, Len(uu.rbuf) < ResLen,
         AllOf(nu.res, ServiceReply(u)), AllOf(uu.rbuf, ServiceReply(u))
  PROVE  Core'
<1>0. Types /\ Sizes /\ Calls /\ Contexts /\ Answers /\ Counts
  BY DEF Core
<1>1. u \in Call /\ u \in Conn /\ u \notin Client /\ uc[u].st # "none" /\ uc[u].st # "freed"
  BY Pairs DEF Open
<1>2. /\ net'[u] = nu /\ uc'[u] = uu
      /\ \A j \in Conn : j # u => net'[j] = net[j]
      /\ \A v \in Call : v # u => uc'[v] = uc[v]
      /\ net' \in [Conn -> NetType] /\ uc' \in [Call -> CallType]
  BY <1>0, <1>1 DEF Types
<1>3. Types'
  BY <1>0, <1>2 DEF Types
<1>4. Sizes'
  <2>1. ASSUME NEW j \in Conn PROVE Len(net'[j].res) <= Window
    BY <1>0, <1>2, <2>1 DEF Sizes
  <2>2. ASSUME NEW v \in Call PROVE Len(uc'[v].rbuf) < ResLen
    BY <1>0, <1>2, <2>2 DEF Sizes
  <2>. QED
    BY <2>1, <2>2 DEF Sizes
<1>5. SameCalls
  <2>1. SUFFICES ASSUME NEW v \in Call PROVE SameCall(v)
    BY DEF SameCalls
  <2>2. CASE v = u
    BY <1>1, <1>2, <2>2 DEF SameCall
  <2>3. CASE v # u
    BY <1>2, <2>3 DEF SameCall
  <2>. QED
    BY <2>2, <2>3
<1>6. Calls'
  <2>1. \A v \in Call : ~Used(v) => conn'[v].st = "none"
    BY <1>0 DEF Calls
  <2>. QED
    BY <1>0, <1>5, <2>1, CallsKept
<1>7. Contexts'
  <2>1. \A v \in Open : uc'[v].st # "freed" => ctx'[uc[v].ctx] = ctx[uc[v].ctx]
    BY <1>2
  <2>. QED
    BY <1>0, <1>5, <2>1, ContextsKept
<1>8. ASSUME NEW v \in Call, AnswersOf(v)
      PROVE  AnswersOf(v)'
  <2>0. SameCall(v) /\ v \in Conn /\ conn'[v] = conn[v]
    BY <1>5, Pairs DEF SameCalls
  <2>1. CASE v # u
    <3>1. net'[v].res = net[v].res /\ uc'[v].rbuf = uc[v].rbuf
      BY <1>2, <2>0, <2>1
    <3>. QED
      BY <1>0, <1>8, <2>0, <3>1, AnswersKept
  <2>2. CASE v = u
    <3>1. ServiceReply(v)' = ServiceReply(v)
      BY <1>0, <2>0, SameReply
    <3>2. Used(v) /\ Used(v)'
      BY <1>1, <1>2, <2>2 DEF Used
    <3>3. AllOf(net'[v].res, ServiceReply(v)) /\ AllOf(uc'[v].rbuf, ServiceReply(v))
      BY <1>2, <2>2
    <3>4. conn'[v].st = "write" => conn'[v].wbuf = ServiceReply(v)
      BY <1>8, <2>0, <3>2 DEF AnswersOf
    <3>. QED
      BY <3>1, <3>2, <3>3, <3>4 DEF AnswersOf
  <2>. QED
    BY <2>1, <2>2
<1>9. Answers'
  <2>1. \A v \in Call : AnswersOf(v)
    BY <1>0 DEF Answers, AnswersOf
  <2>2. \A v \in Call : AnswersOf(v)'
    BY <1>8, <2>1
  <2>. QED
    BY <2>2 DEF Answers, AnswersOf
<1>10. Counts'
  <2>1. ASSUME NEW c \in Client PROVE Quiet(c)
    <3>1. c \in Conn /\ c # u /\ net[c].req \in Nat
      BY <1>0, <1>1, Pairs, Fields
    <3>. QED
      BY <1>2, <3>1 DEF Quiet
  <2>. QED
    BY <1>0, <1>3, <1>5, <2>1, CountsQuiet
<1>. QED
  BY <1>3, <1>4, <1>6, <1>7, <1>9, <1>10 DEF Core

LEMMA CallFields ==
  ASSUME Core, NEW u \in Open
  PROVE  /\ u \in Call /\ u \in Conn /\ u[1] \in Client /\ Used(u)
         /\ net[u] \in NetType /\ uc[u] \in CallType
         /\ net[u].req \in Nat /\ net[u].res \in Seq(Replies) /\ Len(net[u].res) <= Window
         /\ uc[u].rbuf \in Seq(Replies) /\ Len(uc[u].rbuf) < ResLen
         /\ uc[u].wpos \in Nat /\ uc[u].wpos <= ReqLen
         /\ AllOf(net[u].res, ServiceReply(u)) /\ AllOf(uc[u].rbuf, ServiceReply(u))
         /\ conn \in [Conn -> ConnType] /\ ctx \in [Call -> Context \cup {Nil}]
         /\ over \in {"no", "wild", "sigpipe"}
         /\ \A k \in Conn : conn[k].st = "write" => conn[k].wbuf # Nil
<1>1. u \in Call /\ u \in Conn /\ u[1] \in Client /\ Used(u)
  BY Pairs DEF Open, Used
<1>2. Types /\ Sizes /\ Answers
  BY DEF Core
<1>3. /\ net[u] \in NetType /\ uc[u] \in CallType
      /\ net[u].req \in Nat /\ net[u].res \in Seq(Replies)
      /\ uc[u].rbuf \in Seq(Replies) /\ uc[u].wpos \in Nat /\ uc[u].wpos <= ReqLen
  BY <1>1, <1>2, Fields
<1>4. AllOf(net[u].res, ServiceReply(u)) /\ AllOf(uc[u].rbuf, ServiceReply(u))
  BY <1>1, <1>2 DEF Answers
<1>. QED
  BY <1>1, <1>2, <1>3, <1>4 DEF Types, Sizes

LEMMA CoreConnected ==
  ASSUME Core, NEW u \in Call, Connected(u)
  PROVE  Core'
<1>0. u \in Open
  BY DEF Connected, Open
<1>1. PICK t, nu, uu : t = uc[u] /\ nu = net[u] /\ uu = [t EXCEPT !.st = "write"]
  OBVIOUS
<1>2. t \in CallType /\ nu \in NetType
  BY <1>0, <1>1, CallFields
<1>3. /\ uu \in CallType /\ uu.st = "write" /\ uu.to = t.to /\ uu.arg = t.arg /\ uu.ctx = t.ctx
      /\ uu.rbuf = t.rbuf
  BY <1>1, <1>2 DEF CallType
<1>4. /\ net' = [net EXCEPT ![u] = nu] /\ uc' = [uc EXCEPT ![u] = uu]
      /\ UNCHANGED <<conn, ctx, over, peer>>
  BY <1>1, CallFields DEF Connected, Core, Types
<1>. QED
  BY <1>0, <1>1, <1>2, <1>3, <1>4, CallFields, OneCall

LEMMA CoreSendPart ==
  ASSUME Core, NEW u \in Call, NEW n \in Nat, SendPart(u, n)
  PROVE  Core'
<1>0. u \in Open
  BY DEF SendPart, Open
<1>1. PICK t, q, m, st : /\ t = uc[u] /\ q = net[u].req + n /\ m = uc[u].wpos + n
                         /\ st = IF uc[u].wpos + n = ReqLen THEN "read" ELSE "write"
  OBVIOUS
<1>2. PICK nu, uu : nu = [net[u] EXCEPT !.req = q] /\ uu = [t EXCEPT !.wpos = m, !.st = st]
  OBVIOUS
<1>3. /\ net[u] \in NetType /\ t \in CallType /\ net[u].req \in Nat
      /\ uc[u].wpos \in Nat /\ uc[u].wpos <= ReqLen
  BY <1>0, <1>1, CallFields
<1>4. /\ net' = [net EXCEPT ![u] = nu] /\ uc' = [uc EXCEPT ![u] = uu]
      /\ UNCHANGED <<conn, ctx, over, peer>>
      /\ n \in 1..(ReqLen - uc[u].wpos) /\ q <= Window
  BY <1>1, <1>2, CallFields DEF SendPart, Core, Types
<1>5. q \in 0..Window /\ m \in 0..ReqLen /\ st \in {"read", "write"}
  BY <1>1, <1>3, <1>4, Numbers
<1>6. nu \in NetType /\ nu.res = net[u].res
  BY <1>2, <1>3, <1>5 DEF NetType
<1>7. /\ uu \in CallType /\ uu.st = st /\ uu.to = t.to /\ uu.arg = t.arg /\ uu.ctx = t.ctx
      /\ uu.rbuf = t.rbuf
  BY <1>2, <1>3, <1>5 DEF CallType
<1>. QED
  BY <1>0, <1>1, <1>4, <1>5, <1>6, <1>7, CallFields, OneCall

LEMMA CoreGetPart ==
  ASSUME Core, NEW u \in Call, NEW n \in Nat, GetPart(u, n)
  PROVE  Core'
<1>0. u \in Open
  BY DEF GetPart, Open
<1>1. PICK t, a, b, s, r : /\ t = uc[u] /\ r = ServiceReply(u) /\ s = net[u].res
                           /\ a = SubSeq(s, n + 1, Len(s)) /\ b = SubSeq(s, 1, n)
  OBVIOUS
<1>2. PICK nu, uu : nu = [net[u] EXCEPT !.res = a] /\ uu = [t EXCEPT !.rbuf = t.rbuf \o b]
  OBVIOUS
<1>3. /\ net[u] \in NetType /\ t \in CallType /\ s \in Seq(Replies) /\ t.rbuf \in Seq(Replies)
      /\ AllOf(s, r) /\ AllOf(t.rbuf, r) /\ Len(s) <= Window
  BY <1>0, <1>1, CallFields
<1>4. /\ net' = [net EXCEPT ![u] = nu] /\ uc' = [uc EXCEPT ![u] = uu]
      /\ UNCHANGED <<conn, ctx, over, peer>>
      /\ n \in 1..Len(s) /\ Len(t.rbuf) + n < ResLen /\ t.st = "read"
  BY <1>1, <1>2 DEF GetPart
<1>5. /\ b \in Seq(Replies) /\ Len(b) = n /\ a \in Seq(Replies) /\ Len(a) = Len(s) - n
      /\ AllOf(a, r) /\ AllOf(b, r)
  BY <1>1, <1>3, <1>4, Cut, SMTT(30)
<1>6. t.rbuf \o b \in Seq(Replies) /\ Len(t.rbuf \o b) = Len(t.rbuf) + n /\ AllOf(t.rbuf \o b, r)
  <2>1. PICK p : p = t.rbuf
    OBVIOUS
  <2>2. p \o b \in Seq(Replies) /\ Len(p \o b) = Len(p) + n /\ AllOf(p \o b, r)
    BY <1>3, <1>5, <2>1, Joined
  <2>. QED
    BY <2>1, <2>2
<1>7. nu \in NetType /\ nu.res = a
  BY <1>2, <1>3, <1>5 DEF NetType
<1>8. /\ uu \in CallType /\ uu.st = "read" /\ uu.to = t.to /\ uu.arg = t.arg /\ uu.ctx = t.ctx
      /\ uu.rbuf = t.rbuf \o b
  BY <1>2, <1>3, <1>4, <1>6 DEF CallType
<1>9. Len(nu.res) <= Window /\ Len(uu.rbuf) < ResLen /\ AllOf(nu.res, r) /\ AllOf(uu.rbuf, r)
  <2>1. n \in Nat /\ n <= Len(s) /\ Len(s) \in Nat /\ Window \in Nat
    BY <1>3, <1>4, Numbers
  <2>. QED
    BY <1>3, <1>4, <1>5, <1>6, <1>7, <1>8, <2>1
<1>. QED
  BY <1>0, <1>1, <1>4, <1>7, <1>8, <1>9, CallFields, OneCall

(* The call ends, and with it the context or at least its use.             *)
LEMMA CallEnds ==
  ASSUME Core, NEW u \in Open, NEW r \in Replies, NEW nu \in NetType, NEW uu \in CallType,
         nu.res = net[u].res \/ nu.res = << >>, uu.st = "freed",
         uu.to = uc[u].to, uu.arg = uc[u].arg, uu.ctx = uc[u].ctx, uu.rbuf = uc[u].rbuf,
         net' = [net EXCEPT ![u] = nu], uc' = [uc EXCEPT ![u] = uu], UNCHANGED peer,
         StartResponse(u[1], r),
         ctx' \in [Call -> Context \cup {Nil}],
         \A x \in Call : x # uc[u].ctx => ctx'[x] = ctx[x]
  PROVE  Core'
<1>0. Types /\ Calls
  BY DEF Core
<1>1. PICK t, c : t = uc[u] /\ c = u[1]
  OBVIOUS
<1>2. /\ net[u] \in NetType /\ t \in CallType /\ c \in Client /\ c \in Conn /\ c \notin Call
      /\ u \in Call /\ Len(net[u].res) <= Window /\ AllOf(net[u].res, ServiceReply(u))
  BY <1>1, CallFields, Pairs
<1>3. Len(nu.res) <= Window /\ AllOf(nu.res, ServiceReply(u))
  <2>1. CASE nu.res = net[u].res
    BY <1>2, <2>1
  <2>2. CASE nu.res = << >>
    BY <2>2, Numbers DEF AllOf
  <2>. QED
    BY <2>1, <2>2
<1>7. /\ conn' \in [Conn -> ConnType] /\ over' \in {"no", "wild", "sigpipe"}
      /\ \A k \in Conn : conn'[k].st = "write" => conn'[k].wbuf # Nil
      /\ \A v \in Call : conn'[v] = conn[v]
      /\ \A d \in Client : conn'[d].rlen = conn[d].rlen
  <2>1. CASE UNCHANGED conn /\ over' = "wild"
    BY <2>1, CallFields
  <2>2. CASE conn' = [conn EXCEPT ![c].st = "write", ![c].wbuf = r, ![c].wpos = 0] /\ UNCHANGED over
    <3>1. PICK ck : ck = [conn[c] EXCEPT !.st = "write", !.wbuf = r, !.wpos = 0]
      OBVIOUS
    <3>2. conn[c] \in ConnType /\ 0 \in 0..ResLen /\ r # Nil
      BY <1>0, <1>2, Fields, Numbers, GoodReplies
    <3>3. ck \in ConnType /\ ck.rlen = conn[c].rlen /\ ck.wbuf = r
      BY <3>1, <3>2 DEF ConnType
    <3>4. conn' = [conn EXCEPT ![c] = ck]
      BY <2>2, <3>1
    <3>5. conn'[c] = ck /\ \A k \in Conn : k # c => conn'[k] = conn[k]
      BY <1>0, <1>2, <3>4 DEF Types
    <3>6. conn' \in [Conn -> ConnType] /\ over' \in {"no", "wild", "sigpipe"}
      BY <1>0, <2>2, <3>3, <3>4 DEF Types
    <3>7. ASSUME NEW k \in Conn
          PROVE  /\ conn'[k].st = "write" => conn'[k].wbuf # Nil
                 /\ conn'[k].rlen = conn[k].rlen
                 /\ k # c => conn'[k] = conn[k]
      BY <3>2, <3>3, <3>5, <3>7, TypesOf
    <3>. QED
      BY <1>2, <3>6, <3>7, Pairs
  <2>. QED
    BY <1>1, <2>1, <2>2 DEF StartResponse
<1>8. \A v \in Open : v # u \/ uu.st # "freed" => ctx'[uc[v].ctx] = ctx[uc[v].ctx]
  <2>1. SUFFICES ASSUME NEW v \in Open, v # u
                 PROVE  ctx'[uc[v].ctx] = ctx[uc[v].ctx]
    OBVIOUS
  <2>2. uc[v].ctx # uc[u].ctx
    BY <1>0, <2>1, OneContextEach
  <2>3. uc[v].ctx \in Call
    BY <1>0, CallFields, ContextInUse
  <2>. QED
    BY <2>2, <2>3
<1>10. /\ uu.st # "none" /\ Len(uu.rbuf) < ResLen /\ AllOf(uu.rbuf, ServiceReply(u))
  BY CallFields
<1>. QED
  BY <1>3, <1>7, <1>8, <1>10, OneCall

LEMMA CoreFail ==
  ASSUME Core, NEW u \in Call, Fail(u)
  PROVE  Core'
<1>1. u \in Open /\ Types
  BY DEF Core, Fail
<1>2. PICK nu, uu : nu = [net[u] EXCEPT !.left = TRUE] /\ uu = [uc[u] EXCEPT !.st = "freed"]
  OBVIOUS
<1>3. /\ StartResponse(u[1], BadGateway) /\ UNCHANGED <<peer, ctx>>
      /\ net' = [net EXCEPT ![u] = nu] /\ uc' = [uc EXCEPT ![u] = uu]
  BY <1>2 DEF Fail, UpstreamFailed
<1>4. ctx' \in [Call -> Context \cup {Nil}] /\ \A x \in Call : x # uc[u].ctx => ctx'[x] = ctx[x]
  BY <1>1, <1>3 DEF Types
<1>5. nu \in NetType /\ nu.res = net[u].res
  BY <1>1, <1>2, CallFields DEF NetType
<1>6. /\ uu \in CallType /\ uu.st = "freed"
      /\ uu.to = uc[u].to /\ uu.arg = uc[u].arg /\ uu.ctx = uc[u].ctx /\ uu.rbuf = uc[u].rbuf
  BY <1>1, <1>2, CallFields DEF CallType
<1>7. BadGateway \in Replies
  BY GoodReplies
<1>. QED
  BY <1>1, <1>3, <1>4, <1>5, <1>6, <1>7, CallEnds

LEMMA CoreAnswer ==
  ASSUME Core, NEW u \in Call, NEW r \in Replies, Answer(u, r)
  PROVE  Core'
<1>1. u \in Open /\ Types
  BY DEF Answer, GotAll, Open, Core
<1>2. PICK nu, uu : /\ nu = [net[u] EXCEPT !.res = << >>, !.left = TRUE]
                    /\ uu = [uc[u] EXCEPT !.st = "freed"]
  OBVIOUS
<1>3. /\ StartResponse(u[1], r) /\ UNCHANGED peer
      /\ uc' = [uc EXCEPT ![u] = uu]
      /\ ctx' = [ctx EXCEPT ![uc[u].ctx] = Nil]
  BY <1>2 DEF Answer, GotAll
<1>4. net' = [net EXCEPT ![u] = nu]
  BY <1>1, <1>2, CallFields DEF Answer, GotAll, Types
<1>5. ctx' \in [Call -> Context \cup {Nil}] /\ \A x \in Call : x # uc[u].ctx => ctx'[x] = ctx[x]
  BY <1>1, <1>3 DEF Types
<1>6. nu \in NetType /\ nu.res = << >>
  <2>1. PICK s : s = << >>
    OBVIOUS
  <2>2. s \in Seq(Replies) /\ net[u] \in NetType
    BY <1>1, <2>1, CallFields
  <2>. QED
    BY <1>2, <2>1, <2>2 DEF NetType
<1>7. /\ uu \in CallType /\ uu.st = "freed"
      /\ uu.to = uc[u].to /\ uu.arg = uc[u].arg /\ uu.ctx = uc[u].ctx /\ uu.rbuf = uc[u].rbuf
  BY <1>1, <1>2, CallFields DEF CallType
<1>. QED
  BY <1>1, <1>3, <1>4, <1>5, <1>6, <1>7, CallEnds

(* A new call v is made, with context x.                                   *)
LEMMA NewCall ==
  ASSUME Core, NEW v \in Call, ~Used(v), NEW to \in {"id", "attend"}, NEW x \in Call,
         \A j \in 1..v[2] : j = v[2] \/ Used(<<v[1], j>>),
         Asks[v[1]] = "lookup",
         uc' \in [Call -> CallType], uc'[v] = StartUpstream(to, v[1], x),
         \A w \in Call : w # v => SameCall(w) /\ uc'[w].rbuf = uc[w].rbuf,
         net' \in [Conn -> NetType],
         \A k \in Conn : net'[k].res = net[k].res \/ net'[k].res = << >>,
         conn' \in [Conn -> ConnType],
         \A w \in Call : conn'[w] = conn[w],
         \A k \in Conn : conn'[k].st = "write" => conn'[k].wbuf # Nil,
         over' \in {"no", "wild", "sigpipe"}, UNCHANGED peer,
         to = "id" => x = v,
         to = "attend" => /\ v[1] \in IdKeys /\ x[1] = v[1]
                          /\ uc'[x].st = "freed" /\ uc'[x].to = "id"
                          /\ \A w \in Call : Used(w) /\ uc[w].to = "attend" => uc[w].ctx # x,
         ctx' \in [Call -> Context \cup {Nil}],
         ctx'[x] # Nil, ctx'[x].stage = to, ctx'[x].name = v[1],
         to = "attend" => ctx'[x].id = v[1],
         \A w \in Open : uc'[w].st # "freed" => ctx'[uc[w].ctx] = ctx[uc[w].ctx],
         Counts'
  PROVE  Core'
<1>0. Types /\ Sizes /\ Calls /\ Contexts /\ Answers
  BY DEF Core
<1>1. Types'
  BY <1>0 DEF Types
<1>2. /\ uc'[v].st = "connect" /\ uc'[v].to = to /\ uc'[v].arg = v[1] /\ uc'[v].ctx = x
      /\ uc'[v].rbuf = << >>
  BY DEF StartUpstream
<1>3. Sizes'
  <2>1. ASSUME NEW k \in Conn PROVE Len(net'[k].res) <= Window
    <3>1. CASE net'[k].res = net[k].res
      BY <1>0, <3>1 DEF Sizes
    <3>2. CASE net'[k].res = << >>
      BY <3>2, Numbers
    <3>. QED
      BY <3>1, <3>2
  <2>2. ASSUME NEW w \in Call PROVE Len(uc'[w].rbuf) < ResLen
    <3>1. CASE w = v
      BY <1>2, <3>1, Numbers
    <3>2. CASE w # v
      BY <1>0, <3>2 DEF Sizes
    <3>. QED
      BY <3>1, <3>2
  <2>. QED
    BY <2>1, <2>2 DEF Sizes
<1>4. \A w \in Call : Used(w)' <=> (Used(w) \/ w = v)
  BY <1>2 DEF SameCall, Used
<1>5. Calls'
  <2>1. ASSUME NEW u \in Call
        PROVE  IF Used(u)'
               THEN /\ \A j \in 1..u[2] : Used(<<u[1], j>>)'
                    /\ Asks[u[1]] = "lookup"
                    /\ uc'[u].to \in {"id", "attend"}
                    /\ uc'[u].arg = u[1]
                    /\ uc'[u].to = "id" => uc'[u].ctx = u
                    /\ uc'[u].to = "attend" =>
                         /\ u[1] \in IdKeys
                         /\ uc'[u].ctx \in Call /\ uc'[u].ctx[1] = u[1]
                         /\ uc'[uc'[u].ctx].st = "freed" /\ uc'[uc'[u].ctx].to = "id"
                         /\ \A w \in Call : Used(w)' /\ uc'[w].to = "attend" /\ uc'[w].ctx = uc'[u].ctx => w = u
               ELSE uc'[u].to = Nil /\ conn'[u].st = "none"
    <3>1. CASE ~Used(u) /\ u # v
      BY <1>0, <1>4, <3>1 DEF Calls, SameCall
    <3>2. CASE u = v
      <4>1. \A j \in 1..u[2] : Used(<<u[1], j>>)'
        <5>1. SUFFICES ASSUME NEW j \in 1..u[2] PROVE Used(<<u[1], j>>)'
          OBVIOUS
        <5>2. PICK w : w = <<u[1], j>>
          OBVIOUS
        <5>3. u[1] \in Client /\ u[2] \in 1..4 /\ u = <<u[1], u[2]>>
          BY Pairs
        <5>4. j \in 1..4
          BY <5>3
        <5>5. w \in Call
          BY <5>2, <5>3, <5>4, Pairs
        <5>6. w = v \/ Used(w)
          BY <3>2, <5>1, <5>2, <5>3
        <5>7. Used(w)'
          BY <1>4, <5>5, <5>6
        <5>. QED
          BY <5>2, <5>7
      <4>2. ASSUME to = "attend"
            PROVE  /\ u[1] \in IdKeys
                   /\ x[1] = u[1] /\ uc'[x].st = "freed" /\ uc'[x].to = "id"
                   /\ \A w \in Call : Used(w)' /\ uc'[w].to = "attend" /\ uc'[w].ctx = x => w = u
        BY <1>4, <3>2, <4>2 DEF SameCall
      <4>3. Used(u)'
        BY <1>4, <3>2
      <4>. QED
        BY <1>2, <3>2, <4>1, <4>2, <4>3
    <3>3. CASE Used(u) /\ u # v
      <4>1. \A j \in 1..u[2] : Used(<<u[1], j>>)'
        <5>1. SUFFICES ASSUME NEW j \in 1..u[2] PROVE Used(<<u[1], j>>)'
          OBVIOUS
        <5>2. PICK w : w = <<u[1], j>>
          OBVIOUS
        <5>3. u[1] \in Client /\ u[2] \in 1..4
          BY Pairs
        <5>4. j \in 1..4
          BY <5>3
        <5>5. w \in Call
          BY <5>2, <5>3, <5>4, Pairs
        <5>6. Used(w)
          BY <1>0, <3>3, <5>1, <5>2 DEF Calls
        <5>7. Used(w)'
          BY <1>4, <5>5, <5>6
        <5>. QED
          BY <5>2, <5>7
      <4>2. uc'[u].to = uc[u].to /\ uc'[u].arg = uc[u].arg /\ uc'[u].ctx = uc[u].ctx
        BY <3>3 DEF SameCall
      <4>3. /\ Asks[u[1]] = "lookup"
            /\ uc[u].to \in {"id", "attend"}
            /\ uc[u].arg = u[1]
            /\ uc[u].to = "id" => uc[u].ctx = u
        BY <1>0, <3>3 DEF Calls
      <4>4. ASSUME uc[u].to = "attend"
            PROVE  /\ u[1] \in IdKeys
                   /\ uc[u].ctx \in Call /\ uc[u].ctx[1] = u[1]
                   /\ uc'[uc[u].ctx].st = "freed" /\ uc'[uc[u].ctx].to = "id"
                   /\ \A w \in Call : Used(w)' /\ uc'[w].to = "attend" /\ uc'[w].ctx = uc[u].ctx => w = u
        <5>1. /\ u[1] \in IdKeys
              /\ uc[u].ctx \in Call /\ uc[u].ctx[1] = u[1]
              /\ uc[uc[u].ctx].st = "freed" /\ uc[uc[u].ctx].to = "id"
              /\ \A w \in Call : Used(w) /\ uc[w].to = "attend" /\ uc[w].ctx = uc[u].ctx => w = u
          BY <1>0, <3>3, <4>4 DEF Calls
        <5>2. PICK y \in Call : y = uc[u].ctx
          BY <5>1
        <5>3. y # v
          BY <5>1, <5>2 DEF Used
        <5>4. uc'[y].st = "freed" /\ uc'[y].to = "id"
          BY <5>1, <5>2, <5>3 DEF SameCall
        <5>5. ASSUME NEW w \in Call, Used(w)', uc'[w].to = "attend", uc'[w].ctx = y
              PROVE  w = u
          <6>1. CASE w = v
            <7>1. to = "attend" /\ x = y
              BY <1>2, <5>5, <6>1
            <7>. QED
              BY <3>3, <4>4, <5>2, <7>1
          <6>2. CASE w # v
            <7>1. Used(w) /\ uc[w].to = "attend" /\ uc[w].ctx = y
              BY <1>4, <5>5, <6>2 DEF SameCall
            <7>. QED
              BY <5>1, <5>2, <7>1
          <6>. QED
            BY <6>1, <6>2
        <5>. QED
          BY <5>1, <5>2, <5>4, <5>5
      <4>5. Used(u)'
        BY <1>4, <3>3
      <4>. QED
        BY <4>1, <4>2, <4>3, <4>4, <4>5
    <3>. QED
      BY <3>1, <3>2, <3>3
  <2>. QED
    BY <2>1 DEF Calls
<1>6. Contexts'
  <2>1. ASSUME NEW u \in Open'
        PROVE  /\ ctx'[uc'[u].ctx] # Nil
               /\ ctx'[uc'[u].ctx].stage = uc'[u].to
               /\ ctx'[uc'[u].ctx].name = u[1]
               /\ uc'[u].to = "attend" => ctx'[uc'[u].ctx].id = u[1]
    <3>1. CASE u = v
      BY <1>2, <3>1
    <3>2. CASE u # v
      <4>1. u \in Call /\ uc'[u].st # "none" /\ uc'[u].st # "freed"
        BY DEF Open
      <4>2. /\ uc[u].st # "none" /\ uc[u].st # "freed"
            /\ uc'[u].to = uc[u].to /\ uc'[u].ctx = uc[u].ctx
        BY <3>2, <4>1 DEF SameCall
      <4>3. u \in Open
        BY <1>0, <4>1, <4>2, Fields DEF Open
      <4>. QED
        BY <1>0, <4>1, <4>2, <4>3 DEF Contexts
    <3>. QED
      BY <3>1, <3>2
  <2>. QED
    BY <2>1 DEF Contexts
<1>7. ASSUME NEW u \in Call
      PROVE  AnswersOf(u)'
  <2>0. AnswersOf(u) /\ u \in Conn /\ conn'[u] = conn[u]
    BY <1>0, Pairs DEF Answers, AnswersOf
  <2>1. CASE u = v
    <3>1. net'[u].res = << >> /\ uc'[u].rbuf = << >> /\ conn'[u].st = "none"
      BY <1>0, <1>2, <2>0, <2>1 DEF AnswersOf, Calls
    <3>2. Used(u)'
      BY <1>4, <2>1
    <3>. QED
      BY <3>1, <3>2 DEF AnswersOf, AllOf
  <2>2. CASE u # v
    <3>1. SameCall(u) /\ uc'[u].rbuf = uc[u].rbuf
      BY <2>2
    <3>2. CASE net'[u].res = net[u].res
      BY <1>0, <2>0, <3>1, <3>2, AnswersKept
    <3>3. CASE net'[u].res = << >>
      <4>1. ServiceReply(u)' = ServiceReply(u)
        BY <1>0, <3>1, SameReply
      <4>2. Used(u)' <=> Used(u)
        BY <3>1 DEF SameCall, Used
      <4>3. AllOf(net'[u].res, ServiceReply(u))
        BY <3>3 DEF AllOf
      <4>. QED
        BY <2>0, <3>1, <3>3, <4>1, <4>2, <4>3 DEF AnswersOf
    <3>. QED
      BY <2>0, <3>2, <3>3
  <2>. QED
    BY <2>1, <2>2
<1>8. Answers'
  BY <1>7 DEF Answers, AnswersOf
<1>. QED
  BY <1>1, <1>3, <1>5, <1>6, <1>8 DEF Core

(* There is always a call left to make: at most two requests and at most   *)
(* as many answered calls to the id service.                               *)
LEMMA CallsLeft ==
  ASSUME Core, NEW c \in Client,
         \A u, w \in Ids(c) : uc[u].st = "freed" /\ uc[w].st = "freed" => u = w
  PROVE  NextCall(c) \in Call
<1>0. Types /\ Calls /\ Counts
  BY DEF Core
<1>1. SUFFICES ASSUME NextCall(c) \notin Call PROVE FALSE
  OBVIOUS
<1>2. PICK a1, a2, a3, a4 : a1 = <<c, 1>> /\ a2 = <<c, 2>> /\ a3 = <<c, 3>> /\ a4 = <<c, 4>>
  OBVIOUS
<1>3. \A a \in {a1, a2, a3, a4} : a \in Call /\ a[1] = c
  BY <1>2, Pairs
<1>4. \A a \in {a1, a2, a3, a4} : Used(a)
  <2>1. \A j \in 1..4 : Used(<<c, j>>)
    BY <1>0, <1>1, NoFreshCall
  <2>2. Used(<<c, 1>>) /\ Used(<<c, 2>>) /\ Used(<<c, 3>>) /\ Used(<<c, 4>>)
    BY <2>1
  <2>. QED
    BY <1>2, <2>2
<1>5. a1 # a2 /\ a1 # a3 /\ a1 # a4 /\ a2 # a3 /\ a2 # a4 /\ a3 # a4
  BY <1>2
<1>6. PICK I, A : I = Ids(c) /\ A = {u \in Call : u[1] = c /\ Used(u) /\ uc[u].to = "attend"}
  OBVIOUS
<1>7. \A a \in {a1, a2, a3, a4} : a \in I \cup A
  BY <1>0, <1>3, <1>4, <1>6 DEF Calls, Ids
<1>8. \A u, v, w \in I : u = v \/ u = w \/ v = w
  BY <1>0, <1>6 DEF Counts
<1>9. ASSUME NEW u \in A, NEW w \in A
      PROVE  u = w
  <2>1. u \in Call /\ w \in Call /\ Used(u) /\ Used(w) /\ uc[u].to = "attend" /\ uc[w].to = "attend"
        /\ u[1] = c /\ w[1] = c
    BY <1>6, <1>9
  <2>2. ASSUME NEW z \in {u, w}
        PROVE  uc[z].ctx \in Ids(c) /\ uc[uc[z].ctx].st = "freed"
    <3>1. /\ uc[z].ctx \in Call /\ uc[z].ctx[1] = c
          /\ uc[uc[z].ctx].st = "freed" /\ uc[uc[z].ctx].to = "id"
      BY <1>0, <2>1, <2>2 DEF Calls
    <3>. QED
      BY <3>1 DEF Ids, Used
  <2>3. uc[u].ctx = uc[w].ctx
    BY <2>2
  <2>. QED
    BY <1>0, <2>1, <2>3 DEF Calls
<1>. QED
  BY <1>5, <1>7, <1>8, <1>9

(* So the handler can always make the first call.                          *)
LEMMA FirstCallLeft ==
  ASSUME Core, NEW c \in Client, NEW n \in Nat, AskId(c, n)
  PROVE  NextCall(c) \in Call
<1>1. /\ conn[c].rlen \in Nat /\ net[c].req \in Nat /\ peer[c].sent \in Nat /\ Length(c) \in Nat
      /\ conn[c].rlen + net[c].req <= peer[c].sent /\ peer[c].sent <= Length(c) + Extra
  BY CountOf
<1>2. n \in 1..net[c].req
  BY DEF AskId, Took
<1>3. conn[c].rlen <= Length(c)
  BY <1>1, <1>2, Numbers
<1>4. \A u, w \in Ids(c) : u = w
  BY <1>1, <1>3 DEF Core, Counts
<1>. QED
  BY <1>4, CallsLeft

LEMMA SecondCallLeft ==
  ASSUME Core, NEW u \in Call, AskAttend(u)
  PROVE  NextCall(u[1]) \in Call
<1>1. u[1] \in Client /\ u \in Ids(u[1]) /\ uc[u].st # "freed"
  BY Pairs DEF AskAttend, GotAll, Ids, Used
<1>2. \A v, w \in Ids(u[1]) : u = v \/ u = w \/ v = w
  BY <1>1 DEF Core, Counts
<1>3. \A v, w \in Ids(u[1]) : uc[v].st = "freed" /\ uc[w].st = "freed" => v = w
  BY <1>1, <1>2
<1>. QED
  BY <1>1, <1>3, CallsLeft

LEMMA CoreAskId ==
  ASSUME Core, NEW c \in Client, NEW n \in Nat, AskId(c, n)
  PROVE  Core'
<1>0. Types /\ Sizes /\ Calls /\ Contexts /\ Answers /\ Counts /\ c \in Conn /\ c \notin Call
  BY Pairs DEF Core
<1>1. PICK q, m, v : q = net[c].req - n /\ m = conn[c].rlen + n /\ v = NextCall(c)
  OBVIOUS
<1>2. PICK nc, cc, x, y : /\ nc = [net[c] EXCEPT !.req = q] /\ cc = [conn[c] EXCEPT !.rlen = m]
                          /\ x = StartUpstream("id", c, v)
                          /\ y = [stage |-> "id", name |-> c, id |-> Nil]
  OBVIOUS
<1>3. /\ conn[c].st = "read" /\ n \in 1..net[c].req /\ m <= BufLen /\ m >= Length(c)
      /\ Asks[c] = "lookup"
      /\ net' = [net EXCEPT ![c] = nc] /\ conn' = [conn EXCEPT ![c] = cc]
      /\ uc' = [uc EXCEPT ![v] = x] /\ ctx' = [ctx EXCEPT ![v] = y]
      /\ UNCHANGED <<over, peer>>
  BY <1>1, <1>2 DEF AskId, Took, Complete
<1>4. /\ net[c] \in NetType /\ conn[c] \in ConnType /\ net[c].req \in Nat /\ net[c].req <= Window
      /\ conn[c].rlen \in Nat /\ Length(c) \in Nat /\ peer[c].sent \in Nat
      /\ conn[c].rlen + net[c].req <= peer[c].sent /\ peer[c].sent <= Length(c) + Extra
  BY <1>0, Fields, CountOf
<1>5. /\ q \in 0..Window /\ m \in 0..BufLen /\ m + q = conn[c].rlen + net[c].req
      /\ m \in Nat /\ q \in Nat /\ m > conn[c].rlen
  BY <1>1, <1>3, <1>4, Numbers
<1>6. nc \in NetType /\ nc.req = q /\ nc.res = net[c].res
  BY <1>2, <1>4, <1>5 DEF NetType
<1>7. cc \in ConnType /\ cc.rlen = m /\ cc.st = "read"
  BY <1>2, <1>3, <1>4, <1>5 DEF ConnType
<1>8. y \in Context /\ y # Nil /\ y.stage = "id" /\ y.name = c
  BY <1>2, DistinctAssumption DEF Context
<1>9. /\ net'[c] = nc /\ conn'[c] = cc
      /\ \A k \in Conn : k # c => net'[k] = net[k] /\ conn'[k] = conn[k]
      /\ net' \in [Conn -> NetType] /\ conn' \in [Conn -> ConnType]
  BY <1>0, <1>3, <1>6, <1>7 DEF Types
<1>10. /\ \A k \in Conn : net'[k].res = net[k].res
       /\ \A w \in Call : conn'[w] = conn[w]
       /\ \A k \in Conn : conn'[k].st = "write" => conn'[k].wbuf # Nil
       /\ over' \in {"no", "wild", "sigpipe"} /\ UNCHANGED peer
  <2>1. ASSUME NEW k \in Conn
        PROVE  net'[k].res = net[k].res /\ (conn'[k].st = "write" => conn'[k].wbuf # Nil)
    BY <1>0, <1>6, <1>7, <1>9, <2>1 DEF Sizes
  <2>2. \A w \in Call : conn'[w] = conn[w]
    BY <1>0, <1>9, Pairs
  <2>. QED
    BY <1>0, <1>3, <2>1, <2>2 DEF Types
<1>11. CASE v \in Call
  <2>1. /\ v[1] = c /\ ~Used(v) /\ \A j \in 1..v[2] : j = v[2] \/ Used(<<c, j>>)
    BY <1>0, <1>1, <1>11, FreshCall
  <2>2. x \in CallType /\ x = StartUpstream("id", v[1], v) /\ x.st = "connect" /\ x.to = "id"
    <3>1. << >> \in Seq(Replies) /\ 0 \in 0..ReqLen
      BY Numbers
    <3>. QED
      BY <1>2, <1>11, <2>1, <3>1 DEF StartUpstream, CallType
  <2>3. /\ uc' \in [Call -> CallType] /\ uc'[v] = x /\ \A w \in Call : w # v => uc'[w] = uc[w]
        /\ ctx' \in [Call -> Context \cup {Nil}] /\ ctx'[v] = y
        /\ \A w \in Call : w # v => ctx'[w] = ctx[w]
    BY <1>0, <1>3, <1>8, <1>11, <2>2 DEF Types
  <2>4. \A w \in Call : w # v => SameCall(w) /\ uc'[w].rbuf = uc[w].rbuf
    BY <2>3 DEF SameCall
  <2>5. ASSUME NEW w \in Open
        PROVE  ctx'[uc[w].ctx] = ctx[uc[w].ctx]
    <3>1. uc[w].ctx \in Call /\ Used(uc[w].ctx)
      BY <1>0, CallFields, ContextInUse
    <3>2. uc[w].ctx # v
      BY <2>1, <3>1
    <3>. QED
      BY <2>3, <3>1, <3>2
  <2>6. Ids(c)' = Ids(c) \cup {v} /\ \A d \in Client : d # c => Ids(d)' = Ids(d)
    <3>1. ASSUME NEW w \in Call
          PROVE  /\ (Used(w) /\ uc[w].to = "id")' <=> ((Used(w) /\ uc[w].to = "id") \/ w = v)
      BY <2>2, <2>3 DEF Used
    <3>. QED
      BY <1>11, <2>1, <3>1 DEF Ids
  <2>7. Counts'
    <3>1. ASSUME NEW d \in Client
          PROVE  /\ conn'[d].rlen + net'[d].req <= peer'[d].sent
                 /\ peer'[d].sent <= Length(d) + Extra
                 /\ conn'[d].rlen < Length(d) => Ids(d)' = {}
                 /\ conn'[d].rlen = Length(d) => \A u, w \in Ids(d)' : u = w
                 /\ \A u, w, z \in Ids(d)' : u = w \/ u = z \/ w = z
      <4>1. CASE d # c
        <5>1. d \in Conn /\ net'[d] = net[d] /\ conn'[d] = conn[d] /\ peer'[d] = peer[d] /\ Ids(d)' = Ids(d)
          BY <1>3, <1>9, <2>6, <4>1, Pairs
        <5>. QED
          BY <1>0, <5>1 DEF Counts
      <4>2. CASE d = c
        <5>1. /\ conn'[d].rlen = m /\ net'[d].req = q /\ peer'[d] = peer[c] /\ Ids(d)' = Ids(c) \cup {v}
          BY <1>3, <1>6, <1>7, <1>9, <2>6, <4>2
        <5>2. /\ conn[c].rlen < Length(c) => Ids(c) = {}
              /\ conn[c].rlen = Length(c) => \A u, w \in Ids(c) : u = w
          BY <1>0 DEF Counts
        <5>3. m + q <= peer[c].sent /\ peer[c].sent <= Length(c) + Extra /\ ~(m < Length(c))
          BY <1>3, <1>4, <1>5
        <5>4. conn[c].rlen < Length(c) \/ (m = Length(c) + 1 /\ conn[c].rlen = Length(c))
          <6>1. PICK a, l, e, s : a = conn[c].rlen /\ l = Length(c) /\ e = Extra /\ s = peer[c].sent
            OBVIOUS
          <6>2. /\ a \in Nat /\ l \in Nat /\ e \in {0, 1} /\ s \in Nat /\ m \in Nat /\ q \in Nat
                /\ m > a /\ m + q <= s /\ s <= l + e
            <7>1. e \in {0, 1}
              BY <6>1, Numbers
            <7>2. a \in Nat /\ l \in Nat /\ s \in Nat
              BY <1>4, <6>1
            <7>3. m \in Nat /\ q \in Nat /\ m > a
              BY <1>5, <6>1
            <7>4. m + q <= s /\ s <= l + e
              BY <5>3, <6>1
            <7>. QED
              BY <7>1, <7>2, <7>3, <7>4
          <6>3. a < l \/ (m = l + 1 /\ a = l)
            BY <6>2
          <6>. QED
            BY <6>1, <6>3
        <5>5. CASE conn[c].rlen < Length(c)
          <6>1. Ids(d)' = {v}
            BY <5>1, <5>2, <5>5
          <6>2. (\A u, w \in {v} : u = w) /\ (\A u, w, z \in {v} : u = w \/ u = z \/ w = z)
            OBVIOUS
          <6>. QED
            BY <4>2, <5>1, <5>3, <6>1, <6>2
        <5>6. CASE m = Length(c) + 1 /\ conn[c].rlen = Length(c)
          <6>1. \A u, w \in Ids(c) : u = w
            BY <5>2, <5>6
          <6>2. \A u, w, z \in Ids(c) \cup {v} : u = w \/ u = z \/ w = z
            BY <6>1
          <6>3. m # Length(c)
            BY <1>4, <5>6
          <6>. QED
            BY <4>2, <5>1, <5>3, <6>2, <6>3
        <5>. QED
          BY <5>4, <5>5, <5>6
      <4>. QED
        BY <4>1, <4>2
    <3>. QED
      BY <3>1 DEF Counts, Length, Extra
  <2>8. "id" \in {"id", "attend"} /\ Asks[v[1]] = "lookup" /\ uc'[v] = StartUpstream("id", v[1], v)
    BY <1>3, <2>1, <2>2, <2>3
  <2>9. ctx'[v] # Nil /\ ctx'[v].stage = "id" /\ ctx'[v].name = v[1]
    BY <1>8, <2>1, <2>3
  <2>10. \A j \in 1..v[2] : j = v[2] \/ Used(<<v[1], j>>)
    BY <2>1
  <2>11. PICK to : to = "id"
    OBVIOUS
  <2>12. /\ to \in {"id", "attend"} /\ uc'[v] = StartUpstream(to, v[1], v) /\ ctx'[v].stage = to
         /\ ~(to = "attend")
    BY <2>8, <2>9, <2>11
  <2>. QED
    BY <1>9, <1>10, <1>11, <2>1, <2>3, <2>4, <2>5, <2>7, <2>8, <2>9, <2>10, <2>12, NewCall
<1>12. v \in Call
  BY <1>1, FirstCallLeft
<1>. QED
  BY <1>11, <1>12

LEMMA CoreAskAttend ==
  ASSUME Core, NEW u \in Call, AskAttend(u)
  PROVE  Core'
<1>0. Types /\ Sizes /\ Calls /\ Contexts /\ Answers /\ Counts
  BY DEF Core
<1>1. PICK c, v : c = u[1] /\ v = NextCall(c)
  OBVIOUS
<1>2. u \in Open /\ uc[u].st = "read" /\ uc[u].to = "id" /\ Used(u) /\ c \in IdKeys
  BY <1>1 DEF AskAttend, GotAll, Open, Used
<1>3. /\ c \in Client /\ v \in Call /\ u \in Conn
  BY <1>1, SecondCallLeft, Pairs
<1>4. /\ v[1] = c /\ ~Used(v) /\ \A j \in 1..v[2] : j = v[2] \/ Used(<<c, j>>)
  BY <1>0, <1>1, <1>3, FreshCall
<1>5. v # u
  BY <1>2, <1>4
<1>6. PICK e : e = << >>
  OBVIOUS
<1>7. PICK nu, uu, x, y : /\ nu = [net[u] EXCEPT !.res = e, !.left = TRUE]
                          /\ uu = [uc[u] EXCEPT !.st = "freed"]
                          /\ x = StartUpstream("attend", c, u)
                          /\ y = [ctx[u] EXCEPT !.stage = "attend", !.id = c]
  OBVIOUS
<1>8. /\ uc[u].ctx = u /\ Asks[c] = "lookup"
      /\ ctx[u] \in Context /\ ctx[u].name = c
  <2>1. uc[u].ctx = u /\ Asks[c] = "lookup"
    BY <1>0, <1>1, <1>2 DEF Calls
  <2>2. ctx[u] # Nil /\ ctx[u].name = c
    BY <1>0, <1>1, <1>2, <2>1 DEF Contexts
  <2>. QED
    BY <1>0, <2>1, <2>2 DEF Types
<1>9. /\ net' = [net EXCEPT ![u] = nu]
      /\ uc' = [[uc EXCEPT ![u] = uu] EXCEPT ![v] = x]
      /\ ctx' = [ctx EXCEPT ![u] = y]
      /\ over' \in {"no", "wild", "sigpipe"} /\ UNCHANGED <<conn, peer>>
  <2>1. net' = [net EXCEPT ![u] = nu]
    BY <1>0, <1>3, <1>6, <1>7 DEF AskAttend, GotAll, Types
  <2>2. uc' = [[uc EXCEPT ![u] = uu] EXCEPT ![v] = x]
    BY <1>1, <1>7 DEF AskAttend
  <2>3. ctx' = [ctx EXCEPT ![u] = y]
    BY <1>0, <1>1, <1>7 DEF AskAttend, Types
  <2>. QED
    BY <1>0, <2>1, <2>2, <2>3 DEF AskAttend, GotAll, Types
<1>10. nu \in NetType /\ nu.res = << >>
  <2>1. e \in Seq(Replies) /\ net[u] \in NetType
    BY <1>0, <1>3, <1>6, Fields
  <2>2. nu \in NetType /\ nu.res = e
    BY <1>7, <2>1 DEF NetType
  <2>. QED
    BY <1>6, <2>2
<1>11. /\ uu \in CallType /\ uu.st = "freed" /\ uu.to = uc[u].to /\ uu.arg = uc[u].arg
       /\ uu.ctx = uc[u].ctx /\ uu.rbuf = uc[u].rbuf
  <2>1. uc[u] \in CallType
    BY <1>0, Fields
  <2>. QED
    BY <1>7, <2>1 DEF CallType
<1>12. x \in CallType /\ x = StartUpstream("attend", v[1], u) /\ x.to = "attend"
  <2>1. << >> \in Seq(Replies) /\ 0 \in 0..ReqLen
    BY Numbers
  <2>. QED
    BY <1>3, <1>4, <1>7, <2>1 DEF StartUpstream, CallType
<1>13. y \in Context /\ y # Nil /\ y.stage = "attend" /\ y.name = c /\ y.id = c
  <2>1. y \in Context /\ y.stage = "attend" /\ y.name = c /\ y.id = c
    BY <1>3, <1>7, <1>8 DEF Context
  <2>. QED
    BY <2>1, DistinctAssumption
<1>14. /\ uc' \in [Call -> CallType] /\ uc'[v] = x /\ uc'[u] = uu
       /\ \A w \in Call : w # v /\ w # u => uc'[w] = uc[w]
  BY <1>0, <1>3, <1>5, <1>9, <1>11, <1>12 DEF Types
<1>15. /\ ctx' \in [Call -> Context \cup {Nil}] /\ ctx'[u] = y
       /\ \A w \in Call : w # u => ctx'[w] = ctx[w]
  BY <1>0, <1>9, <1>13 DEF Types
<1>16. /\ net' \in [Conn -> NetType] /\ net'[u] = nu /\ \A k \in Conn : k # u => net'[k] = net[k]
  BY <1>0, <1>3, <1>9, <1>10 DEF Types
<1>17. \A w \in Call : w # v => SameCall(w) /\ uc'[w].rbuf = uc[w].rbuf
  <2>1. SUFFICES ASSUME NEW w \in Call, w # v
                 PROVE  SameCall(w) /\ uc'[w].rbuf = uc[w].rbuf
    OBVIOUS
  <2>2. CASE w = u
    BY <1>2, <1>11, <1>14, <2>2 DEF SameCall
  <2>3. CASE w # u
    BY <1>14, <2>1, <2>3 DEF SameCall
  <2>. QED
    BY <2>2, <2>3
<1>18. ASSUME NEW w \in Open, uc'[w].st # "freed"
       PROVE  ctx'[uc[w].ctx] = ctx[uc[w].ctx]
  <2>1. w # u
    BY <1>11, <1>14, <1>18
  <2>2. uc[w].ctx # u /\ uc[w].ctx \in Call
    BY <1>0, <1>2, <1>8, <2>1, OneContextEach, CallFields, ContextInUse
  <2>. QED
    BY <1>15, <2>2
<1>19. ASSUME NEW w \in Call, Used(w), uc[w].to = "attend"
       PROVE  uc[w].ctx # u
  <2>1. uc[uc[w].ctx].st = "freed"
    BY <1>0, <1>19 DEF Calls
  <2>. QED
    BY <1>2, <2>1
<1>20. Counts'
  <2>1. ASSUME NEW d \in Client
        PROVE  /\ Ids(d)' = Ids(d)
               /\ conn'[d].rlen + net'[d].req <= peer'[d].sent
               /\ peer'[d].sent <= Length(d) + Extra
               /\ conn'[d].rlen # conn[d].rlen => conn[d].rlen < Length(d)
               /\ conn'[d].rlen >= conn[d].rlen
    <3>1. ASSUME NEW w \in Call
          PROVE  (Used(w) /\ uc[w].to = "id")' <=> Used(w) /\ uc[w].to = "id"
      <4>1. CASE w = v
        BY <1>4, <1>12, <1>14, <4>1
      <4>2. CASE w # v
        BY <1>17, <4>2 DEF SameCall, Used
      <4>. QED
        BY <4>1, <4>2
    <3>2. Ids(d)' = Ids(d)
      BY <3>1 DEF Ids
    <3>3. d \in Conn /\ d # u
      BY Pairs
    <3>4. net'[d] = net[d] /\ conn' = conn /\ peer' = peer
      BY <1>9, <1>16, <3>3
    <3>5. /\ conn[d].rlen + net[d].req <= peer[d].sent /\ peer[d].sent <= Length(d) + Extra
          /\ conn[d].rlen \in Nat
      BY CountOf
    <3>. QED
      BY <3>2, <3>4, <3>5
  <2>2. Types'
    BY <1>0, <1>9, <1>14, <1>15, <1>16 DEF Types
  <2>. QED
    BY <1>0, <2>1, <2>2, CountsKept
<1>21. PICK to : to = "attend"
  OBVIOUS
<1>22. /\ to \in {"id", "attend"} /\ uc'[v] = StartUpstream(to, v[1], u)
       /\ ~(to = "id") /\ Asks[v[1]] = "lookup"
       /\ \A j \in 1..v[2] : j = v[2] \/ Used(<<v[1], j>>)
  BY <1>4, <1>8, <1>12, <1>14, <1>21
<1>23. /\ \A k \in Conn : net'[k].res = net[k].res \/ net'[k].res = << >>
       /\ conn' \in [Conn -> ConnType]
       /\ \A w \in Call : conn'[w] = conn[w]
       /\ \A k \in Conn : conn'[k].st = "write" => conn'[k].wbuf # Nil
       /\ over' \in {"no", "wild", "sigpipe"} /\ UNCHANGED peer
  <2>1. \A k \in Conn : net'[k].res = net[k].res \/ net'[k].res = << >>
    BY <1>10, <1>16
  <2>2. conn' = conn
    BY <1>9
  <2>. QED
    BY <1>0, <1>9, <2>1, <2>2 DEF Types, Sizes
<1>24. /\ v[1] \in IdKeys /\ u[1] = v[1] /\ uc'[u].st = "freed" /\ uc'[u].to = "id"
       /\ \A w \in Call : Used(w) /\ uc[w].to = "attend" => uc[w].ctx # u
       /\ ctx'[u] # Nil /\ ctx'[u].stage = to /\ ctx'[u].name = v[1] /\ ctx'[u].id = v[1]
  BY <1>1, <1>2, <1>4, <1>11, <1>13, <1>14, <1>15, <1>19, <1>21
<1>. QED
  BY <1>3, <1>4, <1>14, <1>15, <1>16, <1>17, <1>18, <1>20, <1>22, <1>23, <1>24, NewCall

LEMMA CoreInit == ASSUME Init PROVE Core
<1>0. << >> \in Seq(Replies) /\ Len(<< >>) = 0 /\ 0 \in 0..Window /\ 0 \in 0..BufLen
      /\ 0 \in 0..ResLen /\ 0 \in 0..ReqLen
  BY Numbers
<1>1. Types
  <2>1. net \in [Conn -> NetType]
    BY <1>0 DEF Init, NetType
  <2>2. conn \in [Conn -> ConnType]
    BY <1>0 DEF Init, ConnType
  <2>3. uc \in [Call -> CallType]
    BY <1>0 DEF Init, CallType
  <2>4. peer \in [Client -> PeerType]
    BY <1>0 DEF Init, PeerType
  <2>. QED
    BY <2>1, <2>2, <2>3, <2>4 DEF Init, Types
<1>2. Sizes
  BY <1>0, Numbers DEF Init, Sizes
<1>3. \A u \in Call : ~Used(u) /\ uc[u].to = Nil /\ u \in Conn
  BY Pairs DEF Init, Used
<1>4. Calls /\ Contexts /\ Answers
  BY <1>3 DEF Init, Calls, Contexts, Answers, Open, Used
<1>5. Counts
  <2>1. \A c \in Client : Ids(c) = {}
    BY <1>3 DEF Ids
  <2>2. \A c \in Client : c \in Conn /\ conn[c].rlen = 0 /\ net[c].req = 0 /\ peer[c].sent = 0
    BY Pairs DEF Init
  <2>. QED
    BY <2>1, <2>2, Numbers DEF Counts
<1>. QED
  BY <1>1, <1>2, <1>4, <1>5 DEF Core

LEMMA CoreKilled ==
  ASSUME Core, UNCHANGED <<net, conn, uc, ctx, peer>>, over' \in {"no", "wild", "sigpipe"}
  PROVE  Core'
<1>1. Types /\ Sizes /\ Calls /\ Contexts /\ Answers /\ Counts
  BY DEF Core
<1>2. Types'
  BY <1>1 DEF Types
<1>3. Sizes' /\ Counts'
  BY <1>1 DEF Sizes, Counts, Ids, Used, Length, Extra
<1>4. /\ \A u \in Call : ~Used(u) => conn'[u].st = "none"
      /\ \A u \in Call : AnswersOf(u) => AnswersOf(u)'
  BY <1>1 DEF Calls, AnswersOf, AllOf, Used, ServiceReply, HandleId, HandleAttend
<1>. QED
  BY <1>2, <1>3, <1>4, ServerSteps

LEMMA CoreStep == ASSUME Core, Branch PROVE Core'
<1>1. CASE \E s \in {"frontend", "id", "attend"} : OnAccept(s)
  BY <1>1, CoreAccept
<1>2. ASSUME NEW k \in Conn, NEW n \in Nat, ReadPart(k, n) PROVE Core'
  BY <1>2, CoreReadPart
<1>3. ASSUME NEW k \in Conn, NEW n \in Nat, WriteOut(k, n) PROVE Core'
  BY <1>3, CoreWriteOut
<1>4. ASSUME NEW k \in Conn, NEW n \in Nat, NEW r \in Replies, ReplyNow(k, n, r) PROVE Core'
  BY <1>4, CoreReplyNow
<1>5. ASSUME NEW k \in Conn, Close(k) PROVE Core'
  BY <1>5, CoreConnFree, TypesOf DEF Close
<1>6. ASSUME NEW c \in Client, NEW n \in Nat, AskId(c, n) PROVE Core'
  BY <1>6, CoreAskId
<1>7. CASE \E c \in Client : ClientConnect(c) \/ ClientSend(c) \/ ClientRead(c) \/ ClientLeave(c)
  BY <1>7, CoreClient
<1>8. ASSUME NEW u \in Call, Break(u) PROVE Core'
  BY <1>8, CoreConnFree, Pairs DEF Break, Used
<1>9. ASSUME NEW u \in Call, Fail(u) \/ Connected(u) \/ AskAttend(u) PROVE Core'
  BY <1>9, CoreFail, CoreConnected, CoreAskAttend
<1>10. ASSUME NEW u \in Call, NEW n \in Nat, SendPart(u, n) \/ GetPart(u, n) PROVE Core'
  BY <1>10, CoreSendPart, CoreGetPart
<1>11. ASSUME NEW u \in Call, NEW r \in Replies, Answer(u, r) PROVE Core'
  BY <1>11, CoreAnswer
<1>12. CASE Killed \/ UNCHANGED vars
  BY <1>12, CoreKilled, TypesOf DEF Killed, vars
<1>. QED
  BY <1>1, <1>2, <1>3, <1>4, <1>5, <1>6, <1>7, <1>8, <1>9, <1>10, <1>11, <1>12 DEF Branch

LEMMA CoreAlways == Spec => []Core
<1>1. Init => Core
  BY CoreInit
<1>2. Core /\ [Next]_vars => Core'
  BY Branches, CoreStep
<1>. QED
  BY <1>1, <1>2, PTL DEF Spec
-----------------------------------------------------------------------------
(* The streams of the calls                                                *)

LEMMA FlowAt ==
  ASSUME Flow, NEW k,
         \A u \in Call : u # k => net'[u] = net[u] /\ conn'[u] = conn[u] /\ uc'[u] = uc[u],
         k \in Call => Passing(net'[k], conn'[k], uc'[k])
  PROVE  Flow'
<1>1. SUFFICES ASSUME NEW u \in Call PROVE Passing(net'[u], conn'[u], uc'[u])
  BY DEF Flow, Passing, Written
<1>2. CASE u = k
  BY <1>2
<1>3. CASE u # k
  <2>1. Passing(net[u], conn[u], uc[u])
    BY DEF Flow
  <2>. QED
    BY <1>3, <2>1
<1>. QED
  BY <1>2, <1>3

(* The fields of call k, with names for its three parts.                   *)
LEMMA PassingFields ==
  ASSUME Core, Flow, NEW u \in Call
  PROVE  /\ Passing(net[u], conn[u], uc[u])
         /\ net[u] \in NetType /\ conn[u] \in ConnType /\ uc[u] \in CallType /\ u \in Conn
BY Fields, Pairs DEF Flow, Core

LEMMA FlowAccept ==
  ASSUME Core, Flow, NEW s \in {"frontend", "id", "attend"}, OnAccept(s)
  PROVE  Flow'
<1>1. SUFFICES ASSUME NEW u \in Call PROVE Passing(net'[u], conn'[u], uc'[u])
  BY DEF Flow, Passing, Written
<1>2. PICK t, k, z : t = net[u] /\ k = conn[u] /\ z = uc[u]
  OBVIOUS
<1>3. Passing(t, k, z) /\ k \in ConnType /\ u \in Conn
  BY <1>2, PassingFields
<1>4. net'[u] = t /\ uc'[u] = z /\ conn'[u] = IF u \in Pending(s) THEN [k EXCEPT !.st = "read"] ELSE k
  BY <1>2, <1>3 DEF OnAccept
<1>5. CASE u \in Pending(s)
  <2>1. PICK j : j = [k EXCEPT !.st = "read"]
    OBVIOUS
  <2>2. k.st = "none" /\ j.st = "read" /\ j.rlen = k.rlen
    BY <1>2, <1>3, <1>5, <2>1 DEF Pending, ConnType
  <2>3. Passing(t, j, z)
    BY <1>3, <2>2 DEF Passing, Written
  <2>. QED
    BY <1>4, <1>5, <2>1, <2>3
<1>6. CASE u \notin Pending(s)
  BY <1>3, <1>4, <1>6
<1>. QED
  BY <1>5, <1>6

LEMMA FlowReadPart ==
  ASSUME Core, Flow, NEW u \in Conn, NEW n \in Nat, ReadPart(u, n)
  PROVE  Flow'
<1>0. Types /\ net[u] \in NetType /\ conn[u] \in ConnType
  BY Fields DEF Core
<1>1. PICK t, k, z : t = net[u] /\ k = conn[u] /\ z = uc[u]
  OBVIOUS
<1>2. PICK t2, k2, q, m : /\ q = t.req - n /\ m = k.rlen + n
                          /\ t2 = [t EXCEPT !.req = q] /\ k2 = [k EXCEPT !.rlen = m]
  OBVIOUS
<1>3. /\ net' = [net EXCEPT ![u] = t2] /\ conn' = [conn EXCEPT ![u] = k2] /\ uc' = uc
      /\ k.st = "read" /\ n \in 1..t.req
  BY <1>1, <1>2 DEF ReadPart, Took
<1>4. \A v \in Conn : v # u => net'[v] = net[v] /\ conn'[v] = conn[v]
  BY <1>0, <1>3 DEF Types
<1>5. ASSUME u \in Call PROVE Passing(net'[u], conn'[u], uc'[u])
  <2>1. Passing(t, k, z) /\ t \in NetType /\ k \in ConnType /\ t.req \in Nat /\ k.rlen \in Nat
    BY <1>0, <1>1, <1>5, PassingFields, Fields
  <2>2. /\ t2.req = q /\ t2.res = t.res /\ t2.left = t.left /\ t2.closed = t.closed
        /\ k2.rlen = m /\ k2.st = "read"
    BY <1>2, <1>3, <2>1 DEF NetType, ConnType
  <2>3. m + q = k.rlen + t.req
    BY <1>2, <2>1
  <2>4. Passing(t2, k2, z)
    BY <1>3, <2>1, <2>2, <2>3 DEF Passing, Written
  <2>5. net'[u] = t2 /\ conn'[u] = k2 /\ uc'[u] = z
    BY <1>0, <1>1, <1>3 DEF Types
  <2>. QED
    BY <2>4, <2>5
<1>. QED
  BY <1>3, <1>4, <1>5, Pairs, FlowAt

LEMMA FlowReplyNow ==
  ASSUME Core, Flow, NEW u \in Conn, NEW n \in Nat, NEW r \in Replies, ReplyNow(u, n, r)
  PROVE  Flow'
<1>0. Types /\ net[u] \in NetType /\ conn[u] \in ConnType
  BY Fields DEF Core
<1>1. PICK t, k, z : t = net[u] /\ k = conn[u] /\ z = uc[u]
  OBVIOUS
<1>2. PICK t2, k2, q : /\ q = t.req - n /\ t2 = [t EXCEPT !.req = q]
                       /\ k2 = [k EXCEPT !.st = "write", !.wbuf = r, !.wpos = 0]
  OBVIOUS
<1>3. /\ net' = [net EXCEPT ![u] = t2] /\ conn' = [conn EXCEPT ![u] = k2] /\ uc' = uc
      /\ k.st = "read" /\ n \in 1..t.req /\ k.rlen + n >= Length(u)
  BY <1>0, <1>1, <1>2 DEF ReplyNow, Took, Complete, Types
<1>4. \A v \in Conn : v # u => net'[v] = net[v] /\ conn'[v] = conn[v]
  BY <1>0, <1>3 DEF Types
<1>5. ASSUME u \in Call PROVE Passing(net'[u], conn'[u], uc'[u])
  <2>1. /\ Passing(t, k, z) /\ t \in NetType /\ k \in ConnType /\ t.req \in Nat /\ k.rlen \in Nat
        /\ z.wpos \in Nat /\ z.wpos <= ReqLen /\ ReqLen \in Nat /\ ResLen \in Nat /\ ResLen >= 1
        /\ Length(u) = ReqLen
    BY <1>0, <1>1, <1>5, PassingFields, Fields, Numbers
  <2>2. /\ t2.req = q /\ t2.res = t.res /\ t2.left = t.left /\ t2.closed = t.closed
        /\ k2.st = "write" /\ k2.wpos = 0
    BY <1>2, <2>1 DEF NetType, ConnType
  <2>3. k.rlen + t.req = z.wpos
    BY <1>3, <2>1 DEF Passing
  <2>4. z.wpos = ReqLen
    BY <1>3, <2>1, <2>3
  <2>5. Passing(t2, k2, z)
    <3>1. /\ t.left => z.st = "freed"
          /\ ~t.closed
          /\ z.st = "none" => z.wpos = 0
          /\ z.wpos = ReqLen <=> z.st \in {"read", "freed"}
          /\ z.st # "freed" => Len(t.res) + Len(z.rbuf) = 0
      BY <1>3, <2>1 DEF Passing, Written
    <3>2. 0 < ResLen
      BY <2>1
    <3>. QED
      BY <2>2, <2>4, <3>1, <3>2 DEF Passing, Written
  <2>6. net'[u] = t2 /\ conn'[u] = k2 /\ uc'[u] = z
    BY <1>0, <1>1, <1>3 DEF Types
  <2>. QED
    BY <2>5, <2>6
<1>. QED
  BY <1>3, <1>4, <1>5, Pairs, FlowAt

LEMMA FlowClose ==
  ASSUME Core, Flow, NEW u \in Conn, Close(u)
  PROVE  Flow'
<1>0. Types /\ net[u] \in NetType /\ conn[u] \in ConnType
  BY Fields DEF Core
<1>1. PICK t, k, z : t = net[u] /\ k = conn[u] /\ z = uc[u]
  OBVIOUS
<1>2. PICK t2, k2 : t2 = [t EXCEPT !.closed = TRUE] /\ k2 = [k EXCEPT !.st = "freed"]
  OBVIOUS
<1>3. /\ net' = [net EXCEPT ![u] = t2] /\ conn' = [conn EXCEPT ![u] = k2] /\ uc' = uc
      /\ \/ k.st = "read" /\ IF t.req = 0 THEN t.left ELSE k.rlen = BufLen
         \/ k.st = "write" /\ t.left
  BY <1>1, <1>2 DEF Close, ConnFree
<1>4. \A v \in Conn : v # u => net'[v] = net[v] /\ conn'[v] = conn[v]
  BY <1>0, <1>3 DEF Types
<1>5. ASSUME u \in Call PROVE Passing(net'[u], conn'[u], uc'[u])
  <2>1. /\ Passing(t, k, z) /\ t \in NetType /\ k \in ConnType /\ t.req \in Nat /\ k.rlen \in Nat
        /\ z.wpos \in Nat /\ z.wpos <= ReqLen /\ ReqLen \in Nat /\ BufLen \in Nat /\ ReqLen <= BufLen
    BY <1>0, <1>1, <1>5, PassingFields, Fields, Numbers
  <2>2. /\ t2.req = t.req /\ t2.res = t.res /\ t2.left = t.left /\ k2.st = "freed"
    BY <1>2, <2>1 DEF NetType, ConnType
  <2>3. t.left
    <3>1. CASE k.st = "read"
      <4>1. k.rlen + t.req = z.wpos
        BY <2>1, <3>1 DEF Passing
      <4>2. t.req = 0 \/ k.rlen # BufLen
        BY <2>1, <4>1
      <4>. QED
        BY <1>3, <3>1, <4>2
    <3>2. CASE k.st = "write"
      BY <1>3, <3>2
    <3>. QED
      BY <1>3, <3>1, <3>2
  <2>4. z.st = "freed" /\ z.wpos = ReqLen
    BY <2>1, <2>3 DEF Passing
  <2>5. Passing(t2, k2, z)
    BY <2>2, <2>4 DEF Passing
  <2>6. net'[u] = t2 /\ conn'[u] = k2 /\ uc'[u] = z
    BY <1>0, <1>1, <1>3 DEF Types
  <2>. QED
    BY <2>5, <2>6
<1>. QED
  BY <1>3, <1>4, <1>5, Pairs, FlowAt

LEMMA FlowWriteOut ==
  ASSUME Core, Flow, NEW u \in Conn, NEW n \in Nat, WriteOut(u, n)
  PROVE  Flow'
<1>0. Types /\ net[u] \in NetType /\ conn[u] \in ConnType
  BY Fields DEF Core
<1>1. PICK t, k, z : t = net[u] /\ k = conn[u] /\ z = uc[u]
  OBVIOUS
<1>2. PICK r, s, m, b, st :
        /\ r = k.wbuf /\ s = [i \in 1..n |-> r] /\ m = k.wpos + n /\ b = (k.wpos + n = ResLen)
        /\ st = IF k.wpos + n = ResLen THEN "freed" ELSE "write"
  OBVIOUS
<1>3. PICK t2, k2 : /\ t2 = [t EXCEPT !.res = t.res \o s, !.closed = b]
                    /\ k2 = [k EXCEPT !.wpos = m, !.st = st]
  OBVIOUS
<1>4. /\ k.st = "write" /\ n \in 1..(ResLen - k.wpos)
      /\ conn' = [conn EXCEPT ![u] = k2] /\ net' = [net EXCEPT ![u] = t2] /\ uc' = uc
  BY <1>0, <1>1, <1>2, <1>3 DEF WriteOut, Types
<1>5. \A v \in Conn : v # u => net'[v] = net[v] /\ conn'[v] = conn[v]
  BY <1>0, <1>4 DEF Types
<1>6. ASSUME u \in Call PROVE Passing(net'[u], conn'[u], uc'[u])
  <2>1. /\ Passing(t, k, z) /\ t \in NetType /\ k \in ConnType
        /\ t.res \in Seq(Replies) /\ k.wpos \in Nat /\ k.wpos <= ResLen /\ ResLen \in Nat
        /\ Len(t.res) \in Nat /\ Len(z.rbuf) \in Nat /\ r \in Replies
    BY <1>0, <1>1, <1>2, <1>4, <1>6, PassingFields, Fields, Numbers, TypesOf
  <2>2. Len(t.res \o s) = Len(t.res) + n
    <3>1. PICK p : p = t.res
      OBVIOUS
    <3>2. s \in Seq(Replies) /\ Len(s) = n
      BY <1>2, <2>1, Filled
    <3>3. Len(p \o s) = Len(p) + n
      BY <2>1, <3>1, <3>2, Joined
    <3>. QED
      BY <3>1, <3>3
  <2>3. /\ t2.req = t.req /\ t2.res = t.res \o s /\ t2.left = t.left /\ t2.closed = b
        /\ k2.st = st /\ k2.wpos = m /\ k2.rlen = k.rlen
    BY <1>3, <2>1 DEF NetType, ConnType
  <2>4. /\ t.left => z.st = "freed"
        /\ z.st = "none" => z.wpos = 0
        /\ z.wpos = ReqLen <=> z.st \in {"read", "freed"}
        /\ z.wpos = ReqLen
        /\ z.st # "freed" => Len(t.res) + Len(z.rbuf) = k.wpos
    BY <1>4, <2>1 DEF Passing, Written
  <2>5. Len(t2.res) = Len(t.res) + n
    BY <2>2, <2>3
  <2>6. z.st # "freed" => Len(t2.res) + Len(z.rbuf) = m
    <3>1. PICK x, y, w : x = Len(t.res) /\ y = Len(z.rbuf) /\ w = k.wpos
      OBVIOUS
    <3>2. x \in Nat /\ y \in Nat /\ w \in Nat /\ m = w + n /\ Len(t2.res) = x + n
      BY <1>2, <2>1, <2>5, <3>1
    <3>3. x + y = w => (x + n) + y = m
      BY <3>2
    <3>. QED
      BY <2>4, <3>1, <3>2, <3>3
  <2>8. Passing(t2, k2, z)
    <3>1. CASE m = ResLen
      <4>1. st = "freed" /\ b = TRUE
        BY <1>2, <3>1
      <4>2. z.st # "freed" => Len(t2.res) + Len(z.rbuf) = ResLen
        BY <2>6, <3>1
      <4>3. k2.st = "freed" /\ t2.left = t.left
        BY <2>3, <4>1
      <4>4. Written(k2) = ResLen
        BY <4>3 DEF Written
      <4>. QED
        BY <2>4, <4>2, <4>3, <4>4 DEF Passing
    <3>2. CASE m # ResLen
      <4>1. st = "write" /\ b = FALSE
        BY <1>2, <3>2
      <4>2. m < ResLen /\ m \in Nat
        BY <1>2, <1>4, <2>1, <3>2
      <4>3. z.st # "freed" => Len(t2.res) + Len(z.rbuf) = m
        BY <2>6
      <4>4. k2.st = "write" /\ t2.left = t.left /\ k2.wpos = m /\ ~t2.closed
        BY <2>3, <4>1
      <4>5. Written(k2) = m
        BY <4>4 DEF Written
      <4>. QED
        BY <2>4, <4>2, <4>3, <4>4, <4>5 DEF Passing
    <3>. QED
      BY <3>1, <3>2
  <2>9. net'[u] = t2 /\ conn'[u] = k2 /\ uc'[u] = z
    BY <1>0, <1>1, <1>4 DEF Types
  <2>. QED
    BY <2>8, <2>9
<1>. QED
  BY <1>4, <1>5, <1>6, Pairs, FlowAt

(* A step of call u alone.                                                 *)
LEMMA FlowCall ==
  ASSUME Core, Flow, NEW u \in Call, NEW t2, NEW z2,
         net' = [net EXCEPT ![u] = t2], uc' = [uc EXCEPT ![u] = z2],
         \A v \in Call : conn'[v] = conn[v],
         Passing(t2, conn[u], z2)
  PROVE  Flow'
<1>0. Types /\ u \in Conn
  BY Pairs DEF Core
<1>1. net'[u] = t2 /\ uc'[u] = z2 /\ conn'[u] = conn[u]
  BY <1>0 DEF Types
<1>2. \A v \in Call : v # u => net'[v] = net[v] /\ conn'[v] = conn[v] /\ uc'[v] = uc[v]
  BY <1>0, Pairs DEF Types
<1>. QED
  BY <1>1, <1>2, FlowAt

LEMMA FlowConnected ==
  ASSUME Core, Flow, NEW u \in Call, Connected(u)
  PROVE  Flow'
<1>1. PICK t, k, z : t = net[u] /\ k = conn[u] /\ z = uc[u]
  OBVIOUS
<1>2. PICK z2 : z2 = [z EXCEPT !.st = "write"]
  OBVIOUS
<1>3. Passing(t, k, z) /\ z \in CallType
  BY <1>1, PassingFields
<1>4. z.st = "connect" /\ z2.st = "write" /\ z2.wpos = z.wpos /\ z2.rbuf = z.rbuf
  BY <1>1, <1>2, <1>3 DEF Connected, CallType
<1>5. Passing(t, k, z2)
  BY <1>3, <1>4 DEF Passing
<1>6. /\ net' = [net EXCEPT ![u] = t] /\ uc' = [uc EXCEPT ![u] = z2] /\ conn' = conn
  BY <1>1, <1>2, Pairs DEF Connected, Core, Types
<1>. QED
  BY <1>1, <1>5, <1>6, FlowCall

LEMMA FlowSendPart ==
  ASSUME Core, Flow, NEW u \in Call, NEW n \in Nat, SendPart(u, n)
  PROVE  Flow'
<1>1. PICK t, k, z : t = net[u] /\ k = conn[u] /\ z = uc[u]
  OBVIOUS
<1>2. PICK q, m, st : /\ q = t.req + n /\ m = z.wpos + n
                      /\ st = IF z.wpos + n = ReqLen THEN "read" ELSE "write"
  OBVIOUS
<1>3. PICK t2, z2 : t2 = [t EXCEPT !.req = q] /\ z2 = [z EXCEPT !.wpos = m, !.st = st]
  OBVIOUS
<1>4. /\ Passing(t, k, z) /\ t \in NetType /\ k \in ConnType /\ z \in CallType
      /\ t.req \in Nat /\ k.rlen \in Nat /\ z.wpos \in Nat /\ Types
      /\ k.st \in {"none", "read", "write", "freed"}
  BY <1>1, PassingFields, Fields DEF Core
<1>5. /\ z.st = "write" /\ n \in 1..(ReqLen - z.wpos)
      /\ net' = [net EXCEPT ![u] = t2] /\ uc' = [uc EXCEPT ![u] = z2] /\ conn' = conn
  <2>1. z.st = "write" /\ n \in 1..(ReqLen - z.wpos) /\ conn' = conn
    BY <1>1 DEF SendPart
  <2>2. net' = [net EXCEPT ![u] = t2]
    BY <1>1, <1>2, <1>3, <1>4, Pairs DEF SendPart, Types
  <2>3. z2 = [uc[u] EXCEPT !.wpos = uc[u].wpos + n,
                           !.st = IF uc[u].wpos + n = ReqLen THEN "read" ELSE "write"]
    BY <1>1, <1>2, <1>3
  <2>4. uc' = [uc EXCEPT ![u] = z2]
    BY <1>1, <2>1, <2>3 DEF SendPart
  <2>. QED
    BY <2>1, <2>2, <2>4
<1>6. t2.req = q /\ t2.res = t.res /\ t2.left = t.left /\ t2.closed = t.closed
  BY <1>3, <1>4 DEF NetType
<1>7. z2.st = st /\ z2.wpos = m /\ z2.rbuf = z.rbuf
  BY <1>3, <1>4 DEF CallType
<1>8. z.wpos # ReqLen /\ k.st \in {"none", "read"} /\ ~t.left /\ ~t.closed
  BY <1>4, <1>5 DEF Passing
<1>9. k.rlen + t.req = z.wpos /\ Len(t.res) + Len(z.rbuf) = 0
  BY <1>4, <1>5, <1>8 DEF Passing, Written
<1>10. k.rlen + q = m
  BY <1>2, <1>4, <1>9
<1>11. st \in {"read", "write"} /\ (m = ReqLen <=> st = "read")
  BY <1>2
<1>12. Written(k) = 0
  BY <1>8 DEF Written
<1>13. Passing(t2, k, z2)
  BY <1>6, <1>7, <1>8, <1>9, <1>10, <1>11, <1>12 DEF Passing
<1>. QED
  BY <1>1, <1>5, <1>13, FlowCall

LEMMA FlowGetPart ==
  ASSUME Core, Flow, NEW u \in Call, NEW n \in Nat, GetPart(u, n)
  PROVE  Flow'
<1>1. PICK t, k, z : t = net[u] /\ k = conn[u] /\ z = uc[u]
  OBVIOUS
<1>2. PICK s, p, a, b : /\ s = t.res /\ p = z.rbuf
                        /\ a = SubSeq(s, n + 1, Len(s)) /\ b = SubSeq(s, 1, n)
  OBVIOUS
<1>3. PICK t2, z2 : t2 = [t EXCEPT !.res = a] /\ z2 = [z EXCEPT !.rbuf = p \o b]
  OBVIOUS
<1>4. /\ Passing(t, k, z) /\ t \in NetType /\ z \in CallType
      /\ s \in Seq(Replies) /\ p \in Seq(Replies)
  BY <1>1, <1>2, PassingFields, Fields DEF Core
<1>5. /\ z.st = "read" /\ n \in 1..Len(s)
      /\ net' = [net EXCEPT ![u] = t2] /\ uc' = [uc EXCEPT ![u] = z2] /\ conn' = conn
  BY <1>1, <1>2, <1>3, Pairs DEF GetPart, Core, Types
<1>6. b \in Seq(Replies) /\ Len(b) = n /\ Len(a) = Len(s) - n
  BY <1>2, <1>4, <1>5, Cut
<1>7. Len(p \o b) = Len(p) + n
  BY <1>4, <1>6, Joined
<1>8. Len(a) + Len(p \o b) = Len(s) + Len(p)
  <2>1. Len(s) \in Nat /\ Len(p) \in Nat /\ n \in Nat
    BY <1>4
  <2>. QED
    BY <1>6, <1>7, <2>1
<1>9. /\ t2.req = t.req /\ t2.res = a /\ t2.left = t.left /\ t2.closed = t.closed
      /\ z2.st = z.st /\ z2.wpos = z.wpos /\ z2.rbuf = p \o b
  BY <1>3, <1>4 DEF NetType, CallType
<1>10. Passing(t2, k, z2)
  BY <1>2, <1>4, <1>8, <1>9 DEF Passing
<1>. QED
  BY <1>1, <1>5, <1>10, FlowCall

(* A call that has got its answer may be closed.                           *)
LEMMA FlowEnd ==
  ASSUME Core, Flow, NEW u \in Call, uc[u].st = "read", NEW t2, NEW z2,
         t2 = [net[u] EXCEPT !.res = << >>, !.left = TRUE], z2 = [uc[u] EXCEPT !.st = "freed"]
  PROVE  Passing(t2, conn[u], z2)
<1>1. PICK t, k, z, e : t = net[u] /\ k = conn[u] /\ z = uc[u] /\ e = << >>
  OBVIOUS
<1>2. Passing(t, k, z) /\ t \in NetType /\ z \in CallType
  BY <1>1, PassingFields
<1>3. t2 = [t EXCEPT !.res = e, !.left = TRUE]
  BY <1>1
<1>4. /\ t2.req = t.req /\ t2.closed = t.closed /\ z2.st = "freed" /\ z2.wpos = z.wpos
  BY <1>1, <1>2, <1>3 DEF NetType, CallType
<1>5. Passing(t2, k, z2)
  BY <1>1, <1>2, <1>4 DEF Passing
<1>. QED
  BY <1>1, <1>5

LEMMA FlowAnswer ==
  ASSUME Core, Flow, NEW u \in Call, NEW r \in Replies, Answer(u, r)
  PROVE  Flow'
<1>1. PICK t2, z2 : /\ t2 = [net[u] EXCEPT !.res = << >>, !.left = TRUE]
                    /\ z2 = [uc[u] EXCEPT !.st = "freed"]
  OBVIOUS
<1>2. /\ net' = [net EXCEPT ![u] = t2] /\ uc' = [uc EXCEPT ![u] = z2] /\ uc[u].st = "read"
      /\ StartResponse(u[1], r)
  BY <1>1, Pairs DEF Answer, GotAll, Core, Types
<1>3. \A v \in Call : conn'[v] = conn[v]
  BY <1>2, Pairs DEF StartResponse, Core, Types
<1>4. Passing(t2, conn[u], z2)
  BY <1>1, <1>2, FlowEnd
<1>. QED
  BY <1>2, <1>3, <1>4, FlowCall

(* Nothing has passed on a call that is about to be made.                  *)
LEMMA FlowNew ==
  ASSUME Core, Flow, NEW v \in Call, ~Used(v), NEW to, NEW x, NEW z2,
         z2 = StartUpstream(to, v[1], x)
  PROVE  Passing(net[v], conn[v], z2)
<1>1. PICK t, k, z : t = net[v] /\ k = conn[v] /\ z = uc[v]
  OBVIOUS
<1>2. /\ Passing(t, k, z) /\ z.st = "none" /\ k.st = "none" /\ t.res = << >>
  BY <1>1, PassingFields DEF Core, Calls, Answers, Used
<1>3. z2.st = "connect" /\ z2.wpos = 0 /\ z2.rbuf = << >> /\ 0 # ReqLen
  BY Numbers DEF StartUpstream
<1>4. Len(t.res) = 0 /\ Len(z2.rbuf) = 0
  BY <1>2, <1>3
<1>5. Written(k) = 0
  BY <1>2 DEF Written
<1>6. Passing(t, k, z2)
  BY <1>2, <1>3, <1>4, <1>5 DEF Passing
<1>. QED
  BY <1>1, <1>6

LEMMA FlowAskId ==
  ASSUME Core, Flow, NEW c \in Client, NEW n \in Nat, AskId(c, n)
  PROVE  Flow'
<1>0. Types /\ Calls
  BY DEF Core
<1>1. PICK v, z2 : v = NextCall(c) /\ z2 = StartUpstream("id", c, v)
  OBVIOUS
<1>2. v \in Call /\ v[1] = c /\ ~Used(v)
  BY <1>0, <1>1, FirstCallLeft, FreshCall
<1>3. /\ uc' = [uc EXCEPT ![v] = z2]
      /\ net' = [net EXCEPT ![c].req = @ - n] /\ conn' = [conn EXCEPT ![c].rlen = @ + n]
  BY <1>1 DEF AskId, Took
<1>4. \A w \in Call : net'[w] = net[w] /\ conn'[w] = conn[w]
  BY <1>0, <1>3, Pairs DEF Types
<1>5. uc'[v] = z2 /\ \A w \in Call : w # v => uc'[w] = uc[w]
  BY <1>0, <1>2, <1>3 DEF Types
<1>6. Passing(net[v], conn[v], z2)
  BY <1>1, <1>2, FlowNew
<1>7. Passing(net'[v], conn'[v], uc'[v])
  BY <1>2, <1>4, <1>5, <1>6
<1>. QED
  BY <1>4, <1>5, <1>7, FlowAt

LEMMA FlowAskAttend ==
  ASSUME Core, Flow, NEW u \in Call, AskAttend(u)
  PROVE  Flow'
<1>0. Types /\ Calls /\ u \in Conn
  BY Pairs DEF Core
<1>1. PICK c, v, t2, z2, y2 : /\ c = u[1] /\ v = NextCall(c)
                              /\ t2 = [net[u] EXCEPT !.res = << >>, !.left = TRUE]
                              /\ z2 = [uc[u] EXCEPT !.st = "freed"]
                              /\ y2 = StartUpstream("attend", c, u)
  OBVIOUS
<1>2. c \in Client /\ v \in Call /\ v[1] = c /\ ~Used(v)
  BY <1>0, <1>1, SecondCallLeft, FreshCall, Pairs
<1>3. /\ uc' = [[uc EXCEPT ![u] = z2] EXCEPT ![v] = y2] /\ net' = [net EXCEPT ![u] = t2]
      /\ conn' = conn /\ uc[u].st = "read"
  BY <1>0, <1>1 DEF AskAttend, GotAll, Types
<1>4. u # v
  BY <1>2, <1>3 DEF Used
<1>5. /\ uc'[u] = z2 /\ uc'[v] = y2 /\ \A w \in Call : w # u /\ w # v => uc'[w] = uc[w]
      /\ net'[u] = t2 /\ \A w \in Call : w # u => net'[w] = net[w]
  BY <1>0, <1>2, <1>3, <1>4, Pairs DEF Types
<1>6. Passing(net'[u], conn'[u], uc'[u])
  <2>1. Passing(t2, conn[u], z2)
    BY <1>1, <1>3, FlowEnd
  <2>. QED
    BY <1>3, <1>5, <2>1
<1>7. Passing(net'[v], conn'[v], uc'[v])
  <2>1. Passing(net[v], conn[v], y2)
    BY <1>1, <1>2, FlowNew
  <2>. QED
    BY <1>2, <1>3, <1>4, <1>5, <2>1
<1>8. SUFFICES ASSUME NEW w \in Call PROVE Passing(net'[w], conn'[w], uc'[w])
  BY DEF Flow, Passing, Written
<1>9. CASE w # u /\ w # v
  <2>1. Passing(net[w], conn[w], uc[w])
    BY DEF Flow
  <2>. QED
    BY <1>3, <1>5, <1>9, <2>1
<1>. QED
  BY <1>6, <1>7, <1>9

(* The end of the response never comes before it is complete.              *)
LEMMA NoFailure ==
  ASSUME Core, Flow, NEW u \in Call, Fail(u)
  PROVE  FALSE
<1>1. PICK t, k, z : t = net[u] /\ k = conn[u] /\ z = uc[u]
  OBVIOUS
<1>2. Passing(t, k, z) /\ t.closed /\ z.st \in {"connect", "write", "read"}
  BY <1>1, PassingFields DEF Fail, Open
<1>3. k.st = "freed" /\ z.st = "read"
  BY <1>2 DEF Passing
<1>4. t.res = << >> /\ Len(t.res) + Len(z.rbuf) = ResLen
  BY <1>1, <1>2, <1>3 DEF Fail, Passing, Written
<1>5. Len(z.rbuf) < ResLen /\ Len(z.rbuf) \in Nat /\ Len(t.res) = 0
  BY <1>1, <1>4, Fields DEF Core, Sizes
<1>. QED
  BY <1>4, <1>5, Numbers

LEMMA FlowClient ==
  ASSUME Core, Flow, NEW c \in Client,
         ClientConnect(c) \/ ClientSend(c) \/ ClientRead(c) \/ ClientLeave(c)
  PROVE  Flow'
<1>0. Types
  BY DEF Core
<1>1. /\ UNCHANGED <<conn, uc, ctx, over>>
      /\ \/ net' = net
         \/ net' = [net EXCEPT ![c].req = @ + 1]
         \/ net' = [net EXCEPT ![c].res = << >>]
         \/ net' = [net EXCEPT ![c].left = TRUE]
  BY DEF ClientConnect, ClientSend, ClientRead, ClientLeave
<1>2. \A w \in Call : net'[w] = net[w]
  BY <1>0, <1>1, Pairs DEF Types
<1>3. SUFFICES ASSUME NEW w \in Call PROVE Passing(net'[w], conn'[w], uc'[w])
  BY DEF Flow, Passing, Written
<1>4. Passing(net[w], conn[w], uc[w])
  BY DEF Flow
<1>. QED
  BY <1>1, <1>2, <1>4

(* A context keeps an owner when its call stays open or hands it on.       *)
LEMMA LeaksKept ==
  ASSUME NoLeaks,
         \A x \in Call : ctx'[x] # Nil =>
           \/ \E v \in Open' : uc'[v].ctx = x
           \/ ctx[x] # Nil /\ \A w \in Open : uc[w].ctx = x => w \in Open' /\ uc'[w].ctx = x
  PROVE  NoLeaks'
<1>1. SUFFICES ASSUME NEW x \in Call, ctx'[x] # Nil
               PROVE  \E v \in Open' : uc'[v].ctx = x
  BY DEF NoLeaks
<1>2. CASE \E v \in Open' : uc'[v].ctx = x
  BY <1>2
<1>3. CASE ctx[x] # Nil /\ \A w \in Open : uc[w].ctx = x => w \in Open' /\ uc'[w].ctx = x
  <2>1. PICK w \in Open : uc[w].ctx = x
    BY <1>3 DEF NoLeaks
  <2>. QED
    BY <1>3, <2>1
<1>. QED
  BY <1>1, <1>2, <1>3

LEMMA LeaksIdle == ASSUME NoLeaks, UNCHANGED <<uc, ctx>> PROVE NoLeaks'
BY DEF NoLeaks, Open

(* A call that goes on keeps its context.                                  *)
LEMMA LeaksCall ==
  ASSUME Types, NoLeaks, UNCHANGED ctx, NEW u \in Call, NEW z2,
         uc' = [uc EXCEPT ![u] = z2],
         z2.st \in {"connect", "write", "read"}, z2.ctx = uc[u].ctx
  PROVE  NoLeaks'
<1>1. uc'[u] = z2 /\ \A w \in Call : w # u => uc'[w] = uc[w]
  BY DEF Types
<1>2. \A w \in Open : w \in Open' /\ uc'[w].ctx = uc[w].ctx
  BY <1>1 DEF Open
<1>. QED
  BY <1>2, LeaksKept

LEMMA LeaksConnected ==
  ASSUME Types, NoLeaks, NEW u \in Call, Connected(u)
  PROVE  NoLeaks'
<1>1. PICK z, z2 : z = uc[u] /\ z2 = [z EXCEPT !.st = "write"]
  OBVIOUS
<1>2. z2.st = "write" /\ z2.ctx = z.ctx
  BY <1>1, Fields DEF CallType
<1>3. uc' = [uc EXCEPT ![u] = z2] /\ UNCHANGED ctx
  BY <1>1 DEF Connected
<1>. QED
  BY <1>1, <1>2, <1>3, LeaksCall

LEMMA LeaksSendPart ==
  ASSUME Types, NoLeaks, NEW u \in Call, NEW n \in Nat, SendPart(u, n)
  PROVE  NoLeaks'
<1>1. PICK z, m, st : /\ z = uc[u] /\ m = uc[u].wpos + n
                      /\ st = IF uc[u].wpos + n = ReqLen THEN "read" ELSE "write"
  OBVIOUS
<1>2. PICK z2 : z2 = [z EXCEPT !.wpos = m, !.st = st]
  OBVIOUS
<1>3. z2.st = st /\ z2.ctx = z.ctx /\ st \in {"read", "write"}
  BY <1>1, <1>2, Fields DEF CallType
<1>4. uc' = [uc EXCEPT ![u] = z2] /\ UNCHANGED ctx
  BY <1>1, <1>2 DEF SendPart
<1>. QED
  BY <1>1, <1>3, <1>4, LeaksCall

LEMMA LeaksGetPart ==
  ASSUME Types, NoLeaks, NEW u \in Call, NEW n \in Nat, GetPart(u, n)
  PROVE  NoLeaks'
<1>1. PICK z, b : z = uc[u] /\ b = z.rbuf \o SubSeq(net[u].res, 1, n)
  OBVIOUS
<1>2. PICK z2 : z2 = [z EXCEPT !.rbuf = b]
  OBVIOUS
<1>3. z2.st = "read" /\ z2.ctx = z.ctx
  BY <1>1, <1>2, Fields DEF CallType, GetPart
<1>4. uc' = [uc EXCEPT ![u] = z2] /\ UNCHANGED ctx
  BY <1>1, <1>2 DEF GetPart
<1>. QED
  BY <1>1, <1>3, <1>4, LeaksCall

LEMMA LeaksAnswer ==
  ASSUME Core, NoLeaks, NEW u \in Call, NEW r \in Replies, Answer(u, r)
  PROVE  NoLeaks'
<1>0. Types
  BY DEF Core
<1>1. PICK y, z2 : y = uc[u].ctx /\ z2 = [uc[u] EXCEPT !.st = "freed"]
  OBVIOUS
<1>2. ctx' = [ctx EXCEPT ![y] = Nil] /\ uc' = [uc EXCEPT ![u] = z2]
  BY <1>1 DEF Answer
<1>3. \A w \in Call : w # u => uc'[w] = uc[w]
  BY <1>0, <1>2 DEF Types
<1>4. ASSUME NEW x \in Call, ctx'[x] # Nil
      PROVE  ctx[x] # Nil /\ \A w \in Open : uc[w].ctx = x => w \in Open' /\ uc'[w].ctx = x
  <2>1. x # y /\ ctx[x] # Nil
    BY <1>0, <1>2, <1>4 DEF Types
  <2>2. \A w \in Open : uc[w].ctx = x => w # u
    BY <1>1, <2>1
  <2>. QED
    BY <1>3, <2>1, <2>2 DEF Open
<1>. QED
  BY <1>4, LeaksKept

LEMMA LeaksAskId ==
  ASSUME Core, NoLeaks, NEW c \in Client, NEW n \in Nat, AskId(c, n)
  PROVE  NoLeaks'
<1>0. Types /\ Calls
  BY DEF Core
<1>1. PICK v, z2, y : /\ v = NextCall(c) /\ z2 = StartUpstream("id", c, v)
                      /\ y = [stage |-> "id", name |-> c, id |-> Nil]
  OBVIOUS
<1>2. v \in Call /\ ~Used(v)
  BY <1>0, <1>1, FirstCallLeft, FreshCall
<1>3. uc' = [uc EXCEPT ![v] = z2] /\ ctx' = [ctx EXCEPT ![v] = y]
  BY <1>1 DEF AskId
<1>4. /\ uc'[v] = z2 /\ \A w \in Call : w # v => uc'[w] = uc[w] /\ ctx'[w] = ctx[w]
  BY <1>0, <1>2, <1>3 DEF Types
<1>5. v \in Open' /\ uc'[v].ctx = v
  BY <1>1, <1>2, <1>4 DEF Open, StartUpstream
<1>6. \A w \in Open : w # v /\ w \in Open' /\ uc'[w].ctx = uc[w].ctx
  BY <1>2, <1>4 DEF Open, Used
<1>7. ASSUME NEW x \in Call, ctx'[x] # Nil
      PROVE  \/ \E w \in Open' : uc'[w].ctx = x
             \/ ctx[x] # Nil /\ \A w \in Open : uc[w].ctx = x => w \in Open' /\ uc'[w].ctx = x
  <2>1. CASE x = v
    BY <1>5, <2>1
  <2>2. CASE x # v
    BY <1>4, <1>6, <1>7, <2>2
  <2>. QED
    BY <2>1, <2>2
<1>. QED
  BY <1>7, LeaksKept

LEMMA LeaksAskAttend ==
  ASSUME Core, NoLeaks, NEW u \in Call, AskAttend(u)
  PROVE  NoLeaks'
<1>0. Types /\ Calls
  BY DEF Core
<1>1. PICK c, v, z2, y2 : /\ c = u[1] /\ v = NextCall(c)
                          /\ z2 = [uc[u] EXCEPT !.st = "freed"]
                          /\ y2 = StartUpstream("attend", c, u)
  OBVIOUS
<1>2. c \in Client /\ v \in Call /\ ~Used(v)
  BY <1>0, <1>1, SecondCallLeft, FreshCall, Pairs
<1>3. /\ uc' = [[uc EXCEPT ![u] = z2] EXCEPT ![v] = y2] /\ uc[u].st = "read" /\ uc[u].to = "id"
      /\ ctx' = [ctx EXCEPT ![u].stage = "attend", ![u].id = c]
  BY <1>1 DEF AskAttend, GotAll
<1>4. u # v /\ uc[u].ctx = u
  BY <1>0, <1>2, <1>3 DEF Used, Calls
<1>5. /\ uc'[v] = y2 /\ \A w \in Call : w # u /\ w # v => uc'[w] = uc[w]
      /\ \A w \in Call : w # u => ctx'[w] = ctx[w]
  BY <1>0, <1>2, <1>3, <1>4 DEF Types
<1>6. v \in Open' /\ uc'[v].ctx = u
  BY <1>1, <1>2, <1>5 DEF Open, StartUpstream
<1>7. \A w \in Open : w # u => w \in Open' /\ uc'[w].ctx = uc[w].ctx
  BY <1>2, <1>5 DEF Open, Used
<1>8. ASSUME NEW x \in Call, ctx'[x] # Nil
      PROVE  \/ \E w \in Open' : uc'[w].ctx = x
             \/ ctx[x] # Nil /\ \A w \in Open : uc[w].ctx = x => w \in Open' /\ uc'[w].ctx = x
  <2>1. CASE x = u
    BY <1>6, <2>1
  <2>2. CASE x # u
    BY <1>4, <1>5, <1>7, <1>8, <2>2
  <2>. QED
    BY <2>1, <2>2
<1>. QED
  BY <1>8, LeaksKept

LEMMA FlowStep ==
  ASSUME ~UpstreamFails, FlowInv, Branch
  PROVE  Flow' /\ NoLeaks'
<1>0. Core /\ Flow /\ NoLeaks /\ Types
  BY DEF FlowInv, Core
<1>1. CASE \E s \in {"frontend", "id", "attend"} : OnAccept(s)
  BY <1>0, <1>1, FlowAccept, LeaksIdle DEF OnAccept
<1>2. ASSUME NEW k \in Conn, NEW n \in Nat, ReadPart(k, n) PROVE Flow' /\ NoLeaks'
  BY <1>0, <1>2, FlowReadPart, LeaksIdle DEF ReadPart
<1>3. ASSUME NEW k \in Conn, NEW n \in Nat, WriteOut(k, n) PROVE Flow' /\ NoLeaks'
  BY <1>0, <1>3, FlowWriteOut, LeaksIdle DEF WriteOut
<1>4. ASSUME NEW k \in Conn, NEW n \in Nat, NEW r \in Replies, ReplyNow(k, n, r)
      PROVE  Flow' /\ NoLeaks'
  BY <1>0, <1>4, FlowReplyNow, LeaksIdle DEF ReplyNow
<1>5. ASSUME NEW k \in Conn, Close(k) PROVE Flow' /\ NoLeaks'
  BY <1>0, <1>5, FlowClose, LeaksIdle DEF Close
<1>6. ASSUME NEW c \in Client, NEW n \in Nat, AskId(c, n) PROVE Flow' /\ NoLeaks'
  BY <1>0, <1>6, FlowAskId, LeaksAskId
<1>7. ASSUME NEW c \in Client,
             ClientConnect(c) \/ ClientSend(c) \/ ClientRead(c) \/ ClientLeave(c)
      PROVE  Flow' /\ NoLeaks'
  BY <1>0, <1>7, FlowClient, LeaksIdle DEF ClientConnect, ClientSend, ClientRead, ClientLeave
<1>8. ASSUME NEW u \in Call, Break(u) \/ Fail(u) PROVE FALSE
  BY <1>0, <1>8, NoFailure DEF Break
<1>9. ASSUME NEW u \in Call, Connected(u) \/ AskAttend(u) PROVE Flow' /\ NoLeaks'
  BY <1>0, <1>9, FlowConnected, FlowAskAttend, LeaksConnected, LeaksAskAttend
<1>10. ASSUME NEW u \in Call, NEW n \in Nat, SendPart(u, n) \/ GetPart(u, n)
       PROVE  Flow' /\ NoLeaks'
  BY <1>0, <1>10, FlowSendPart, FlowGetPart, LeaksSendPart, LeaksGetPart
<1>11. ASSUME NEW u \in Call, NEW r \in Replies, Answer(u, r) PROVE Flow' /\ NoLeaks'
  BY <1>0, <1>11, FlowAnswer, LeaksAnswer
<1>12. CASE UNCHANGED <<net, conn, uc, ctx>>
  BY <1>0, <1>12, LeaksIdle DEF Flow, Passing, Written
<1>. QED
  BY <1>1, <1>2, <1>3, <1>4, <1>5, <1>6, <1>7, <1>8, <1>9, <1>10, <1>11, <1>12
     DEF Branch, Killed, vars

LEMMA FlowInit == ASSUME Init PROVE Flow /\ NoLeaks
<1>1. \A u \in Call : u \in Conn /\ ctx[u] = Nil
  BY Pairs DEF Init
<1>2. ASSUME NEW u \in Call
      PROVE  /\ net[u].req = 0 /\ net[u].res = << >> /\ net[u].left = FALSE /\ net[u].closed = FALSE
             /\ conn[u].st = "none" /\ conn[u].rlen = 0
             /\ uc[u].st = "none" /\ uc[u].wpos = 0 /\ uc[u].rbuf = << >>
  BY <1>1, <1>2 DEF Init
<1>3. ReqLen # 0 /\ Len(<< >>) = 0
  BY Numbers
<1>4. Flow
  <2>1. SUFFICES ASSUME NEW u \in Call PROVE Passing(net[u], conn[u], uc[u])
    BY DEF Flow
  <2>2. PICK t, k, z : t = net[u] /\ k = conn[u] /\ z = uc[u]
    OBVIOUS
  <2>3. /\ t.req = 0 /\ Len(t.res) = 0 /\ ~t.left /\ ~t.closed
        /\ k.st = "none" /\ k.rlen = 0 /\ z.st = "none" /\ z.wpos = 0 /\ Len(z.rbuf) = 0
    BY <1>2, <1>3, <2>2
  <2>4. Written(k) = 0
    BY <2>3 DEF Written
  <2>5. Passing(t, k, z)
    BY <1>3, <2>3, <2>4 DEF Passing
  <2>. QED
    BY <2>2, <2>5
<1>. QED
  BY <1>1, <1>4 DEF NoLeaks
-----------------------------------------------------------------------------
(* Buffers, streams and contexts keep their ranges, whatever clients and   *)
(* services do: the length asked of read() never passes the end of rbuf    *)
(* and write() never goes beyond the response.                             *)
THEOREM TcpTypes == Spec => []TypeOK
<1>1. ASSUME Core PROVE TypeOK
  <2>1. Types /\ Sizes
    BY <1>1 DEF Core
  <2>2. ASSUME NEW k \in Conn
        PROVE  /\ net[k].req \in 0..Window /\ Len(net[k].res) <= Window
               /\ \A i \in DOMAIN net[k].res : net[k].res[i] \in Replies
               /\ net[k].left \in BOOLEAN /\ net[k].closed \in BOOLEAN
               /\ conn[k].st \in {"none", "read", "write", "freed"}
               /\ conn[k].rlen \in 0..BufLen /\ conn[k].wpos \in 0..ResLen
               /\ conn[k].wbuf \in Replies \cup {Nil}
    <3>1. net[k] \in NetType /\ conn[k] \in ConnType /\ Len(net[k].res) <= Window
      BY <2>1 DEF Types, Sizes
    <3>2. PICK s \in Seq(Replies) : s = net[k].res
      BY <3>1 DEF NetType
    <3>3. \A i \in DOMAIN s : s[i] \in Replies
      OBVIOUS
    <3>. QED
      BY <3>1, <3>2, <3>3 DEF NetType, ConnType
  <2>3. ASSUME NEW u \in Call
        PROVE  /\ uc[u].st \in {"none", "connect", "write", "read", "freed"}
               /\ uc[u].wpos \in 0..ReqLen /\ Len(uc[u].rbuf) < ResLen
               /\ uc[u].ctx \in Call \cup {Nil}
               /\ ctx[u] \in Context \cup {Nil}
    <3>1. uc[u] \in CallType /\ Len(uc[u].rbuf) < ResLen /\ ctx[u] \in Context \cup {Nil}
      BY <2>1 DEF Types, Sizes
    <3>. QED
      BY <3>1 DEF CallType
  <2>4. ASSUME NEW c \in Client
        PROVE  /\ peer[c].st \in {"new", "talking", "gone"} /\ peer[c].sent \in Nat
               /\ \A i \in DOMAIN peer[c].got : peer[c].got[i] \in Replies
    <3>1. peer[c] \in PeerType
      BY <2>1 DEF Types
    <3>2. PICK s \in Seq(Replies) : s = peer[c].got
      BY <3>1 DEF PeerType
    <3>3. \A i \in DOMAIN s : s[i] \in Replies
      OBVIOUS
    <3>. QED
      BY <3>1, <3>2, <3>3 DEF PeerType
  <2>5. over \in {"no", "wild", "sigpipe"}
    BY <2>1 DEF Types
  <2>. QED
    BY <2>2, <2>3, <2>4, <2>5 DEF TypeOK
<1>. QED
  BY <1>1, CoreAlways, PTL

(* As long as calls do not fail, handle_request and                        *)
(* handle_upstream_response neither leak a frontend_ctx_t nor share it     *)
(* nor use it after free, whatever the clients do: each one belongs to     *)
(* exactly one open call.                                                  *)
THEOREM ContextsAreOwned == ASSUME ~UpstreamFails PROVE Spec => []CtxOwned
<1>1. Init => FlowInv
  BY CoreInit, FlowInit DEF FlowInv
<1>2. FlowInv /\ [Next]_vars => FlowInv'
  BY Branches, CoreStep, FlowStep DEF FlowInv
<1>3. FlowInv => CtxOwned
  <2>1. SUFFICES ASSUME FlowInv PROVE CtxOwned
    OBVIOUS
  <2>2. Types /\ Calls /\ Contexts /\ NoLeaks
    BY <2>1 DEF FlowInv, Core
  <2>3. \A u, v \in Open : uc[u].ctx = uc[v].ctx => u = v
    BY <2>2, OneContextEach
  <2>. QED
    BY <2>2, <2>3 DEF CtxOwned, NoLeaks, Contexts
<1>. QED
  BY <1>1, <1>2, <1>3, PTL DEF Spec
-----------------------------------------------------------------------------
(* Clients that send their request and wait for the answer.                *)

HasCall(c) == \E u \in Open : u[1] = c

(* What client c has received, and what is on its way, are pieces of r.    *)
Pieces(t, g, r) == AllOf(g, r) /\ AllOf(t.res, r)
Count(t, g) == Len(g) + Len(t.res)

(* How far client c has been answered: t is its stream, k its connection   *)
(* and g what it has read.                                                 *)
Answering(c, t, k, g) ==
  /\ ~t.left
  /\ k.st \in {"none", "read"} => g = << >> /\ t.res = << >> /\ ~t.closed
  /\ k.st = "write" => /\ k.wbuf \in {L!Expected(c), BadGateway}
                       /\ Pieces(t, g, k.wbuf) /\ Count(t, g) = k.wpos
                       /\ k.wpos < ResLen /\ ~t.closed
  /\ k.st = "freed" => \/ Asks[c] = "long" /\ g = << >> /\ t.res = << >>
                       \/ /\ Count(t, g) = ResLen
                          /\ \E r \in Replies : Pieces(t, g, r)

(* A call for the client is open until it is answered, and not longer.     *)
Working(c) ==
  /\ conn[c].st \in {"none", "read"} /\ conn[c].rlen >= Length(c) => HasCall(c)
  /\ conn[c].st \in {"write", "freed"} => ~HasCall(c)

Waits(c) == Answering(c, net[c], conn[c], peer[c].got) /\ Working(c)

Waiting == over # "wild" /\ \A c \in Client : Waits(c)

WaitInv == Core /\ Waiting
-----------------------------------------------------------------------------
(* What the invariant depends on                                           *)

LEMMA WaitsKept ==
  ASSUME NEW c \in Client, Waits(c), net'[c] = net[c], conn'[c] = conn[c],
         peer'[c].got = peer[c].got, HasCall(c)' <=> HasCall(c)
  PROVE  Waits(c)'
<1>1. Answering(c, net'[c], conn'[c], peer'[c].got)
  BY DEF Waits
<1>2. Working(c)'
  BY DEF Waits, Working, Length
<1>. QED
  BY <1>1, <1>2 DEF Waits, Answering, Pieces, Count, AllOf, BadGateway, Reply, NoBody,
                    L!Expected, L!Says, L!NoBody

LEMMA WaitsNow ==
  ASSUME NEW c \in Client, NEW t, NEW k, NEW g,
         net'[c] = t, conn'[c] = k, peer'[c].got = g, Answering(c, t, k, g),
         k.st \in {"none", "read"} /\ k.rlen >= Length(c) => HasCall(c)',
         k.st \in {"write", "freed"} => ~HasCall(c)'
  PROVE  Waits(c)'
<1>1. Working(c)'
  BY DEF Working, Length
<1>. QED
  BY <1>1 DEF Waits, Answering, Pieces, Count, AllOf, BadGateway, Reply, NoBody,
              L!Expected, L!Says, L!NoBody

LEMMA SameCallsOpen ==
  ASSUME UNCHANGED uc, NEW c PROVE HasCall(c)' <=> HasCall(c)
BY DEF HasCall, Open

(* A step on the one connection k.                                         *)
LEMMA OneWaits ==
  ASSUME Waiting, UNCHANGED uc, over' # "wild", NEW k,
         \A j \in Conn : j # k => net'[j] = net[j] /\ conn'[j] = conn[j],
         \A c \in Client : c # k => peer'[c].got = peer[c].got,
         k \in Client => Waits(k)'
  PROVE  Waiting'
<1>1. ASSUME NEW c \in Client PROVE Waits(c)'
  <2>1. CASE c = k
    BY <2>1
  <2>2. CASE c # k
    <3>1. c \in Conn /\ Waits(c)
      BY Pairs DEF Waiting
    <3>. QED
      BY <2>2, <3>1, SameCallsOpen, WaitsKept
  <2>. QED
    BY <2>1, <2>2
<1>. QED
  BY <1>1 DEF Waiting

(* What the parts of a client's state are.                                 *)
LEMMA WaitFields ==
  ASSUME Core, Waiting, NEW c \in Client
  PROVE  /\ Types /\ c \in Conn /\ c \notin Call
         /\ net[c] \in NetType /\ conn[c] \in ConnType /\ peer[c] \in PeerType
         /\ Answering(c, net[c], conn[c], peer[c].got) /\ Working(c) /\ over # "wild"
         /\ conn[c].st \in {"none", "read", "write", "freed"}
         /\ net[c].res \in Seq(Replies) /\ peer[c].got \in Seq(Replies)
BY Pairs, Fields DEF Core, Waiting, Waits

(* A client with an open call is not answered yet.                         *)
LEMMA Unanswered ==
  ASSUME Core, Waiting, NEW u \in Open
  PROVE  /\ u \in Call /\ u[1] \in Client
         /\ conn[u[1]].st \in {"none", "read"}
<1>1. u \in Call /\ u[1] \in Client
  BY Pairs DEF Open
<1>2. HasCall(u[1])
  BY DEF HasCall
<1>. QED
  BY <1>1, <1>2, WaitFields DEF Working

(* The context of a call is one of those of its client's requests.         *)
LEMMA CallNeedsId ==
  ASSUME Core, NEW u \in Open
  PROVE  uc[u].ctx \in Ids(u[1])
<1>1. u \in Call /\ Used(u)
  BY DEF Open, Used
<1>2. uc[u].to \in {"id", "attend"}
  BY <1>1 DEF Core, Calls
<1>3. CASE uc[u].to = "id"
  BY <1>1, <1>3 DEF Core, Calls, Ids
<1>4. CASE uc[u].to = "attend"
  BY <1>1, <1>4 DEF Core, Calls, Ids, Used
<1>. QED
  BY <1>2, <1>3, <1>4

(* A client that sends one request has one call at a time.                 *)
LEMMA OneCallEach ==
  ASSUME ~ClientsSendMore, Core, NEW u \in Open, NEW v \in Open, u[1] = v[1]
  PROVE  u = v
<1>1. u \in Call /\ u[1] \in Client
  BY Pairs DEF Open
<1>2. PICK c \in Client : c = u[1]
  BY <1>1
<1>3. /\ conn[c].rlen \in Nat /\ net[c].req \in Nat /\ peer[c].sent \in Nat /\ Length(c) \in Nat
      /\ conn[c].rlen + net[c].req <= peer[c].sent /\ peer[c].sent <= Length(c) + Extra
  BY CountOf
<1>4. conn[c].rlen <= Length(c)
  BY <1>3 DEF Extra
<1>5. \A x, y \in Ids(c) : x = y
  BY <1>3, <1>4 DEF Core, Counts
<1>6. uc[u].ctx = uc[v].ctx
  BY <1>2, <1>5, CallNeedsId
<1>. QED
  BY <1>6, OneContextEach DEF Core

(* No call is made before the request is complete.                         *)
LEMMA NoEarlyCall ==
  ASSUME Core, NEW c \in Client, conn[c].rlen < Length(c)
  PROVE  ~HasCall(c)
<1>1. Ids(c) = {}
  BY DEF Core, Counts
<1>. QED
  BY <1>1, CallNeedsId DEF HasCall
-----------------------------------------------------------------------------
(* The server side of the connections                                      *)

LEMMA WaitAccept ==
  ASSUME Core, Waiting, NEW s \in {"frontend", "id", "attend"}, OnAccept(s)
  PROVE  Waiting'
<1>1. ASSUME NEW c \in Client PROVE Waits(c)'
  <2>1. PICK t, k, g : t = net[c] /\ k = conn[c] /\ g = peer[c].got
    OBVIOUS
  <2>2. /\ c \in Conn /\ k \in ConnType /\ Answering(c, t, k, g) /\ Working(c)
    BY <2>1, WaitFields
  <2>3. /\ net'[c] = t /\ peer'[c].got = g /\ uc' = uc
        /\ conn'[c] = IF c \in Pending(s) THEN [k EXCEPT !.st = "read"] ELSE k
    BY <2>1, <2>2 DEF OnAccept
  <2>4. HasCall(c)' <=> HasCall(c)
    BY <2>3, SameCallsOpen
  <2>5. CASE c \notin Pending(s)
    BY <2>1, <2>3, <2>4, <2>5, WaitsKept DEF Waiting
  <2>6. CASE c \in Pending(s)
    <3>1. PICK k2 : k2 = [k EXCEPT !.st = "read"]
      OBVIOUS
    <3>2. k.st = "none" /\ k2.st = "read" /\ k2.rlen = k.rlen
      BY <2>1, <2>2, <2>6, <3>1 DEF Pending, ConnType
    <3>3. Answering(c, t, k2, g)
      BY <2>2, <3>2 DEF Answering
    <3>4. k2.rlen >= Length(c) => HasCall(c)'
      BY <2>1, <2>2, <2>4, <3>2 DEF Working
    <3>5. conn'[c] = k2
      BY <2>3, <2>6, <3>1
    <3>. QED
      BY <2>3, <3>2, <3>3, <3>4, <3>5, WaitsNow
  <2>. QED
    BY <2>5, <2>6
<1>. QED
  BY <1>1 DEF Waiting, OnAccept

LEMMA WaitReadPart ==
  ASSUME Core, Waiting, NEW u \in Conn, NEW n \in Nat, ReadPart(u, n)
  PROVE  Waiting'
<1>0. Types /\ net[u] \in NetType /\ conn[u] \in ConnType /\ over # "wild"
  BY Fields DEF Core, Waiting
<1>1. PICK t, k, q, m : t = net[u] /\ k = conn[u] /\ q = net[u].req - n /\ m = conn[u].rlen + n
  OBVIOUS
<1>2. PICK t2, k2 : t2 = [t EXCEPT !.req = q] /\ k2 = [k EXCEPT !.rlen = m]
  OBVIOUS
<1>3. /\ net' = [net EXCEPT ![u] = t2] /\ conn' = [conn EXCEPT ![u] = k2]
      /\ UNCHANGED <<uc, over, peer>> /\ k.st = "read" /\ ~(m >= Length(u))
  BY <1>1, <1>2 DEF ReadPart, Took, Complete
<1>4. /\ net'[u] = t2 /\ conn'[u] = k2
      /\ \A j \in Conn : j # u => net'[j] = net[j] /\ conn'[j] = conn[j]
  BY <1>0, <1>3 DEF Types
<1>5. /\ t2.res = t.res /\ t2.left = t.left /\ t2.closed = t.closed
      /\ k2.st = "read" /\ k2.rlen = m
  BY <1>0, <1>1, <1>2, <1>3 DEF NetType, ConnType
<1>6. ASSUME u \in Client PROVE Waits(u)'
  <2>1. PICK g : g = peer[u].got
    OBVIOUS
  <2>2. Answering(u, t, k, g)
    BY <1>1, <1>6, <2>1, WaitFields
  <2>3. Answering(u, t2, k2, g)
    BY <1>3, <1>5, <2>2 DEF Answering
  <2>4. peer'[u].got = g
    BY <1>3, <2>1
  <2>. QED
    BY <1>3, <1>4, <1>5, <1>6, <2>3, <2>4, WaitsNow
<1>7. over' # "wild" /\ \A c \in Client : peer'[c].got = peer[c].got
  BY <1>0, <1>3
<1>. QED
  BY <1>3, <1>4, <1>6, <1>7, OneWaits

LEMMA WaitReplyNow ==
  ASSUME ~ClientsSendMore, Core, Waiting, NEW u \in Conn, NEW n \in Nat, NEW r \in Replies,
         ReplyNow(u, n, r)
  PROVE  Waiting'
<1>0. Types /\ net[u] \in NetType /\ conn[u] \in ConnType /\ over # "wild"
  BY Fields DEF Core, Waiting
<1>1. PICK t, k, q : t = net[u] /\ k = conn[u] /\ q = net[u].req - n
  OBVIOUS
<1>2. PICK t2, k2 : /\ t2 = [t EXCEPT !.req = q]
                    /\ k2 = [k EXCEPT !.st = "write", !.wbuf = r, !.wpos = 0]
  OBVIOUS
<1>3. /\ net' = [net EXCEPT ![u] = t2] /\ conn' = [conn EXCEPT ![u] = k2]
      /\ UNCHANGED <<uc, over, peer>> /\ k.st = "read" /\ n \in 1..t.req /\ r \in Direct(u)
  BY <1>0, <1>1, <1>2 DEF ReplyNow, Took, Types
<1>4. /\ net'[u] = t2 /\ conn'[u] = k2
      /\ \A j \in Conn : j # u => net'[j] = net[j] /\ conn'[j] = conn[j]
  BY <1>0, <1>3 DEF Types
<1>5. /\ t2.res = t.res /\ t2.left = t.left /\ t2.closed = t.closed
      /\ k2.st = "write" /\ k2.wbuf = r /\ k2.wpos = 0
  BY <1>0, <1>1, <1>2, <1>3 DEF NetType, ConnType
<1>6. ASSUME u \in Client PROVE Waits(u)'
  <2>1. PICK g : g = peer[u].got
    OBVIOUS
  <2>2. Answering(u, t, k, g)
    BY <1>1, <1>6, <2>1, WaitFields
  <2>3. g = << >> /\ t2.res = << >> /\ ~t2.left /\ ~t2.closed
    BY <1>3, <1>5, <2>2 DEF Answering
  <2>4. r \in {L!Expected(u), BadGateway}
    BY <1>3, <1>6, Pairs DEF Direct
  <2>5. Pieces(t2, g, r) /\ Count(t2, g) = 0
    BY <2>3 DEF Pieces, Count, AllOf
  <2>6. Answering(u, t2, k2, g)
    BY <1>5, <2>3, <2>4, <2>5, Numbers DEF Answering
  <2>7. conn[u].rlen < Length(u)
    <3>1. /\ conn[u].rlen + net[u].req <= peer[u].sent /\ peer[u].sent <= Length(u) + Extra
          /\ conn[u].rlen \in Nat /\ net[u].req \in Nat /\ peer[u].sent \in Nat /\ Length(u) \in Nat
      BY <1>6, CountOf
    <3>2. net[u].req >= 1
      BY <1>1, <1>3, <3>1
    <3>. QED
      BY <3>1, <3>2 DEF Extra
  <2>8. ~HasCall(u)'
    BY <1>3, <1>6, <2>7, NoEarlyCall, SameCallsOpen
  <2>9. peer'[u].got = g
    BY <1>3, <2>1
  <2>. QED
    BY <1>4, <1>5, <1>6, <2>6, <2>8, <2>9, WaitsNow
<1>7. over' # "wild" /\ \A c \in Client : peer'[c].got = peer[c].got
  BY <1>0, <1>3
<1>. QED
  BY <1>3, <1>4, <1>6, <1>7, OneWaits

(* Only a request that is too long loses its connection.                   *)
LEMMA WaitClose ==
  ASSUME ~ClientsSendMore, Core, Waiting, NEW u \in Conn, Close(u)
  PROVE  Waiting'
<1>0. Types /\ net[u] \in NetType /\ conn[u] \in ConnType /\ over # "wild"
  BY Fields DEF Core, Waiting
<1>1. PICK t, k : t = net[u] /\ k = conn[u]
  OBVIOUS
<1>2. PICK t2, k2 : t2 = [t EXCEPT !.closed = TRUE] /\ k2 = [k EXCEPT !.st = "freed"]
  OBVIOUS
<1>3. /\ net' = [net EXCEPT ![u] = t2] /\ conn' = [conn EXCEPT ![u] = k2]
      /\ UNCHANGED <<uc, over, peer>>
      /\ \/ k.st = "read" /\ IF t.req = 0 THEN t.left ELSE k.rlen = BufLen
         \/ k.st = "write" /\ t.left
  BY <1>1, <1>2 DEF Close, ConnFree
<1>4. /\ net'[u] = t2 /\ conn'[u] = k2
      /\ \A j \in Conn : j # u => net'[j] = net[j] /\ conn'[j] = conn[j]
  BY <1>0, <1>3 DEF Types
<1>5. t2.res = t.res /\ t2.left = t.left /\ k2.st = "freed"
  BY <1>0, <1>1, <1>2 DEF NetType, ConnType
<1>6. ASSUME u \in Client PROVE Waits(u)'
  <2>1. PICK g : g = peer[u].got
    OBVIOUS
  <2>2. Answering(u, t, k, g)
    BY <1>1, <1>6, <2>1, WaitFields
  <2>3. k.st = "read" /\ t.req # 0 /\ k.rlen = BufLen /\ ~t.left
    BY <1>3, <2>2 DEF Answering
  <2>4. g = << >> /\ t.res = << >>
    BY <2>2, <2>3 DEF Answering
  <2>5. Asks[u] = "long"
    <3>1. /\ k.rlen + t.req <= peer[u].sent /\ peer[u].sent <= Length(u) + Extra
          /\ k.rlen \in Nat /\ t.req \in Nat /\ peer[u].sent \in Nat /\ Length(u) \in Nat
      BY <1>1, <1>6, CountOf
    <3>2. BufLen < Length(u)
      BY <2>3, <3>1, Numbers DEF Extra
    <3>. QED
      BY <3>2, Numbers DEF Length
  <2>6. Answering(u, t2, k2, g)
    BY <1>5, <2>3, <2>4, <2>5 DEF Answering
  <2>7. ~HasCall(u)
    <3>1. ASSUME NEW w \in Open, w[1] = u PROVE FALSE
      <4>1. w \in Call /\ Used(w)
        BY DEF Open, Used
      <4>2. Asks[u] = "lookup"
        BY <3>1, <4>1 DEF Core, Calls
      <4>. QED
        BY <2>5, <4>2
    <3>. QED
      BY <3>1 DEF HasCall
  <2>8. ~HasCall(u)' /\ peer'[u].got = g
    BY <1>3, <2>1, <2>7, SameCallsOpen
  <2>. QED
    BY <1>4, <1>5, <1>6, <2>6, <2>8, WaitsNow
<1>7. over' # "wild" /\ \A c \in Client : peer'[c].got = peer[c].got
  BY <1>0, <1>3
<1>. QED
  BY <1>3, <1>4, <1>6, <1>7, OneWaits

LEMMA WaitWriteOut ==
  ASSUME Core, Waiting, NEW u \in Conn, NEW n \in Nat, WriteOut(u, n)
  PROVE  Waiting'
<1>0. Types /\ net[u] \in NetType /\ conn[u] \in ConnType /\ over # "wild"
  BY Fields DEF Core, Waiting
<1>1. PICK t, k : t = net[u] /\ k = conn[u]
  OBVIOUS
<1>2. PICK r, s, m, b, st :
        /\ r = k.wbuf /\ s = [i \in 1..n |-> r] /\ m = k.wpos + n /\ b = (k.wpos + n = ResLen)
        /\ st = IF k.wpos + n = ResLen THEN "freed" ELSE "write"
  OBVIOUS
<1>3. PICK t2, k2 : /\ t2 = [t EXCEPT !.res = t.res \o s, !.closed = b]
                    /\ k2 = [k EXCEPT !.wpos = m, !.st = st]
  OBVIOUS
<1>4. /\ k.st = "write" /\ n \in 1..(ResLen - k.wpos) /\ UNCHANGED <<uc, over, peer>>
      /\ conn' = [conn EXCEPT ![u] = k2] /\ net' = [net EXCEPT ![u] = t2]
  BY <1>0, <1>1, <1>2, <1>3 DEF WriteOut, Types
<1>5. /\ net'[u] = t2 /\ conn'[u] = k2
      /\ \A j \in Conn : j # u => net'[j] = net[j] /\ conn'[j] = conn[j]
  BY <1>0, <1>4 DEF Types
<1>6. ASSUME u \in Client PROVE Waits(u)'
  <2>0. PICK g, p : g = peer[u].got /\ p = t.res
    OBVIOUS
  <2>1. /\ Answering(u, t, k, g) /\ t \in NetType /\ k \in ConnType /\ p \in Seq(Replies)
        /\ k.wpos \in Nat /\ k.wpos <= ResLen /\ ResLen \in Nat /\ g \in Seq(Replies)
        /\ Len(p) \in Nat /\ Len(g) \in Nat /\ r \in Replies /\ ~HasCall(u)
    <3>1. Answering(u, t, k, g) /\ p \in Seq(Replies) /\ g \in Seq(Replies) /\ Working(u)
      BY <1>1, <1>6, <2>0, WaitFields
    <3>2. ~HasCall(u)
      BY <1>1, <1>4, <3>1 DEF Working
    <3>3. k.wpos \in Nat /\ k.wpos <= ResLen /\ r \in Replies
      BY <1>0, <1>1, <1>2, <1>4, Fields, TypesOf
    <3>. QED
      BY <1>0, <1>1, <3>1, <3>2, <3>3, Numbers
  <2>2. s \in Seq(Replies) /\ Len(s) = n /\ AllOf(s, r)
    <3>1. s = [i \in 1..n |-> r]
      BY <1>2
    <3>2. s \in Seq(Replies) /\ Len(s) = n
      BY <2>1, <3>1, Filled
    <3>3. \A i \in 1..n : s[i] = r
      BY <3>1
    <3>. QED
      BY <3>2, <3>3 DEF AllOf
  <2>3. r \in {L!Expected(u), BadGateway} /\ AllOf(g, r) /\ AllOf(p, r) /\ Len(g) + Len(p) = k.wpos
        /\ ~t.left
    BY <1>2, <1>4, <2>0, <2>1 DEF Answering, Pieces, Count
  <2>4. Len(p \o s) = Len(p) + n /\ AllOf(p \o s, r)
    BY <2>1, <2>2, <2>3, Longer
  <2>5. /\ t2.res = p \o s /\ t2.left = t.left /\ t2.closed = b
        /\ k2.st = st /\ k2.wpos = m /\ k2.wbuf = r
    BY <1>0, <1>1, <1>2, <1>3, <2>0 DEF NetType, ConnType
  <2>6. Pieces(t2, g, r) /\ Count(t2, g) = m
    <3>1. PICK x, y, w : x = Len(g) /\ y = Len(p) /\ w = k.wpos
      OBVIOUS
    <3>2. x \in Nat /\ y \in Nat /\ w \in Nat /\ m = w + n /\ Len(t2.res) = y + n /\ x + y = w
      BY <1>2, <2>1, <2>3, <2>4, <2>5, <3>1
    <3>3. x + (y + n) = m
      BY <3>2
    <3>. QED
      BY <2>3, <2>4, <2>5, <3>1, <3>2, <3>3 DEF Pieces, Count
  <2>7. Answering(u, t2, k2, g)
    <3>1. CASE m = ResLen
      <4>1. k2.st = "freed"
        BY <1>2, <2>5, <3>1
      <4>. QED
        BY <2>1, <2>3, <2>5, <2>6, <3>1, <4>1 DEF Answering
    <3>2. CASE m # ResLen
      <4>1. k2.st = "write" /\ ~t2.closed
        BY <1>2, <2>5, <3>2
      <4>2. m < ResLen
        BY <1>2, <1>4, <2>1, <3>2
      <4>. QED
        BY <2>3, <2>5, <2>6, <4>1, <4>2 DEF Answering
    <3>. QED
      BY <3>1, <3>2
  <2>8. k2.st \in {"write", "freed"} /\ peer'[u].got = g /\ ~HasCall(u)'
    BY <1>2, <1>4, <2>0, <2>1, <2>5, SameCallsOpen
  <2>. QED
    BY <1>5, <1>6, <2>7, <2>8, WaitsNow
<1>7. over' # "wild" /\ \A c \in Client : peer'[c].got = peer[c].got
  BY <1>0, <1>4
<1>. QED
  BY <1>4, <1>5, <1>6, <1>7, OneWaits
-----------------------------------------------------------------------------
(* The frontend's side of the calls                                        *)

(* A call that goes on.                                                    *)
LEMMA WaitCall ==
  ASSUME Core, Waiting, NEW u \in Open, NEW z2, uc' = [uc EXCEPT ![u] = z2],
         z2.st \in {"connect", "write", "read"}, UNCHANGED <<conn, over, peer>>,
         \A k \in Conn : k # u => net'[k] = net[k]
  PROVE  Waiting'
<1>0. Types /\ u \in Call
  BY DEF Core, Open
<1>1. uc'[u] = z2 /\ \A w \in Call : w # u => uc'[w] = uc[w]
  BY <1>0 DEF Types
<1>2. \A w \in Call : w \in Open' <=> w \in Open
  BY <1>0, <1>1 DEF Open
<1>3. ASSUME NEW c \in Client PROVE Waits(c)'
  <2>1. HasCall(c)' <=> HasCall(c)
    BY <1>2 DEF HasCall, Open
  <2>2. c \in Conn /\ c # u /\ Waits(c)
    BY <1>0, Pairs DEF Waiting
  <2>. QED
    BY <2>1, <2>2, WaitsKept
<1>. QED
  BY <1>3 DEF Waiting

LEMMA WaitGoesOn ==
  ASSUME Core, Waiting, NEW u \in Call, NEW n \in Nat,
         Connected(u) \/ SendPart(u, n) \/ GetPart(u, n)
  PROVE  Waiting'
<1>0. Types /\ u \in Open /\ u \in Conn /\ uc[u] \in CallType
  BY Pairs, Fields DEF Core, Open, Connected, SendPart, GetPart
<1>1. PICK z : z = uc[u]
  OBVIOUS
<1>2. \E z2 : uc' = [uc EXCEPT ![u] = z2] /\ z2.st \in {"connect", "write", "read"}
  <2>1. CASE Connected(u)
    <3>1. PICK z2 : z2 = [z EXCEPT !.st = "write"]
      OBVIOUS
    <3>2. z2.st = "write"
      BY <1>0, <1>1, <3>1 DEF CallType
    <3>. QED
      BY <1>1, <2>1, <3>1, <3>2 DEF Connected
  <2>2. CASE SendPart(u, n)
    <3>1. PICK m, st : m = uc[u].wpos + n /\ st = IF uc[u].wpos + n = ReqLen THEN "read" ELSE "write"
      OBVIOUS
    <3>2. PICK z2 : z2 = [z EXCEPT !.wpos = m, !.st = st]
      OBVIOUS
    <3>3. z2.st \in {"read", "write"}
      BY <1>0, <1>1, <3>1, <3>2 DEF CallType
    <3>4. uc' = [uc EXCEPT ![u] = z2]
      BY <1>1, <2>2, <3>1, <3>2 DEF SendPart
    <3>. QED
      BY <3>3, <3>4
  <2>3. CASE GetPart(u, n)
    <3>1. PICK b : b = z.rbuf \o SubSeq(net[u].res, 1, n)
      OBVIOUS
    <3>2. PICK z2 : z2 = [z EXCEPT !.rbuf = b]
      OBVIOUS
    <3>3. z2.st = "read"
      BY <1>0, <1>1, <2>3, <3>2 DEF CallType, GetPart
    <3>4. uc' = [uc EXCEPT ![u] = z2]
      BY <1>1, <2>3, <3>1, <3>2 DEF GetPart
    <3>. QED
      BY <3>3, <3>4
  <2>. QED
    BY <2>1, <2>2, <2>3
<1>3. UNCHANGED <<conn, over, peer>> /\ \A k \in Conn : k # u => net'[k] = net[k]
  BY <1>0 DEF Connected, SendPart, GetPart, Types
<1>. QED
  BY <1>0, <1>2, <1>3, WaitCall

(* A call that ends with an answer to its client.                          *)
LEMMA WaitReturns ==
  ASSUME ~ClientsSendMore, Core, Waiting, NEW u \in Open, NEW z2,
         NEW r \in {L!Expected(u[1]), BadGateway},
         uc' = [uc EXCEPT ![u] = z2], z2.st = "freed",
         \A k \in Conn : k # u => net'[k] = net[k],
         UNCHANGED peer, StartResponse(u[1], r)
  PROVE  Waiting'
<1>0. Types /\ u \in Call /\ u \in Conn
  BY Pairs DEF Core, Open
<1>1. PICK c, t, k, g : c = u[1] /\ t = net[c] /\ k = conn[c] /\ g = peer[c].got
  OBVIOUS
<1>2. /\ c \in Client /\ c \in Conn /\ c # u /\ k.st \in {"none", "read"} /\ k \in ConnType
      /\ Answering(c, t, k, g) /\ over # "wild"
  BY <1>0, <1>1, Unanswered, WaitFields, Pairs
<1>3. PICK k2 : k2 = [k EXCEPT !.st = "write", !.wbuf = r, !.wpos = 0]
  OBVIOUS
<1>4. k2.st = "write" /\ k2.wbuf = r /\ k2.wpos = 0
  BY <1>2, <1>3 DEF ConnType
<1>5. conn' = [conn EXCEPT ![c] = k2] /\ over' = over
  BY <1>1, <1>2, <1>3 DEF StartResponse
<1>6. conn'[c] = k2 /\ \A j \in Conn : j # c => conn'[j] = conn[j]
  BY <1>0, <1>2, <1>5 DEF Types
<1>7. uc'[u] = z2 /\ \A w \in Call : w # u => uc'[w] = uc[w]
  BY <1>0 DEF Types
<1>8. \A w \in Call : w \in Open' <=> w \in Open /\ w # u
  BY <1>7 DEF Open
<1>9. ~HasCall(c)'
  <2>1. ASSUME NEW w \in Open', w[1] = c PROVE FALSE
    <3>1. w \in Call
      BY <2>1 DEF Open
    <3>2. w \in Open /\ w # u
      BY <1>8, <2>1, <3>1
    <3>. QED
      BY <1>1, <2>1, <3>2, OneCallEach
  <2>. QED
    BY <2>1 DEF HasCall
<1>10. Waits(c)'
  <2>1. g = << >> /\ t.res = << >> /\ ~t.left /\ ~t.closed
    BY <1>2 DEF Answering
  <2>2. Pieces(t, g, r) /\ Count(t, g) = 0
    BY <2>1 DEF Pieces, Count, AllOf
  <2>3. Answering(c, t, k2, g)
    BY <1>1, <1>4, <2>1, <2>2, Numbers DEF Answering
  <2>4. net'[c] = t /\ peer'[c].got = g
    BY <1>1, <1>2
  <2>. QED
    BY <1>2, <1>4, <1>6, <1>9, <2>3, <2>4, WaitsNow
<1>11. ASSUME NEW d \in Client PROVE Waits(d)'
  <2>1. CASE d = c
    BY <1>10, <2>1
  <2>2. CASE d # c
    <3>1. HasCall(d)' <=> HasCall(d)
      BY <1>1, <1>8, <2>2 DEF HasCall, Open
    <3>2. d \in Conn /\ d # u /\ Waits(d)
      BY <1>0, Pairs DEF Waiting
    <3>. QED
      BY <1>6, <2>2, <3>1, <3>2, WaitsKept
  <2>. QED
    BY <2>1, <2>2
<1>. QED
  BY <1>2, <1>5, <1>11 DEF Waiting

LEMMA WaitFail ==
  ASSUME ~ClientsSendMore, Core, Waiting, NEW u \in Call, Fail(u)
  PROVE  Waiting'
<1>1. u \in Open /\ Types /\ u \in Conn
  BY Pairs DEF Fail, Core
<1>2. PICK z2 : z2 = [uc[u] EXCEPT !.st = "freed"]
  OBVIOUS
<1>3. /\ uc' = [uc EXCEPT ![u] = z2] /\ UNCHANGED peer /\ StartResponse(u[1], BadGateway)
      /\ \A k \in Conn : k # u => net'[k] = net[k]
  BY <1>1, <1>2 DEF Fail, UpstreamFailed, Types
<1>4. z2.st = "freed"
  BY <1>1, <1>2, Fields DEF CallType
<1>5. PICK r \in {L!Expected(u[1]), BadGateway} : r = BadGateway
  OBVIOUS
<1>. QED
  BY <1>1, <1>3, <1>4, <1>5, WaitReturns

LEMMA WaitAnswer ==
  ASSUME ~ClientsSendMore, Core, Waiting, NEW u \in Call, NEW r \in Replies, Answer(u, r)
  PROVE  Waiting'
<1>1. u \in Open /\ Types /\ u \in Conn
  BY Pairs DEF Answer, GotAll, Core, Open
<1>2. PICK z2 : z2 = [uc[u] EXCEPT !.st = "freed"]
  OBVIOUS
<1>3. /\ uc' = [uc EXCEPT ![u] = z2] /\ UNCHANGED peer /\ StartResponse(u[1], r)
      /\ \A k \in Conn : k # u => net'[k] = net[k]
  BY <1>1, <1>2 DEF Answer, GotAll, Types
<1>4. z2.st = "freed"
  BY <1>1, <1>2, Fields DEF CallType
<1>5. r \in {L!Expected(u[1]), BadGateway}
  BY DEF Answer, Final
<1>. QED
  BY <1>1, <1>3, <1>4, <1>5, WaitReturns

LEMMA WaitAskId ==
  ASSUME Core, Waiting, NEW c \in Client, NEW n \in Nat, AskId(c, n)
  PROVE  Waiting'
<1>0. Types /\ Calls /\ c \in Conn /\ net[c] \in NetType /\ conn[c] \in ConnType
  BY WaitFields DEF Core
<1>1. PICK v, z2, q, m, t, k, g :
        /\ v = NextCall(c) /\ z2 = StartUpstream("id", c, v)
        /\ q = net[c].req - n /\ m = conn[c].rlen + n
        /\ t = net[c] /\ k = conn[c] /\ g = peer[c].got
  OBVIOUS
<1>2. PICK t2, k2 : t2 = [t EXCEPT !.req = q] /\ k2 = [k EXCEPT !.rlen = m]
  OBVIOUS
<1>3. v \in Call /\ v[1] = c /\ ~Used(v)
  BY <1>0, <1>1, FirstCallLeft, FreshCall
<1>4. /\ uc' = [uc EXCEPT ![v] = z2] /\ net' = [net EXCEPT ![c] = t2]
      /\ conn' = [conn EXCEPT ![c] = k2] /\ UNCHANGED <<over, peer>> /\ k.st = "read"
  BY <1>1, <1>2 DEF AskId, Took
<1>5. /\ uc'[v] = z2 /\ \A w \in Call : w # v => uc'[w] = uc[w]
      /\ net'[c] = t2 /\ conn'[c] = k2
      /\ \A j \in Conn : j # c => net'[j] = net[j] /\ conn'[j] = conn[j]
  BY <1>0, <1>3, <1>4 DEF Types
<1>6. v \in Open' /\ \A w \in Call : w # v => (w \in Open' <=> w \in Open)
  BY <1>1, <1>3, <1>5 DEF Open, StartUpstream
<1>7. v \notin Open
  BY <1>3 DEF Open, Used
<1>8. Waits(c)'
  <2>1. HasCall(c)'
    BY <1>3, <1>6 DEF HasCall
  <2>2. Answering(c, t, k, g)
    BY <1>1, WaitFields
  <2>3. /\ t2.res = t.res /\ t2.left = t.left /\ t2.closed = t.closed /\ k2.st = "read"
    BY <1>0, <1>1, <1>2, <1>4 DEF NetType, ConnType
  <2>4. Answering(c, t2, k2, g)
    BY <1>4, <2>2, <2>3 DEF Answering
  <2>5. peer'[c].got = g
    BY <1>1, <1>4
  <2>. QED
    BY <1>5, <2>1, <2>3, <2>4, <2>5, WaitsNow
<1>9. ASSUME NEW d \in Client PROVE Waits(d)'
  <2>1. CASE d = c
    BY <1>8, <2>1
  <2>2. CASE d # c
    <3>1. HasCall(d)' <=> HasCall(d)
      <4>1. \A w \in Call : w[1] = d => (w \in Open' <=> w \in Open)
        BY <1>3, <1>6, <2>2
      <4>. QED
        BY <4>1 DEF HasCall, Open
    <3>2. d \in Conn /\ Waits(d)
      BY Pairs DEF Waiting
    <3>. QED
      BY <1>4, <1>5, <2>2, <3>1, <3>2, WaitsKept
  <2>. QED
    BY <2>1, <2>2
<1>. QED
  BY <1>4, <1>9 DEF Waiting

LEMMA WaitAskAttend ==
  ASSUME Core, Waiting, NEW u \in Call, AskAttend(u)
  PROVE  Waiting'
<1>0. Types /\ Calls /\ u \in Conn /\ u \in Open
  BY Pairs DEF Core, AskAttend, GotAll, Open
<1>1. PICK c, v, z2, y2 : /\ c = u[1] /\ v = NextCall(c)
                          /\ z2 = [uc[u] EXCEPT !.st = "freed"]
                          /\ y2 = StartUpstream("attend", c, u)
  OBVIOUS
<1>2. c \in Client /\ v \in Call /\ v[1] = c /\ ~Used(v) /\ conn[c].st \in {"none", "read"}
  BY <1>0, <1>1, SecondCallLeft, FreshCall, Unanswered
<1>3. /\ uc' = [[uc EXCEPT ![u] = z2] EXCEPT ![v] = y2]
      /\ conn' = conn /\ UNCHANGED peer /\ over' = over
      /\ \A k \in Conn : k # u => net'[k] = net[k]
  BY <1>0, <1>1, <1>2 DEF AskAttend, GotAll, Types
<1>4. u # v /\ v \notin Open
  BY <1>0, <1>2 DEF Used, Open
<1>5. /\ uc'[v] = y2 /\ \A w \in Call : w # u /\ w # v => uc'[w] = uc[w]
  BY <1>0, <1>2, <1>3, <1>4 DEF Types
<1>6. v \in Open' /\ \A w \in Call : w # u /\ w # v => (w \in Open' <=> w \in Open)
  BY <1>1, <1>2, <1>5 DEF Open, StartUpstream
<1>7. ASSUME NEW d \in Client PROVE HasCall(d)' <=> HasCall(d)
  <2>1. CASE d = c
    BY <1>0, <1>1, <1>2, <1>6, <2>1 DEF HasCall
  <2>2. CASE d # c
    <3>1. \A w \in Call : w[1] = d => (w \in Open' <=> w \in Open)
      BY <1>1, <1>2, <1>6, <2>2
    <3>. QED
      BY <3>1 DEF HasCall, Open
  <2>. QED
    BY <2>1, <2>2
<1>8. ASSUME NEW d \in Client PROVE Waits(d)'
  <2>1. d \in Conn /\ d # u /\ Waits(d)
    BY <1>0, Pairs DEF Waiting
  <2>. QED
    BY <1>3, <1>7, <2>1, WaitsKept
<1>. QED
  BY <1>3, <1>8 DEF Waiting

LEMMA WaitBreak ==
  ASSUME Core, Waiting, NEW u \in Call, Break(u)
  PROVE  Waiting'
<1>1. /\ UNCHANGED <<uc, over, peer>> /\ u \notin Client /\ over # "wild"
      /\ \A k \in Conn : k # u => net'[k] = net[k] /\ conn'[k] = conn[k]
  BY Pairs DEF Break, ConnFree, Core, Types, Waiting
<1>. QED
  BY <1>1, OneWaits
-----------------------------------------------------------------------------
(* The clients                                                             *)

LEMMA WaitConnect ==
  ASSUME Core, Waiting, NEW c \in Client, ClientConnect(c)
  PROVE  Waiting'
<1>1. peer'[c].got = peer[c].got /\ \A d \in Client : d # c => peer'[d] = peer[d]
  <2>1. PICK p, p2 : p = peer[c] /\ p2 = [p EXCEPT !.st = "talking"]
    OBVIOUS
  <2>2. peer' = [peer EXCEPT ![c] = p2] /\ peer \in [Client -> PeerType] /\ p \in PeerType
    BY <2>1, WaitFields DEF ClientConnect, Types
  <2>3. p2.got = p.got
    BY <2>1, <2>2 DEF PeerType
  <2>. QED
    BY <2>1, <2>2, <2>3
<1>2. UNCHANGED <<net, conn, uc, over>>
  BY DEF ClientConnect
<1>3. Waits(c)'
  BY <1>1, <1>2, SameCallsOpen, WaitsKept DEF Waiting
<1>. QED
  BY <1>1, <1>2, <1>3, OneWaits DEF Waiting

LEMMA WaitSend ==
  ASSUME Core, Waiting, NEW c \in Client, ClientSend(c)
  PROVE  Waiting'
<1>0. /\ Types /\ c \in Conn /\ net[c] \in NetType /\ peer \in [Client -> PeerType] /\ over # "wild"
  BY WaitFields DEF Types
<1>1. PICK t, k, g, q, p, p2, m :
        /\ t = net[c] /\ k = conn[c] /\ g = peer[c].got /\ q = net[c].req + 1
        /\ p = peer[c] /\ m = peer[c].sent + 1 /\ p2 = [p EXCEPT !.sent = m]
  OBVIOUS
<1>2. PICK t2 : t2 = [t EXCEPT !.req = q]
  OBVIOUS
<1>3. /\ net' = [net EXCEPT ![c] = t2] /\ peer' = [peer EXCEPT ![c] = p2]
      /\ UNCHANGED <<conn, uc, over>>
  BY <1>1, <1>2 DEF ClientSend
<1>4. /\ net'[c] = t2 /\ \A j \in Conn : j # c => net'[j] = net[j]
      /\ peer'[c] = p2 /\ \A d \in Client : d # c => peer'[d] = peer[d]
  BY <1>0, <1>3 DEF Types
<1>5. p2.got = g
  BY <1>0, <1>1 DEF PeerType
<1>6. t2.res = t.res /\ t2.left = t.left /\ t2.closed = t.closed
  BY <1>0, <1>1, <1>2 DEF NetType
<1>7. Answering(c, t, k, g) /\ Working(c)
  BY <1>1, WaitFields
<1>8. Answering(c, t2, k, g)
  BY <1>6, <1>7 DEF Answering, Pieces, Count
<1>9. HasCall(c)' <=> HasCall(c)
  BY <1>3, SameCallsOpen
<1>10. Waits(c)'
  <2>1. /\ k.st \in {"none", "read"} /\ k.rlen >= Length(c) => HasCall(c)'
        /\ k.st \in {"write", "freed"} => ~HasCall(c)'
    BY <1>1, <1>7, <1>9 DEF Working
  <2>2. conn'[c] = k /\ peer'[c].got = g
    BY <1>1, <1>3, <1>4, <1>5
  <2>. QED
    BY <1>4, <1>8, <2>1, <2>2, WaitsNow
<1>. QED
  BY <1>0, <1>3, <1>4, <1>10, OneWaits

LEMMA WaitRead ==
  ASSUME Core, Waiting, NEW c \in Client, ClientRead(c)
  PROVE  Waiting'
<1>0. /\ Types /\ c \in Conn /\ net[c] \in NetType /\ peer \in [Client -> PeerType]
      /\ over # "wild" /\ conn[c].st \in {"none", "read", "write", "freed"}
  BY WaitFields DEF Types
<1>1. PICK t, k, g, s, e, p :
        t = net[c] /\ k = conn[c] /\ g = peer[c].got /\ s = net[c].res /\ e = << >> /\ p = peer[c]
  OBVIOUS
<1>2. PICK t2, g2 : t2 = [t EXCEPT !.res = e] /\ g2 = g \o s
  OBVIOUS
<1>3. PICK p2 : p2 = [p EXCEPT !.got = g2]
  OBVIOUS
<1>4. /\ net' = [net EXCEPT ![c] = t2] /\ peer' = [peer EXCEPT ![c] = p2]
      /\ UNCHANGED <<conn, uc, over>> /\ s # << >>
  BY <1>1, <1>2, <1>3 DEF ClientRead
<1>5. /\ net'[c] = t2 /\ \A j \in Conn : j # c => net'[j] = net[j]
      /\ peer'[c] = p2 /\ \A d \in Client : d # c => peer'[d] = peer[d]
  BY <1>0, <1>4 DEF Types
<1>6. p2.got = g2
  BY <1>0, <1>1, <1>3 DEF PeerType
<1>7. t2.res = e /\ t2.left = t.left /\ t2.closed = t.closed
  BY <1>0, <1>1, <1>2 DEF NetType
<1>8. Answering(c, t, k, g) /\ Working(c) /\ s \in Seq(Replies) /\ g \in Seq(Replies) /\ s = t.res
  BY <1>1, WaitFields
<1>9. Count(t2, g2) = Count(t, g)
  <2>1. PICK x, y : x = Len(g) /\ y = Len(s)
    OBVIOUS
  <2>2. x \in Nat /\ y \in Nat
    BY <1>8, <2>1
  <2>3. Len(g2) = x + y /\ Len(e) = 0
    BY <1>1, <1>2, <1>8, <2>1, Joined
  <2>. QED
    BY <1>7, <1>8, <2>1, <2>2, <2>3 DEF Count
<1>10. ASSUME NEW r, Pieces(t, g, r) PROVE Pieces(t2, g2, r)
  <2>1. AllOf(g, r) /\ AllOf(s, r)
    BY <1>8, <1>10 DEF Pieces
  <2>2. AllOf(g2, r)
    BY <1>2, <1>8, <2>1, Joined
  <2>3. AllOf(e, r)
    BY <1>1, Empty
  <2>. QED
    BY <1>7, <2>2, <2>3 DEF Pieces
<1>11. Answering(c, t2, k, g2)
  <2>1. k.st \in {"write", "freed"}
    BY <1>0, <1>1, <1>4, <1>8 DEF Answering
  <2>2. CASE k.st = "write"
    BY <1>7, <1>8, <1>9, <1>10, <2>2 DEF Answering
  <2>3. CASE k.st = "freed"
    <3>1. Count(t, g) = ResLen /\ \E r \in Replies : Pieces(t, g, r)
      BY <1>4, <1>8, <2>3 DEF Answering
    <3>. QED
      BY <1>7, <1>8, <1>9, <1>10, <2>3, <3>1 DEF Answering
  <2>. QED
    BY <2>1, <2>2, <2>3
<1>12. HasCall(c)' <=> HasCall(c)
  BY <1>4, SameCallsOpen
<1>13. Waits(c)'
  <2>1. /\ k.st \in {"none", "read"} /\ k.rlen >= Length(c) => HasCall(c)'
        /\ k.st \in {"write", "freed"} => ~HasCall(c)'
    BY <1>1, <1>8, <1>12 DEF Working
  <2>2. conn'[c] = k /\ peer'[c].got = g2
    BY <1>1, <1>4, <1>5, <1>6
  <2>. QED
    BY <1>5, <1>11, <2>1, <2>2, WaitsNow
<1>. QED
  BY <1>0, <1>4, <1>5, <1>13, OneWaits

LEMMA WaitStep ==
  ASSUME ~ClientsLeave, ~ClientsSendMore, WaitInv, Branch
  PROVE  Waiting'
<1>0. Core /\ Waiting
  BY DEF WaitInv
<1>1. CASE \E s \in {"frontend", "id", "attend"} : OnAccept(s)
  BY <1>0, <1>1, WaitAccept
<1>2. ASSUME NEW k \in Conn, NEW n \in Nat, ReadPart(k, n) \/ WriteOut(k, n) PROVE Waiting'
  BY <1>0, <1>2, WaitReadPart, WaitWriteOut
<1>3. ASSUME NEW k \in Conn, NEW n \in Nat, NEW r \in Replies, ReplyNow(k, n, r) PROVE Waiting'
  BY <1>0, <1>3, WaitReplyNow
<1>4. ASSUME NEW k \in Conn, Close(k) PROVE Waiting'
  BY <1>0, <1>4, WaitClose
<1>5. ASSUME NEW c \in Client, NEW n \in Nat, AskId(c, n) PROVE Waiting'
  BY <1>0, <1>5, WaitAskId
<1>6. ASSUME NEW c \in Client, ClientConnect(c) \/ ClientSend(c) \/ ClientRead(c) PROVE Waiting'
  BY <1>0, <1>6, WaitConnect, WaitSend, WaitRead
<1>7. ASSUME NEW c \in Client, ClientLeave(c) PROVE FALSE
  BY <1>7 DEF ClientLeave
<1>8. ASSUME NEW u \in Call, Fail(u) \/ AskAttend(u) \/ Break(u) PROVE Waiting'
  BY <1>0, <1>8, WaitFail, WaitAskAttend, WaitBreak
<1>9. ASSUME NEW u \in Call, NEW n \in Nat, Connected(u) \/ SendPart(u, n) \/ GetPart(u, n)
      PROVE  Waiting'
  BY <1>0, <1>9, WaitGoesOn
<1>10. ASSUME NEW u \in Call, NEW r \in Replies, Answer(u, r) PROVE Waiting'
  BY <1>0, <1>10, WaitAnswer
<1>11. CASE UNCHANGED <<net, conn, uc, ctx, peer>> /\ over' \in {"sigpipe", over}
  <2>1. ASSUME NEW c \in Client PROVE Waits(c)'
    BY <1>0, <1>11, SameCallsOpen, WaitsKept DEF Waiting
  <2>. QED
    BY <1>0, <1>11, <2>1 DEF Waiting
<1>12. 0 \in Nat
  OBVIOUS
<1>. QED
  BY <1>1, <1>2, <1>3, <1>4, <1>5, <1>6, <1>7, <1>8, <1>9, <1>10, <1>11, <1>12
     DEF Branch, Killed, vars

LEMMA WaitInit == ASSUME Init PROVE Waiting
<1>1. ASSUME NEW c \in Client PROVE Waits(c)
  <2>1. c \in Conn
    BY Pairs
  <2>2. PICK t, k, g : t = net[c] /\ k = conn[c] /\ g = peer[c].got
    OBVIOUS
  <2>3. /\ t.res = << >> /\ ~t.left /\ ~t.closed /\ k.st = "none" /\ k.rlen = 0 /\ g = << >>
    BY <2>1, <2>2 DEF Init
  <2>4. Answering(c, t, k, g)
    BY <2>3 DEF Answering
  <2>5. Working(c)
    BY <2>1, <2>2, <2>3, Numbers DEF Working
  <2>. QED
    BY <2>2, <2>4, <2>5 DEF Waits
<1>. QED
  BY <1>1 DEF Waiting, Init

LEMMA WaitAlways == ASSUME ~ClientsLeave, ~ClientsSendMore PROVE Spec => []WaitInv
<1>1. Init => WaitInv
  BY CoreInit, WaitInit DEF WaitInv
<1>2. WaitInv /\ [Next]_vars => WaitInv'
  BY Branches, CoreStep, WaitStep DEF WaitInv
<1>. QED
  BY <1>1, <1>2, PTL DEF Spec

LEMMA ReceivedIs ==
  ASSUME Core, Waiting, NEW c \in Client
  PROVE  /\ Received(c) \in Seq(Replies)
         /\ Len(Received(c)) = Count(net[c], peer[c].got)
         /\ \A r : Pieces(net[c], peer[c].got, r) => AllOf(Received(c), r)
         /\ Count(net[c], peer[c].got) = 0 <=> Received(c) = << >>
<1>1. PICK g \in Seq(Replies), s \in Seq(Replies) : g = peer[c].got /\ s = net[c].res
  BY WaitFields
<1>2. g \o s \in Seq(Replies) /\ Len(g \o s) = Len(g) + Len(s)
  BY Joined
<1>3. ASSUME NEW r, AllOf(g, r), AllOf(s, r) PROVE AllOf(g \o s, r)
  BY <1>3, Joined
<1>4. Len(g) + Len(s) = 0 <=> g \o s = << >>
  BY <1>2
<1>. QED
  BY <1>1, <1>2, <1>3, <1>4 DEF Received, Count, Pieces
-----------------------------------------------------------------------------
(* With clients that send one request and wait the frontend touches no     *)
(* conn_t after conn_free, whichever way calls fail.  The other clients    *)
(* are those with whom the code does so: one that leaves or sends more     *)
(* runs on_client_read_cb while a call points to its connection.           *)
LEMMA NoConnUsedAfterFree ==
  ASSUME ~ClientsLeave, ~ClientsSendMore
  PROVE  Spec => []NoUseAfterFree
<1>1. WaitInv => NoUseAfterFree
  BY DEF WaitInv, Waiting, NoUseAfterFree
<1>. QED
  BY <1>1, WaitAlways, PTL

(* A request that has been read completely and is not being answered has   *)
(* an open call, whichever way calls fail: no failure path of              *)
(* tcp_handler.c forgets the client.                                       *)
THEOREM RequestsAreWorkedOn ==
  ASSUME ~ClientsLeave, ~ClientsSendMore
  PROVE  Spec => []WaitingHasCall
<1>1. ASSUME WaitInv PROVE WaitingHasCall
  <2>1. SUFFICES ASSUME NEW c \in Client, conn[c].st = "read", conn[c].rlen >= Length(c)
                 PROVE  HasCall(c)
    BY DEF WaitingHasCall, HasCall
  <2>2. Working(c)
    BY <1>1 DEF WaitInv, Waiting, Waits
  <2>. QED
    BY <2>1, <2>2 DEF Working
<1>. QED
  BY <1>1, WaitAlways, PTL

(* What a client has received is a prefix of one response and all of it    *)
(* when its connection is closed, however reads and writes are split:      *)
(* on_client_write never loses, repeats or mixes pieces.                   *)
THEOREM AnswersAreWhole ==
  ASSUME ~ClientsLeave, ~ClientsSendMore
  PROVE  Spec => []WholeAnswer
<1>1. ASSUME WaitInv PROVE WholeAnswer
  <2>0. Core /\ Waiting
    BY <1>1 DEF WaitInv
  <2>1. SUFFICES ASSUME NEW c \in Client
                 PROVE  /\ Len(Received(c)) <= ResLen
                        /\ \A i \in DOMAIN Received(c) : Received(c)[i] = Head(Received(c))
                        /\ net[c].closed /\ Asks[c] # "long" => Len(Received(c)) = ResLen
    BY DEF WholeAnswer
  <2>2. PICK t, k, g, s : t = net[c] /\ k = conn[c] /\ g = peer[c].got /\ s = Received(c)
    OBVIOUS
  <2>3. /\ Answering(c, t, k, g) /\ k.st \in {"none", "read", "write", "freed"}
        /\ k.wpos \in Nat /\ ResLen \in Nat
    BY <2>0, <2>2, WaitFields, Fields, Numbers
  <2>4. /\ s \in Seq(Replies) /\ Len(s) = Count(t, g)
        /\ \A r : Pieces(t, g, r) => AllOf(s, r)
        /\ Count(t, g) = 0 <=> s = << >>
    BY <2>0, <2>2, ReceivedIs
  <2>5. CASE \E r : Pieces(t, g, r)
    <3>1. PICK r : AllOf(s, r)
      BY <2>4, <2>5
    <3>2. \A i \in DOMAIN s : s[i] = r
      BY <2>4, <3>1 DEF AllOf
    <3>3. DOMAIN s # {} => Head(s) = r
      BY <2>4, <3>2
    <3>4. \A i \in DOMAIN s : s[i] = Head(s)
      BY <3>2, <3>3
    <3>5. \/ k.st \in {"none", "read"} /\ Count(t, g) = 0 /\ ~t.closed
          \/ k.st = "write" /\ Count(t, g) < ResLen /\ ~t.closed
          \/ k.st = "freed" /\ Count(t, g) = 0 /\ Asks[c] = "long"
          \/ k.st = "freed" /\ Count(t, g) = ResLen
      BY <2>3 DEF Answering, Count
    <3>6. Len(s) <= ResLen /\ (t.closed /\ Asks[c] # "long" => Len(s) = ResLen)
      BY <2>3, <2>4, <3>5
    <3>. QED
      BY <2>2, <3>4, <3>6
  <2>6. CASE g = << >> /\ t.res = << >>
    BY <2>5, <2>6 DEF Pieces, AllOf
  <2>. QED
    BY <2>3, <2>5, <2>6 DEF Answering
<1>. QED
  BY <1>1, WaitAlways, PTL
-----------------------------------------------------------------------------
(* The refinement of Lookup                                                *)

Given == [c \in Client |-> IF Received(c) = << >> THEN Nil ELSE Head(Received(c))]

LEMMA GivenIs ==
  ASSUME Core, Waiting, NEW c \in Client
  PROVE  /\ Count(net[c], peer[c].got) = 0 => Given[c] = Nil
         /\ \A r : Pieces(net[c], peer[c].got, r) /\ Count(net[c], peer[c].got) > 0
                      => Given[c] = r
<1>1. PICK s : s = Received(c)
  OBVIOUS
<1>2. PICK n : n = Count(net[c], peer[c].got)
  OBVIOUS
<1>3. /\ s \in Seq(Replies) /\ Len(s) = n /\ (n = 0 <=> s = << >>)
      /\ \A r : Pieces(net[c], peer[c].got, r) => AllOf(s, r)
  BY <1>1, <1>2, ReceivedIs
<1>4. ASSUME NEW r, Pieces(net[c], peer[c].got, r), n > 0 PROVE Given[c] = r
  <2>1. AllOf(s, r) /\ Len(s) > 0
    BY <1>3, <1>4
  <2>2. Head(s) = r
    BY <1>3, <2>1, First
  <2>3. s # << >>
    BY <2>1
  <2>. QED
    BY <1>1, <2>2, <2>3 DEF Given
<1>5. n = 0 => Given[c] = Nil
  BY <1>1, <1>3 DEF Given
<1>. QED
  BY <1>2, <1>4, <1>5

LEMMA GivenKept ==
  ASSUME \A c \in Client : Received(c)' = Received(c)
  PROVE  Given' = Given
BY DEF Given

(* Only a write to the client tells it something.                          *)
LEMMA GivenChanges ==
  ASSUME ~ClientsLeave, WaitInv, Branch
  PROVE  \/ Given' = Given
         \/ \E c \in Client : \E n \in Nat : WriteOut(c, n)
<1>0. Core /\ Waiting /\ Types
  BY DEF WaitInv, Core
<1>1. SUFFICES ASSUME \A c \in Client : \A n \in Nat : ~WriteOut(c, n)
               PROVE  Given' = Given
  OBVIOUS
<1>2. ASSUME \A c \in Client : net'[c].res = net[c].res /\ peer'[c].got = peer[c].got
      PROVE  Given' = Given
  BY <1>2, GivenKept DEF Received
<1>3. ASSUME NEW c \in Client, ClientRead(c) PROVE Given' = Given
  <2>1. PICK t, t2, p, p2, e, g2 : /\ t = net[c] /\ e = << >> /\ t2 = [t EXCEPT !.res = e]
                                  /\ p = peer[c] /\ g2 = peer[c].got \o net[c].res
                                  /\ p2 = [p EXCEPT !.got = g2]
    OBVIOUS
  <2>2. net' = [net EXCEPT ![c] = t2] /\ peer' = [peer EXCEPT ![c] = p2]
    BY <1>3, <2>1 DEF ClientRead
  <2>3. t2.res = e /\ p2.got = g2
    BY <1>0, <2>1, WaitFields DEF NetType, PeerType
  <2>4. net'[c] = t2 /\ peer'[c] = p2
    BY <1>0, <2>2, Pairs DEF Types
  <2>5. g2 \o e = g2
    <3>1. g2 \in Seq(Replies) /\ e \in Seq(Replies)
      BY <1>0, <2>1, WaitFields, Joined
    <3>. QED
      BY <2>1, <3>1, Joined
  <2>6. Received(c)' = Received(c)
    BY <2>1, <2>3, <2>4, <2>5 DEF Received
  <2>7. ASSUME NEW d \in Client, d # c PROVE Received(d)' = Received(d)
    <3>1. net'[d] = net[d] /\ peer'[d] = peer[d]
      BY <1>0, <2>2, <2>7, Pairs DEF Types
    <3>. QED
      BY <3>1 DEF Received
  <2>. QED
    BY <2>6, <2>7, GivenKept
<1>4. ASSUME NEW k \in Conn, NEW nk, nk.res = net[k].res, net' = [net EXCEPT ![k] = nk],
             UNCHANGED peer
      PROVE  Given' = Given
  <2>1. \A c \in Client : net'[c].res = net[c].res
    BY <1>0, <1>4, Pairs DEF Types
  <2>. QED
    BY <1>2, <1>4, <2>1
<1>5. ASSUME NEW u \in Call, NEW nk, net' = [net EXCEPT ![u] = nk], UNCHANGED peer
      PROVE  Given' = Given
  <2>1. \A c \in Client : net'[c] = net[c]
    BY <1>0, <1>5, Pairs DEF Types
  <2>. QED
    BY <1>2, <1>5, <2>1
<1>6. ASSUME NEW k \in Conn, NEW n \in Nat, Took(k, n) PROVE Given' = Given
  <2>1. PICK t, q : t = net[k] /\ q = net[k].req - n
    OBVIOUS
  <2>2. PICK nk : nk = [t EXCEPT !.req = q]
    OBVIOUS
  <2>3. net' = [net EXCEPT ![k] = nk] /\ UNCHANGED peer
    BY <1>6, <2>1, <2>2 DEF Took
  <2>4. nk.res = t.res
    BY <1>0, <2>1, <2>2, Fields DEF NetType
  <2>. QED
    BY <1>4, <2>1, <2>3, <2>4
<1>7. ASSUME NEW k \in Conn, ConnFree(k), UNCHANGED peer PROVE Given' = Given
  <2>1. PICK t : t = net[k]
    OBVIOUS
  <2>2. PICK nk : nk = [t EXCEPT !.closed = TRUE]
    OBVIOUS
  <2>3. net' = [net EXCEPT ![k] = nk]
    BY <1>7, <2>1, <2>2 DEF ConnFree
  <2>4. nk.res = t.res
    BY <1>0, <2>1, <2>2, Fields DEF NetType
  <2>. QED
    BY <1>4, <1>7, <2>1, <2>3, <2>4
<1>8. ASSUME NEW c \in Client, ClientSend(c) PROVE Given' = Given
  <2>1. PICK t, q, p, m : t = net[c] /\ q = net[c].req + 1 /\ p = peer[c] /\ m = peer[c].sent + 1
    OBVIOUS
  <2>2. PICK t2, p2 : t2 = [t EXCEPT !.req = q] /\ p2 = [p EXCEPT !.sent = m]
    OBVIOUS
  <2>3. net' = [net EXCEPT ![c] = t2] /\ peer' = [peer EXCEPT ![c] = p2]
    BY <1>8, <2>1, <2>2 DEF ClientSend
  <2>4. t2.res = t.res /\ p2.got = p.got
    BY <1>0, <2>1, <2>2, WaitFields DEF NetType, PeerType
  <2>5. \A d \in Client : net'[d].res = net[d].res /\ peer'[d].got = peer[d].got
    BY <1>0, <2>1, <2>3, <2>4, Pairs DEF Types
  <2>. QED
    BY <1>2, <2>5
<1>9. ASSUME NEW c \in Client, ClientConnect(c) PROVE Given' = Given
  <2>1. PICK p, p2 : p = peer[c] /\ p2 = [p EXCEPT !.st = "talking"]
    OBVIOUS
  <2>2. peer' = [peer EXCEPT ![c] = p2] /\ net' = net
    BY <2>1, <1>9 DEF ClientConnect
  <2>3. p2.got = p.got
    BY <1>0, <2>1, WaitFields DEF PeerType
  <2>4. \A d \in Client : net'[d].res = net[d].res /\ peer'[d].got = peer[d].got
    BY <1>0, <2>1, <2>2, <2>3 DEF Types
  <2>. QED
    BY <1>2, <2>4
<1>10. ASSUME UNCHANGED <<net, peer>> PROVE Given' = Given
  BY <1>2, <1>10
<1>11. CASE \E s \in {"frontend", "id", "attend"} : OnAccept(s)
  BY <1>10, <1>11 DEF OnAccept
<1>12. ASSUME NEW k \in Conn, NEW n \in Nat, ReadPart(k, n) PROVE Given' = Given
  BY <1>6, <1>12 DEF ReadPart
<1>13. ASSUME NEW k \in Conn, NEW n \in Nat, WriteOut(k, n) PROVE Given' = Given
  <2>1. k \in Call
    BY <1>1, <1>13 DEF Conn
  <2>2. PICK nk : nk = [net[k] EXCEPT !.res = net[k].res \o [i \in 1..n |-> conn[k].wbuf],
                                      !.closed = conn[k].wpos + n = ResLen]
    OBVIOUS
  <2>3. net' = [net EXCEPT ![k] = nk] /\ UNCHANGED peer
    BY <1>13, <2>2 DEF WriteOut
  <2>. QED
    BY <1>5, <2>1, <2>3
<1>14. ASSUME NEW k \in Conn, NEW n \in Nat, NEW r \in Replies, ReplyNow(k, n, r)
       PROVE  Given' = Given
  BY <1>6, <1>14 DEF ReplyNow
<1>15. ASSUME NEW k \in Conn, Close(k) PROVE Given' = Given
  BY <1>7, <1>15 DEF Close
<1>16. ASSUME NEW c \in Client, NEW n \in Nat, AskId(c, n) PROVE Given' = Given
  BY <1>6, <1>16, Pairs DEF AskId
<1>17. ASSUME NEW c \in Client, ClientLeave(c) PROVE FALSE
  BY <1>17 DEF ClientLeave
<1>18. ASSUME NEW u \in Call, Break(u) PROVE Given' = Given
  BY <1>7, <1>18, Pairs DEF Break
<1>19. ASSUME NEW u \in Call, Fail(u) PROVE Given' = Given
  BY <1>5, <1>19 DEF Fail, UpstreamFailed
<1>20. ASSUME NEW u \in Call, Connected(u) PROVE Given' = Given
  BY <1>10, <1>20 DEF Connected
<1>21. ASSUME NEW u \in Call, GotAll(u) PROVE Given' = Given
  <2>1. PICK nk : nk = [net[u] EXCEPT !.res = << >>, !.left = TRUE]
    OBVIOUS
  <2>2. net' = [net EXCEPT ![u] = nk] /\ UNCHANGED peer
    BY <1>0, <1>21, <2>1, Pairs DEF GotAll, Types
  <2>. QED
    BY <1>5, <2>2
<1>22. ASSUME NEW u \in Call, NEW n \in Nat, SendPart(u, n) \/ GetPart(u, n) PROVE Given' = Given
  BY <1>5, <1>22 DEF SendPart, GetPart
<1>. QED
  BY <1>3, <1>8, <1>9, <1>10, <1>11, <1>12, <1>13, <1>14, <1>15, <1>16, <1>17, <1>18, <1>19,
     <1>20, <1>21, <1>22
     DEF Branch, Killed, vars, Answer, AskAttend

(* The first write tells the answer, the others repeat it.                 *)
LEMMA Tells ==
  ASSUME WaitInv, WaitInv', NEW c \in Client, NEW n \in Nat, WriteOut(c, n)
  PROVE  \/ Given' = Given
         \/ \E a \in {L!Expected(c), BadGateway} :
              Given[c] = Nil /\ Given' = [Given EXCEPT ![c] = a]
<1>0. Core /\ Waiting /\ Types /\ Core' /\ Waiting' /\ Types' /\ c \in Conn
  BY Pairs DEF WaitInv, Core
<1>1. PICK r : r = conn[c].wbuf
  OBVIOUS
<1>2. conn[c].st = "write" /\ n \in 1..(ResLen - conn[c].wpos) /\ UNCHANGED peer
  BY DEF WriteOut
<1>3. \A d \in Client : d # c => net'[d] = net[d]
  BY <1>0, Pairs DEF WriteOut, Types
<1>4. r \in {L!Expected(c), BadGateway} /\ Pieces(net[c], peer[c].got, r)
  BY <1>0, <1>1, <1>2, WaitFields DEF Answering
<1>5. Given'[c] = r
  <2>1. PICK g, p, q, s, t2 : /\ g = peer[c].got /\ p = net[c].res /\ s = [i \in 1..n |-> r]
                              /\ q = p \o s /\ t2 = net'[c]
    OBVIOUS
  <2>2. t2.res = q
    <3>1. PICK t, b : t = net[c] /\ b = (conn[c].wpos + n = ResLen)
      OBVIOUS
    <3>2. net' = [net EXCEPT ![c] = [t EXCEPT !.res = q, !.closed = b]]
      BY <1>1, <2>1, <3>1 DEF WriteOut
    <3>3. t2 = [t EXCEPT !.res = q, !.closed = b]
      BY <1>0, <2>1, <3>2 DEF Types
    <3>4. t \in NetType
      BY <1>0, <3>1, WaitFields
    <3>. QED
      BY <3>3, <3>4 DEF NetType
  <2>3. /\ g \in Seq(Replies) /\ p \in Seq(Replies) /\ AllOf(g, r) /\ AllOf(p, r) /\ r \in Replies
    <3>1. r \in Replies
      BY <1>0, <1>1, <1>2, TypesOf
    <3>. QED
      BY <1>0, <1>4, <2>1, <3>1, WaitFields DEF Pieces
  <2>4. s \in Seq(Replies) /\ Len(s) = n /\ AllOf(s, r)
    <3>1. s = [i \in 1..n |-> r]
      BY <2>1
    <3>2. s \in Seq(Replies) /\ Len(s) = n
      BY <2>3, <3>1, Filled
    <3>3. \A i \in 1..n : s[i] = r
      BY <3>1
    <3>. QED
      BY <3>2, <3>3 DEF AllOf
  <2>5. q \in Seq(Replies) /\ Len(q) = Len(p) + n /\ AllOf(q, r)
    <3>1. q = p \o s
      BY <2>1
    <3>2. p \o s \in Seq(Replies) /\ Len(p \o s) = Len(p) + n /\ AllOf(p \o s, r)
      BY <2>3, <2>4, Longer
    <3>. QED
      BY <3>1, <3>2
  <2>6. g \o q \in Seq(Replies) /\ Len(g \o q) = Len(g) + Len(q) /\ AllOf(g \o q, r)
    BY <2>3, <2>5, Longer
  <2>7. Len(g \o q) > 0
    <3>1. Len(g) \in Nat /\ Len(p) \in Nat /\ n \in Nat /\ n >= 1
      BY <1>2, <2>3
    <3>. QED
      BY <2>5, <2>6, <3>1
  <2>8. Received(c)' = g \o q
    BY <1>2, <2>1, <2>2 DEF Received
  <2>9. Head(g \o q) = r /\ g \o q # << >>
    <3>1. PICK y : y = g \o q
      OBVIOUS
    <3>2. y \in Seq(Replies) /\ AllOf(y, r) /\ Len(y) > 0
      BY <2>6, <2>7, <3>1
    <3>3. Head(y) = r /\ y # << >>
      BY <3>2, First
    <3>. QED
      BY <3>1, <3>3
  <2>. QED
    BY <2>8, <2>9 DEF Given
<1>6. \A d \in Client : d # c => Given'[d] = Given[d]
  BY <1>2, <1>3 DEF Given, Received
<1>7. Given[c] \in {Nil, r}
  <2>1. PICK m : m = Count(net[c], peer[c].got)
    OBVIOUS
  <2>2. m \in Nat
    <3>1. PICK g \in Seq(Replies), s \in Seq(Replies) : g = peer[c].got /\ s = net[c].res
      BY <1>0, WaitFields
    <3>2. Len(g) + Len(s) \in Nat
      OBVIOUS
    <3>3. m = Len(g) + Len(s)
      BY <2>1, <3>1 DEF Count
    <3>. QED
      BY <3>2, <3>3
  <2>3. m = 0 \/ m > 0
    BY <2>2
  <2>. QED
    BY <1>0, <1>4, <2>1, <2>3, GivenIs
<1>8. Given = [d \in Client |-> Given[d]] /\ Given' = [d \in Client |-> Given'[d]]
  BY DEF Given
<1>9. CASE Given[c] = r
  BY <1>5, <1>6, <1>8, <1>9
<1>10. CASE Given[c] = Nil
  <2>1. Given' = [Given EXCEPT ![c] = r]
    BY <1>5, <1>6, <1>8
  <2>. QED
    BY <1>4, <1>10, <2>1
<1>. QED
  BY <1>7, <1>9, <1>10

(* Over TCP the services keep the promise of Lookup, for every number of   *)
(* clients that send one request and wait, and whichever way calls fail:   *)
(* the one answer that handle_request and handle_upstream_response give a  *)
(* client is the answer to its own question, or a 502.                     *)
THEOREM TcpKeepsPromise ==
  ASSUME ~ClientsLeave, ~ClientsSendMore
  PROVE  Spec => ImplementsLookup
<1>1. Init => L!Init
  <2>1. ASSUME Init, NEW c \in Client PROVE Received(c) = << >>
    BY <2>1, Pairs DEF Init, Received
  <2>. QED
    BY <2>1 DEF L!Init
<1>2. WaitInv /\ WaitInv' /\ [Next]_vars => L!Next \/ Given' = Given
  <2>1. SUFFICES ASSUME WaitInv, WaitInv', [Next]_vars PROVE L!Next \/ Given' = Given
    OBVIOUS
  <2>2. CASE Given' = Given
    BY <2>2
  <2>3. ASSUME NEW c \in Client, NEW n \in Nat, WriteOut(c, n) PROVE L!Next \/ Given' = Given
    <3>1. ASSUME NEW a \in {L!Expected(c), BadGateway},
                 Given[c] = Nil, Given' = [Given EXCEPT ![c] = a]
          PROVE  L!Next
      <4>1. L!Tell(c, a)
        BY <3>1 DEF L!Tell, Given
      <4>2. BadGateway = L!Says(502, L!NoBody)
        BY DEF BadGateway, Reply, NoBody, L!Says
      <4>. QED
        BY <3>1, <4>1, <4>2 DEF L!Next
    <3>. QED
      BY <2>1, <2>3, <3>1, Tells
  <2>4. Branch
    BY <2>1, Branches DEF WaitInv
  <2>. QED
    BY <2>1, <2>2, <2>3, <2>4, GivenChanges
<1>3. Given' = Given => UNCHANGED [c \in Client |-> IF Received(c) = << >> THEN Nil ELSE Head(Received(c))]
  BY DEF Given
<1>4. WaitInv /\ WaitInv' /\ [Next]_vars => [L!Next]_([c \in Client |-> IF Received(c) = << >> THEN Nil ELSE Head(Received(c))])
  BY <1>2, <1>3
<1>. QED
  BY <1>1, <1>4, WaitAlways, PTL DEF Spec, ImplementsLookup, L!Spec
=============================================================================
