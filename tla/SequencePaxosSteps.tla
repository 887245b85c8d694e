------------------------- MODULE SequencePaxosSteps -------------------------
(***************************************************************************)
(* Proofs about the steps of SequencePaxos: the types, what each action    *)
(* sends, what a step may do to the rounds of its peers, and each part of  *)
(* IInv that an action can disturb. SequencePaxosRounds builds on them.    *)
(***************************************************************************)
EXTENDS SequencePaxos, TLAPS

\* Two sequences appended: their elements in order.
LEMMA ConcatProperties ==
  ASSUME NEW S, NEW p \in Seq(S), NEW q \in Seq(S)
  PROVE  /\ p \o q \in Seq(S)
         /\ Len(p \o q) = Len(p) + Len(q)
         /\ \A i \in 1 .. Len(p) + Len(q) : (p \o q)[i] =
                     IF i <= Len(p) THEN p[i] ELSE q[i - Len(p)]
  OBVIOUS

\* A slice of a log: as long as its bounds say, its elements in order.
LEMMA SubSeqProperties ==
  ASSUME NEW S, NEW q, NEW m \in Int, NEW n \in Int, \A i \in m .. n : q[i] \in S
  PROVE  /\ SubSeq(q, m, n) \in Seq(S)
         /\ Len(SubSeq(q, m, n)) = IF m <= n THEN n - m + 1 ELSE 0
         /\ \A i \in 1 .. n - m + 1 : SubSeq(q, m, n)[i] = q[m + i - 1]
  OBVIOUS

\* A command appended to a log of commands makes one.
LEMMA AppendProperties ==
  ASSUME NEW S, NEW q \in Seq(S), NEW e \in S
  PROVE  Append(q, e) \in Seq(S)
  OBVIOUS

\* Ballot.compare returns 0 on equal ballots.
LEMMA LeqRefl == \A a \in Ballot : Leq(a, a)
  BY ZenonT(40) DEF Leq

\* Ballot.compare orders ballots transitively.
LEMMA LeqTrans ==
  ASSUME NEW a \in Ballot, NEW b \in Ballot, NEW c \in Ballot, Leq(a, b), Leq(b, c)
  PROVE  Leq(a, c)
  BY DEF Leq, Less, Ballot, Server

\* Ballot.compare is never < 0 both ways.
LEMMA LessNotLeq ==
  ASSUME NEW a \in Ballot, NEW b \in Ballot, Less(a, b)
  PROVE  ~Leq(b, a) /\ Leq(a, b)
  BY DEF Leq, Less, Ballot, Server

\* The zero ballot a fresh peer starts from is the least one.
LEMMA ZeroLeq ==
  ASSUME NEW a \in Ballot
  PROVE  ZeroBallot \in Ballot /\ Leq(ZeroBallot, a)
  BY NumServersAssumption DEF Leq, Less, Ballot, Server, ZeroBallot

\* The type of the network.
Links == [Server -> [Server -> Seq(Message)]]

\* What is in a queue after an append was there or was appended.
LEMMA RangeConcat ==
  ASSUME NEW S, NEW p \in Seq(S), NEW q \in Seq(S)
  PROVE  \A x \in Range(p \o q) : x \in Range(p) \/ x \in Range(q)
<1>1. /\ p \o q \in Seq(S)
      /\ Len(p \o q) = Len(p) + Len(q)
      /\ \A i \in 1 .. Len(p) + Len(q) : (p \o q)[i] =
                     IF i <= Len(p) THEN p[i] ELSE q[i - Len(p)]
  BY ZenonT(40), ConcatProperties
<1>2. DOMAIN (p \o q) = 1 .. Len(p) + Len(q) /\ DOMAIN p = 1 .. Len(p) /\ DOMAIN q = 1 .. Len(q)
  BY <1>1
<1>3. Len(p) \in Nat /\ Len(q) \in Nat
  OBVIOUS
<1>4. SUFFICES ASSUME NEW i \in 1 .. Len(p) + Len(q)
               PROVE (p \o q)[i] \in Range(p) \/ (p \o q)[i] \in Range(q)
  BY ZenonT(40), <1>2 DEF Range
<1>5. CASE i <= Len(p)
  BY <1>1, <1>2, <1>5 DEF Range
<1>6. CASE ~(i <= Len(p))
  <2>1. i - Len(p) \in DOMAIN q
    BY <1>2, <1>3, <1>6
  <2>2. (p \o q)[i] = q[i - Len(p)]
    BY ZenonT(40), <1>1, <1>6
  <2> QED BY ZenonT(40), <2>1, <2>2 DEF Range
<1> QED BY ZenonT(40), <1>5, <1>6

\* Taking one RPC out of a link leaves a sequence of RPCs that were on it.
LEMMA CutOutProps ==
  ASSUME NEW S, NEW q \in Seq(S), NEW i \in DOMAIN q
  PROVE  /\ Prefix(q, i - 1) \o Suffix(q, i) \in Seq(S)
         /\ \A x \in Range(Prefix(q, i - 1) \o Suffix(q, i)) : x \in Range(q)
<1> DEFINE a == SubSeq(q, 1, i - 1)
           b == SubSeq(q, i + 1, Len(q))
<1>1. i \in 1 .. Len(q) /\ Len(q) \in Nat /\ DOMAIN q = 1 .. Len(q)
  OBVIOUS
<1>2. \A j \in 1 .. Len(q) : q[j] \in S
  BY <1>1
<1>3. /\ a \in Seq(S)
      /\ Len(a) = i - 1
      /\ \A j \in 1 .. i - 1 : a[j] = q[j]
  BY <1>1, <1>2, SubSeqProperties
<1>4. /\ b \in Seq(S)
      /\ Len(b) = Len(q) - i
      /\ \A j \in 1 .. Len(q) - i : b[j] = q[i + j]
  BY <1>1, <1>2, SubSeqProperties
<1>5. \A x \in Range(a) : x \in Range(q)
  BY <1>1, <1>3 DEF Range
<1>6. \A x \in Range(b) : x \in Range(q)
  BY <1>1, <1>4 DEF Range
<1>7. Prefix(q, i - 1) = a /\ Suffix(q, i) = b
  <2>1. ~(i - 1 > Len(q))
    BY <1>1
  <2> QED BY ZenonT(40), <2>1 DEF Prefix, Suffix
<1>8. \A x \in Range(a \o b) : x \in Range(a) \/ x \in Range(b)
  BY Zenon, <1>3, <1>4, RangeConcat
<1>9. a \o b \in Seq(S)
  BY ZenonT(40), <1>3, <1>4, ConcatProperties
<1> HIDE DEF a, b
<1> QED BY ZenonT(40), <1>5, <1>6, <1>7, <1>8, <1>9

\* Every message of nt is one of net, and on the same link.
Shrunk(nt) ==
    /\ nt \in Links
    /\ \A a, b \in Server : \A m \in Range(nt[a][b]) : m \in Range(net[a][b])

\* The messages of nt that are not in net are of M, and sent by s.
Added(nt, s, M) ==
    /\ nt \in Links
    /\ \A a, b \in Server : \A m \in Range(nt[a][b]) :
          m \in Range(net[a][b]) \/ (a = s /\ m \in M)

\* Delivering an RPC only takes it off its link.
LEMMA WithoutShrinks ==
  ASSUME net \in Links, NEW src \in Server, NEW s \in Server, NEW i \in DOMAIN net[src][s]
  PROVE  Shrunk(Without(src, s, i))
<1>1. net[src][s] \in Seq(Message)
  BY ZenonT(40) DEF Links
<1>2. /\ Prefix(net[src][s], i - 1) \o Suffix(net[src][s], i) \in Seq(Message)
      /\ \A x \in Range(Prefix(net[src][s], i - 1) \o Suffix(net[src][s], i)) : x \in Range(net[src][s])
  BY ZenonT(40), <1>1, CutOutProps
<1> DEFINE cut == Prefix(net[src][s], i - 1) \o Suffix(net[src][s], i)
<1>3. Without(src, s, i) = [net EXCEPT ![src] = [net[src] EXCEPT ![s] = cut]]
  BY ZenonT(40) DEF Without, Links
<1> HIDE DEF cut
<1>4. cut \in Seq(Message) /\ \A x \in Range(cut) : x \in Range(net[src][s])
  BY ZenonT(40), <1>2 DEF cut
<1> QED BY SMTT(30), <1>3, <1>4 DEF Shrunk, Links

\* Leaving the network alone takes nothing and adds nothing.
LEMMA NetShrinks ==
  ASSUME net \in Links
  PROVE  Shrunk(net)
  BY ZenonT(40) DEF Shrunk

\* Calls made by s put their requests on links from s only.
LEMMA SendFromAdds ==
  ASSUME NEW nt, Shrunk(nt),
         NEW s \in Server, NEW out \in [Server -> Seq(Message)],
         NEW M, \A b \in Server : \A m \in Range(out[b]) : m \in M
  PROVE  Added(SendFrom(nt, s, out), s, M)
<1> DEFINE sent == SendFrom(nt, s, out)
<1>1. nt \in Links
  BY ZenonT(40) DEF Shrunk
<1>2. \A d \in Server :
         /\ nt[s][d] \o out[d] \in Seq(Message)
         /\ \A x \in Range(nt[s][d] \o out[d]) : x \in Range(nt[s][d]) \/ x \in Range(out[d])
  <2> TAKE d \in Server
  <2>1. nt[s][d] \in Seq(Message) /\ out[d] \in Seq(Message)
    BY ZenonT(40), <1>1 DEF Links
  <2> QED BY ZenonT(40), <2>1, ConcatProperties, RangeConcat
<1>3. sent = [nt EXCEPT ![s] = [d \in Server |-> nt[s][d] \o out[d]]]
  BY ZenonT(40), <1>1 DEF SendFrom, Links
<1>4. sent \in Links
  BY <1>1, <1>2, <1>3 DEF Links
<1> HIDE DEF sent
<1>5. ASSUME NEW a \in Server, NEW b \in Server, NEW m \in Range(sent[a][b])
      PROVE  m \in Range(net[a][b]) \/ (a = s /\ m \in M)
  <2>1. CASE a = s
    <3>1. sent[a][b] = nt[s][b] \o out[b]
      BY ZenonT(40), <1>1, <1>3, <2>1 DEF Links
    <3>2. m \in Range(nt[s][b]) \/ m \in Range(out[b])
      BY ZenonT(40), <1>2, <1>5, <3>1
    <3> QED BY Zenon, <2>1, <3>2 DEF Shrunk
  <2>2. CASE a # s
    <3>1. sent[a][b] = nt[a][b]
      BY ZenonT(40), <1>1, <1>3, <2>2 DEF Links
    <3> QED BY Zenon, <1>5, <3>1 DEF Shrunk
  <2> QED BY ZenonT(40), <2>1, <2>2
<1>6. Added(sent, s, M)
  BY ZenonT(40), <1>4, <1>5 DEF Added
<1> QED BY ZenonT(40), <1>6 DEF sent

\* A network that only lost RPCs has gained none.
LEMMA ShrunkAdds ==
  ASSUME NEW nt, Shrunk(nt), NEW s, NEW M
  PROVE  Added(nt, s, M)
  BY ZenonT(40) DEF Shrunk, Added

\* A network that stays as it is has no new RPC.
LEMMA NetAdds ==
  ASSUME TypeOK, NEW s \in Server
  PROVE  Added(net, s, {})
<1>1. net \in Links
  BY ZenonT(40) DEF TypeOK, Links
<1> QED BY ZenonT(40), <1>1, NetShrinks, ShrunkAdds

\* Dropping what a crashed peer sent to itself adds no RPC.
LEMMA ClearAdds ==
  ASSUME NEW nt, NEW s \in Server, NEW M, Added(nt, s, M)
  PROVE  Added([nt EXCEPT ![s][s] = <<>>], s, M)
<1> DEFINE cleared == [nt EXCEPT ![s][s] = <<>>]
<1>1. <<>> \in Seq(Message) /\ \A x : x \notin Range(<<>>)
  BY DEF Range
<1>2. nt \in Links
  BY ZenonT(40) DEF Added
<1>3. cleared = [nt EXCEPT ![s] = [nt[s] EXCEPT ![s] = <<>>]]
  BY ZenonT(40), <1>2 DEF Links
<1>4. cleared \in Links
  BY ZenonT(40), <1>1, <1>2, <1>3 DEF Links
<1>5. \A a, b \in Server : cleared[a][b] = nt[a][b] \/ cleared[a][b] = <<>>
  BY ZenonT(40), <1>2, <1>3 DEF Links
<1> HIDE DEF cleared
<1>6. Added(cleared, s, M)
  BY ZenonT(40), <1>1, <1>4, <1>5 DEF Added
<1> QED BY ZenonT(40), <1>6 DEF cleared

\* One request, to one peer or to a set of peers, is all that is sent.
LEMMA OneSent ==
  ASSUME NEW m \in Message, NEW dst \in Server, NEW D
  PROVE  /\ ToOnly(dst, <<m>>) \in [Server -> Seq(Message)]
         /\ \A b \in Server : \A x \in Range(ToOnly(dst, <<m>>)[b]) : x \in {m}
         /\ ToAll(D, m) \in [Server -> Seq(Message)]
         /\ \A b \in Server : \A x \in Range(ToAll(D, m)[b]) : x \in {m}
<1>1. <<m>> \in Seq(Message) /\ <<>> \in Seq(Message)
  OBVIOUS
<1>2. \A x \in Range(<<m>>) : x = m
  BY DEF Range
<1>3. \A x : x \notin Range(<<>>)
  BY DEF Range
<1> QED BY ZenonT(40), <1>1, <1>2, <1>3 DEF ToOnly, ToAll

-----------------------------------------------------------------------------
(* Types *)

\* prefix() and suffix() of a log are logs.
LEMMA CutTypes ==
  ASSUME NEW log \in Log, NEW idx \in Nat
  PROVE  /\ Prefix(log, idx) \in Log
         /\ Suffix(log, idx) \in Log
         /\ Len(log) \in Nat
<1> USE DEF Log
<1>1. Len(log) \in Nat /\ \A j \in 1 .. Len(log) : log[j] \in Command
  OBVIOUS
<1>2. SubSeq(log, idx + 1, Len(log)) \in Seq(Command)
  <2>1. \A j \in idx + 1 .. Len(log) : log[j] \in Command
    BY <1>1
  <2> QED BY <1>1, <2>1, SubSeqProperties
<1>3. ASSUME NEW n \in Nat, n <= Len(log)
      PROVE  SubSeq(log, 1, n) \in Seq(Command)
  <2>1. \A j \in 1 .. n : log[j] \in Command
    BY <1>1, <1>3
  <2> QED BY <1>1, <2>1, SubSeqProperties
<1> QED BY <1>1, <1>2, <1>3 DEF Prefix, Suffix

\* addToApplyChan puts indices with commands on the channel.
LEMMA AppliedTypes ==
  ASSUME NEW log \in Log, NEW from, NEW to
  PROVE  Applied(log, from, to) \subseteq Nat \X Command
  BY DEF Log, Applied

\* Every request the code builds has the fields of its type.
LEMMA MessageTypes ==
  ASSUME NEW n \in Ballot, NEW k \in Nat
  PROVE  /\ \A o \in LogState : PrepareMsg(n, o) \in Message
         /\ \A log \in Log : AcceptSyncMsg(n, log, k) \in Message
         /\ \A c \in Command : AcceptMsg(n, k, c) \in Message
         /\ AcceptedMsg(n, k) \in Message
         /\ DecideMsg(n, k) \in Message
         /\ PrepareReqMsg \in Message
         /\ ReconnectedMsg \in Message
<1>1. ASSUME NEW o \in LogState PROVE PrepareMsg(n, o) \in Message
  <2>1. Len(o.Log) \in Nat /\ o.AcceptedRnd \in Ballot /\ o.DecidedIdx \in Nat
    BY ZenonT(40), CutTypes DEF LogState
  <2> QED BY ZenonT(40), <2>1 DEF PrepareMsg, Message
<1>2. ASSUME NEW log \in Log PROVE AcceptSyncMsg(n, log, k) \in Message
  BY ZenonT(40), CutTypes DEF AcceptSyncMsg, Message
<1>3. \A c \in Command : AcceptMsg(n, k, c) \in Message
  BY ZenonT(40) DEF AcceptMsg, Message
<1>4. AcceptedMsg(n, k) \in Message
  BY ZenonT(40) DEF AcceptedMsg, Message
<1>5. DecideMsg(n, k) \in Message
  BY ZenonT(40) DEF DecideMsg, Message
<1>6. PrepareReqMsg \in Message /\ ReconnectedMsg \in Message
  BY ZenonT(40) DEF PrepareReqMsg, ReconnectedMsg, Message
<1> QED BY ZenonT(40), <1>1, <1>2, <1>3, <1>4, <1>5, <1>6

\* The fields a handler reads from a request have their types.
LEMMA MessageFields ==
  ASSUME NEW m \in Message
  PROVE  /\ m.type = "Prepare" => /\ m.N \in Ballot /\ m.AccRnd \in Ballot
                                  /\ m.LogIdx \in Nat /\ m.DecIdx \in Nat
         /\ m.type = "Promise" => /\ m.N \in Ballot /\ m.AccRnd \in Ballot
                                  /\ m.LogIdx \in Nat /\ m.DecIdx \in Nat
                                  /\ m.Sfx \in Log
         /\ m.type = "AcceptSync" => m.N \in Ballot /\ m.Sfx \in Log /\ m.SyncIdx \in Nat
         /\ m.type = "Accept" => m.N \in Ballot /\ m.Idx \in Nat /\ m.C \in Command
         /\ m.type = "Accepted" => m.N \in Ballot /\ m.LogIdx \in Nat
         /\ m.type = "Decide" => m.N \in Ballot /\ m.DecIdx \in Nat
  BY ZenonT(40) DEF Message

Promises == UNION {[D -> Promise] : D \in SUBSET Server}

\* The two ways to say that op.promises maps peers to promises agree.
LEMMA PromisesOKType ==
  /\ PromisesOK <=> promises \in [Server -> Promises]
  /\ PromisesOK' <=> promises' \in [Server -> Promises]
<1>1. \A p : p \in Promises <=> \E D \in SUBSET Server : p \in [D -> Promise]
  BY ZenonT(40) DEF Promises
<1>2. \A f : f \in [Server -> Promises] <=>
              f = [s \in Server |-> f[s]] /\ \A s \in Server : f[s] \in Promises
  BY ZenonT(40)
<1> QED BY Zenon, <1>1, <1>2 DEF PromisesOK

\* op.promises has peers as keys and promises as values.
LEMMA PromisesType ==
  ASSUME NEW ps
  PROVE  /\ ps \in Promises => DOMAIN ps \subseteq Server /\ ps \in [DOMAIN ps -> Promise]
         /\ \A D \in SUBSET Server : ps \in [D -> Promise] => ps \in Promises
  BY ZenonT(40) DEF Promises

\* An empty op.promises is well typed.
LEMMA NoPromises == <<>> \in Promises /\ DOMAIN <<>> = {}
<1>1. <<>> \in [{} -> Promise]
  OBVIOUS
<1> QED BY ZenonT(40), <1>1 DEF Promises

\* PromiseHandler adds the sender to the keys of op.promises, and no other.
LEMMA WithPromiseTypes ==
  ASSUME TypeOK, NEW s \in Server, NEW f \in Server,
         NEW m \in Message, m.type = "Promise"
  PROVE  /\ DOMAIN WithPromise(s, f, m) = DOMAIN promises[s] \cup {f}
         /\ WithPromise(s, f, m) \in [DOMAIN WithPromise(s, f, m) -> Promise]
         /\ DOMAIN WithPromise(s, f, m) \subseteq Server
         /\ WithPromise(s, f, m) \in Promises
<1> DEFINE p == [accRnd |-> m.AccRnd, logIdx |-> m.LogIdx, decIdx |-> m.DecIdx, log |-> m.Sfx]
<1>1. p \in Promise
  BY ZenonT(40), MessageFields DEF Promise
<1>2. WithPromise(s, f, m) =
        [g \in DOMAIN promises[s] \cup {f} |-> IF g = f THEN p ELSE promises[s][g]]
  BY ZenonT(40) DEF WithPromise
<1>3. /\ DOMAIN promises[s] \subseteq Server
      /\ promises[s] \in [DOMAIN promises[s] -> Promise]
  BY Zenon, PromisesType, PromisesOKType DEF TypeOK
<1> HIDE DEF p
<1>4. WithPromise(s, f, m) \in [DOMAIN promises[s] \cup {f} -> Promise]
  BY ZenonT(40), <1>1, <1>2, <1>3
<1> QED BY ZenonT(40), <1>3, <1>4, PromisesType

\* The answer of PrepareHandler is a well-typed Promise.
LEMMA PromiseMsgType ==
  ASSUME NEW o \in LogState, NEW m \in Message, m.type = "Prepare"
  PROVE  PromiseMsg(o, m) \in Message
<1> DEFINE sfx == IF Less(m.AccRnd, o.AcceptedRnd) THEN Suffix(o.Log, m.DecIdx)
                  ELSE IF m.AccRnd = o.AcceptedRnd THEN Suffix(o.Log, m.LogIdx)
                  ELSE <<>>
<1>1. /\ o.Log \in Log /\ o.AcceptedRnd \in Ballot /\ o.DecidedIdx \in Nat
      /\ m.N \in Ballot /\ m.DecIdx \in Nat /\ m.LogIdx \in Nat
  BY ZenonT(40), MessageFields DEF LogState
<1>2. Len(o.Log) \in Nat /\ Suffix(o.Log, m.DecIdx) \in Log /\ Suffix(o.Log, m.LogIdx) \in Log
  BY Zenon, <1>1, CutTypes
<1>3. sfx \in Log
  <2>1. <<>> \in Log
    BY DEF Log
  <2> QED BY ZenonT(40), <1>2, <2>1
<1>4. PromiseMsg(o, m) = [type |-> "Promise", N |-> m.N, AccRnd |-> o.AcceptedRnd,
                          LogIdx |-> Len(o.Log), DecIdx |-> o.DecidedIdx, Sfx |-> sfx]
  BY ZenonT(40) DEF PromiseMsg
<1> HIDE DEF sfx
<1> QED BY <1>1, <1>2, <1>3, <1>4 DEF Message

\* The message a handler takes, and the network without it.
LEMMA Taken ==
  ASSUME TypeOK, NEW src \in Server, NEW s \in Server, NEW i \in Deliverable(src, s)
  PROVE  /\ net \in Links /\ Shrunk(net)
         /\ net[src][s][i] \in Message
         /\ net[src][s][i] \in Range(net[src][s])
         /\ Shrunk(Without(src, s, i))
<1>1. net \in Links
  BY ZenonT(40) DEF TypeOK, Links
<1>2. i \in DOMAIN net[src][s] /\ net[src][s] \in Seq(Message)
  BY ZenonT(40), <1>1 DEF Deliverable, Links
<1> QED BY <1>1, <1>2, NetShrinks, WithoutShrinks DEF Range

Kind(t, n) == {m \in Message : m.type = t /\ m.N = n}

\* A single request, to one peer or several, is the only kind of RPC added.
LEMMA OneAdds ==
  ASSUME NEW nt, Shrunk(nt), NEW s \in Server, NEW M, NEW m \in M, m \in Message,
         NEW dst \in Server, NEW D
  PROVE  /\ Added(SendFrom(nt, s, ToOnly(dst, <<m>>)), s, M)
         /\ Added(SendFrom(nt, s, ToAll(D, m)), s, M)
<1>1. /\ ToOnly(dst, <<m>>) \in [Server -> Seq(Message)]
      /\ \A b \in Server : \A x \in Range(ToOnly(dst, <<m>>)[b]) : x \in {m}
      /\ ToAll(D, m) \in [Server -> Seq(Message)]
      /\ \A b \in Server : \A x \in Range(ToAll(D, m)[b]) : x \in {m}
  BY Zenon, OneSent
<1>2. /\ \A b \in Server : \A x \in Range(ToOnly(dst, <<m>>)[b]) : x \in M
      /\ \A b \in Server : \A x \in Range(ToAll(D, m)[b]) : x \in M
  BY Zenon, <1>1
<1> QED BY Zenon, <1>1, <1>2, SendFromAdds

\* triggerLeader sends Prepares of the new round and nothing else.
LEMMA BecomeLeaderSends ==
  ASSUME TypeOK, NEW s \in Server, NEW n \in Elected
  PROVE  Added(PrepareAll(s, n), s, Kind("Prepare", n))
<1>1. n \in Ballot /\ os[s] \in LogState /\ net \in Links
  BY ZenonT(40), BoundsAssumption DEF TypeOK, Links
<1>2. PrepareMsg(n, os[s]) \in Message
  BY ZenonT(40), <1>1, MessageTypes
<1>3. PrepareMsg(n, os[s]) \in Kind("Prepare", n)
  BY ZenonT(40), <1>2 DEF Kind, PrepareMsg
<1> QED BY Zenon, <1>1, <1>2, <1>3, NetShrinks, OneAdds DEF PrepareAll

\* Proposal sends Accepts of the leader's round and nothing else.
LEMMA ProposeAppendSends ==
  ASSUME TypeOK, NEW s \in Server, NEW c \in Command, ProposeAppend(s, c)
  PROVE  Added(net', s, Kind("Accept", currentRnd[s]))
<1> DEFINE m == AcceptMsg(currentRnd[s], Len(os[s].Log) + 1, c)
<1>1. currentRnd[s] \in Ballot /\ os[s].Log \in Log /\ net \in Links
  BY ZenonT(40) DEF TypeOK, LogState, Links
<1>2. Len(os[s].Log) + 1 \in Nat
  BY <1>1, CutTypes
<1>3. m \in Message
  BY ZenonT(40), <1>1, <1>2, MessageTypes
<1>4. m \in Kind("Accept", currentRnd[s])
  BY ZenonT(40), <1>3 DEF Kind, AcceptMsg
<1>5. net' = SendFrom(net, s, ToAll(DOMAIN promises[s] \ {s}, m))
  BY ZenonT(40) DEF ProposeAppend
<1> HIDE DEF m
<1> QED BY Zenon, <1>1, <1>3, <1>4, <1>5, NetShrinks, OneAdds

\* PrepareHandler sends one Promise, of the round it was asked for.
LEMMA PrepareHandlerSends ==
  ASSUME TypeOK, NEW src \in Server, NEW s \in Server, NEW i \in Deliverable(src, s),
         PrepareHandler(src, s, i)
  PROVE  Added(net', s, Kind("Promise", net[src][s][i].N))
<1> DEFINE m == net[src][s][i]
<1>1. m \in Message /\ Shrunk(Without(src, s, i)) /\ m.type = "Prepare" /\ os[s] \in LogState
  BY Zenon, Taken DEF PrepareHandler, PrepareGuard, TypeOK
<1>2. PromiseMsg(os[s], m) \in Message
  BY ZenonT(40), <1>1, PromiseMsgType
<1>3. PromiseMsg(os[s], m) \in Kind("Promise", m.N)
  BY ZenonT(40), <1>2 DEF Kind, PromiseMsg
<1>4. net' = SendFrom(Without(src, s, i), s, ToOnly(src, <<PromiseMsg(os[s], m)>>))
  BY ZenonT(40) DEF PrepareHandler
<1> HIDE DEF m
<1> QED BY ZenonT(40), <1>1, <1>2, <1>3, <1>4, OneAdds DEF m

\* The log PromiseHandler starts a round with is a log.
LEMMA SyncedLogType ==
  ASSUME TypeOK, NEW s \in Server, NEW max \in Promise
  PROVE  SyncedLog(s, max) \in Log
<1>1. os[s].Log \in Log /\ os[s].DecidedIdx \in Nat /\ buffer[s] \in Log /\ max.log \in Log
  BY ZenonT(40) DEF TypeOK, LogState, Promise
<1>2. Prefix(os[s].Log, os[s].DecidedIdx) \in Log
  BY Zenon, <1>1, CutTypes
<1>3. \A p, q \in Log : p \o q \in Log
  BY ZenonT(40), ConcatProperties DEF Log
<1> QED BY ZenonT(40), <1>1, <1>2, <1>3 DEF SyncedLog

\* With a majority, PromiseHandler sends AcceptSyncs of the promised round.
LEMMA AcceptSyncAllSends ==
  ASSUME TypeOK, NEW src \in Server, NEW s \in Server, NEW i \in Deliverable(src, s),
         PromiseMajorityGuard(src, s, i),
         NEW max \in MaxPromises(WithPromise(s, src, net[src][s][i]))
  PROVE  /\ max \in Promise
         /\ Added(SendFrom(Without(src, s, i), s,
                           AcceptSyncAll(s, WithPromise(s, src, net[src][s][i]), max,
                                         net[src][s][i].N)),
                  s, Kind("AcceptSync", net[src][s][i].N))
<1> DEFINE m == net[src][s][i]
           ps == WithPromise(s, src, m)
           out == AcceptSyncAll(s, ps, max, m.N)
           M == Kind("AcceptSync", m.N)
<1>1. m \in Message /\ Shrunk(Without(src, s, i)) /\ m.type = "Promise"
  BY ZenonT(40), Taken DEF PromiseMajorityGuard, PromiseGuard
<1>2. /\ ps \in [DOMAIN ps -> Promise]
      /\ DOMAIN ps \subseteq Server
      /\ m.N \in Ballot
  BY Zenon, <1>1, WithPromiseTypes, MessageFields
<1>3. max \in Range(ps)
  BY ZenonT(40) DEF MaxPromises
<1> HIDE DEF m, ps
<1>4. max \in Promise
  BY ZenonT(40), <1>2, <1>3 DEF Range
<1>5. SyncedLog(s, max) \in Log
  BY ZenonT(40), <1>4, SyncedLogType
<1>6. \A d \in DOMAIN ps : SyncIdx(ps[d], max) \in Nat
  BY ZenonT(40), <1>2 DEF SyncIdx, Promise
<1>7. ASSUME NEW d \in DOMAIN ps
      PROVE  /\ AcceptSyncMsg(m.N, SyncedLog(s, max), SyncIdx(ps[d], max)) \in Message
             /\ AcceptSyncMsg(m.N, SyncedLog(s, max), SyncIdx(ps[d], max)) \in M
  <2>1. AcceptSyncMsg(m.N, SyncedLog(s, max), SyncIdx(ps[d], max)) \in Message
    BY ZenonT(40), <1>2, <1>5, <1>6, MessageTypes
  <2> QED BY ZenonT(40), <2>1 DEF Kind, AcceptSyncMsg
<1>8. \A d \in Server :
        \/ out[d] = <<>>
        \/ d \in DOMAIN ps /\ out[d] = <<AcceptSyncMsg(m.N, SyncedLog(s, max), SyncIdx(ps[d], max))>>
  BY ZenonT(40) DEF AcceptSyncAll
<1>9. out \in [Server -> Seq(Message)]
  <2>1. <<>> \in Seq(Message) /\ \A x \in Message : <<x>> \in Seq(Message)
    OBVIOUS
  <2>2. \A d \in Server : out[d] \in Seq(Message)
    BY Zenon, <1>7, <1>8, <2>1
  <2>3. out = [d \in Server |-> out[d]]
    BY ZenonT(40) DEF AcceptSyncAll
  <2> HIDE DEF out
  <2> QED BY ZenonT(40), <2>2, <2>3
<1>10. \A b \in Server : \A x \in Range(out[b]) : x \in M
  <2>1. \A x : x \notin Range(<<>>)
    BY DEF Range
  <2>2. \A x : \A y \in Range(<<x>>) : y = x
    BY DEF Range
  <2> HIDE DEF out, M
  <2> QED BY ZenonT(40), <1>7, <1>8, <2>1, <2>2
<1> HIDE DEF out, M
<1>11. Added(SendFrom(Without(src, s, i), s, out), s, M)
  BY ZenonT(40), <1>1, <1>9, <1>10, SendFromAdds
<1> QED BY ZenonT(40), <1>4, <1>11 DEF out, M, m, ps

\* For a late promise PromiseHandler sends an AcceptSync, and a Decide, of its round.
LEMMA PromiseLateSends ==
  ASSUME TypeOK, NEW src \in Server, NEW s \in Server, NEW i \in Deliverable(src, s),
         PromiseLate(src, s, i)
  PROVE  Added(net', s, Kind("AcceptSync", net[src][s][i].N)
                           \cup Kind("Decide", net[src][s][i].N))
<1> DEFINE m == net[src][s][i]
           k == IF m.AccRnd = maxProm[s].accRnd THEN maxProm[s].logIdx ELSE m.DecIdx
           sync == AcceptSyncMsg(m.N, os[s].Log, k)
           dec == DecideMsg(m.N, os[s].DecidedIdx)
           M == Kind("AcceptSync", m.N) \cup Kind("Decide", m.N)
           decide == IF os[s].DecidedIdx > m.DecIdx THEN <<dec>> ELSE <<>>
           out == ToOnly(src, <<sync>> \o decide)
<1>1. m \in Message /\ Shrunk(Without(src, s, i)) /\ m.type = "Promise"
  BY ZenonT(40), Taken DEF PromiseLate, PromiseGuard
<1>2. m.N \in Ballot /\ m.DecIdx \in Nat /\ os[s].Log \in Log /\ os[s].DecidedIdx \in Nat
  BY ZenonT(40), <1>1, MessageFields DEF TypeOK, LogState
<1>3. k \in Nat
  BY ZenonT(40), <1>2 DEF TypeOK
<1>4. sync \in Message /\ dec \in Message
  BY ZenonT(40), <1>2, <1>3, MessageTypes
<1>5. sync \in M /\ dec \in M
  BY ZenonT(40), <1>4 DEF Kind, AcceptSyncMsg, DecideMsg
<1>6. net' = SendFrom(Without(src, s, i), s, out)
  BY ZenonT(40) DEF PromiseLate
<1> HIDE DEF m, k, sync, dec, M
<1>7. /\ <<sync>> \in Seq(Message) /\ decide \in Seq(Message)
      /\ \A x \in Range(<<sync>>) : x \in M
      /\ \A x \in Range(decide) : x \in M
  BY <1>4, <1>5 DEF Range
<1> HIDE DEF decide
<1>8. /\ <<sync>> \o decide \in Seq(Message)
      /\ \A x \in Range(<<sync>> \o decide) : x \in M
  BY Zenon, <1>7, ConcatProperties, RangeConcat
<1>9. /\ out \in [Server -> Seq(Message)]
      /\ \A b \in Server : \A x \in Range(out[b]) : x \in M
  BY <1>8 DEF ToOnly, Range
<1> HIDE DEF out
<1>10. Added(net', s, M)
  BY ZenonT(40), <1>1, <1>6, <1>9, SendFromAdds
<1> QED BY ZenonT(40), <1>10 DEF M, m

\* Accepted and Decide requests are well typed and of the round given.
LEMMA AcceptedTypes ==
  ASSUME NEW n \in Ballot, NEW k \in Nat
  PROVE  /\ AcceptedMsg(n, k) \in Message /\ AcceptedMsg(n, k) \in Kind("Accepted", n)
         /\ DecideMsg(n, k) \in Message /\ DecideMsg(n, k) \in Kind("Decide", n)
<1>1. AcceptedMsg(n, k) \in Message /\ DecideMsg(n, k) \in Message
  BY ZenonT(40), MessageTypes
<1> QED BY ZenonT(40), <1>1 DEF Kind, AcceptedMsg, DecideMsg

\* AcceptSyncHandler builds a log and acknowledges it in the round of the request.
LEMMA AcceptSyncHandlerSends ==
  ASSUME TypeOK, NEW src \in Server, NEW s \in Server, NEW i \in Deliverable(src, s),
         AcceptSyncHandler(src, s, i)
  PROVE  /\ Prefix(os[s].Log, net[src][s][i].SyncIdx) \o net[src][s][i].Sfx \in Log
         /\ Added(net', s, Kind("Accepted", net[src][s][i].N))
<1> DEFINE m == net[src][s][i]
           log == Prefix(os[s].Log, m.SyncIdx) \o m.Sfx
<1>1. m \in Message /\ Shrunk(Without(src, s, i)) /\ m.type = "AcceptSync"
  BY ZenonT(40), Taken DEF AcceptSyncHandler, AcceptSyncGuard
<1>2. m.N \in Ballot /\ m.Sfx \in Log /\ m.SyncIdx \in Nat /\ os[s].Log \in Log
  BY ZenonT(40), <1>1, MessageFields DEF TypeOK, LogState
<1>3. Prefix(os[s].Log, m.SyncIdx) \in Log
  BY Zenon, <1>2, CutTypes
<1>4. log \in Log
  BY ZenonT(40), <1>2, <1>3, ConcatProperties DEF Log
<1>5. net' = SendFrom(Without(src, s, i), s, ToOnly(src, <<AcceptedMsg(m.N, Len(log))>>))
  BY Zenon DEF AcceptSyncHandler
<1> HIDE DEF m, log
<1>6. Len(log) \in Nat
  BY ZenonT(40), <1>4, CutTypes
<1>7. Added(net', s, Kind("Accepted", m.N))
  BY ZenonT(40), <1>1, <1>2, <1>5, <1>6, AcceptedTypes, OneAdds
<1> QED BY ZenonT(40), <1>4, <1>7 DEF log, m

\* AcceptHandler acknowledges in the round of the request.
LEMMA AcceptHandlerSends ==
  ASSUME TypeOK, NEW src \in Server, NEW s \in Server, NEW i \in Deliverable(src, s),
         AcceptHandler(src, s, i)
  PROVE  Added(net', s, Kind("Accepted", net[src][s][i].N))
<1> DEFINE m == net[src][s][i]
<1>1. m \in Message /\ Shrunk(Without(src, s, i)) /\ m.type = "Accept"
  BY ZenonT(40), Taken DEF AcceptHandler, AcceptGuard
<1>2. m.N \in Ballot /\ os[s].Log \in Log
  BY ZenonT(40), <1>1, MessageFields DEF TypeOK, LogState
<1>3. Len(os[s].Log) + 1 \in Nat
  BY <1>2, CutTypes
<1>4. net' = SendFrom(Without(src, s, i), s,
                      ToOnly(src, <<AcceptedMsg(m.N, Len(os[s].Log) + 1)>>))
  BY ZenonT(40) DEF AcceptHandler
<1> HIDE DEF m
<1>5. Added(net', s, Kind("Accepted", m.N))
  BY ZenonT(40), <1>1, <1>2, <1>3, <1>4, AcceptedTypes, OneAdds
<1> QED BY ZenonT(40), <1>5 DEF m

\* AcceptedHandler sends Decides of the round the leader leads.
LEMMA AcceptedDecidesSends ==
  ASSUME TypeOK, NEW src \in Server, NEW s \in Server, NEW i \in Deliverable(src, s),
         AcceptedDecides(src, s, i)
  PROVE  Added(net', s, Kind("Decide", currentRnd[s]))
<1> DEFINE m == net[src][s][i]
<1>1. m \in Message /\ Shrunk(Without(src, s, i)) /\ m.type = "Accepted"
  BY ZenonT(40), Taken DEF AcceptedDecides, AcceptedGuard
<1>2. currentRnd[s] \in Ballot /\ m.LogIdx \in Nat
  BY ZenonT(40), <1>1, MessageFields DEF TypeOK
<1>3. net' = SendFrom(Without(src, s, i), s,
                      ToAll(DOMAIN promises[s], DecideMsg(currentRnd[s], m.LogIdx)))
  BY ZenonT(40) DEF AcceptedDecides
<1> HIDE DEF m
<1> QED BY Zenon, <1>1, <1>2, <1>3, AcceptedTypes, OneAdds

\* PrepareReqHandler sends a Prepare of the round the leader leads.
LEMMA PrepareReqHandlerSends ==
  ASSUME TypeOK, NEW src \in Server, NEW s \in Server, NEW i \in Deliverable(src, s),
         PrepareReqHandler(src, s, i)
  PROVE  Added(net', s, Kind("Prepare", currentRnd[s]))
<1>1. Shrunk(Without(src, s, i)) /\ currentRnd[s] \in Ballot /\ os[s] \in LogState
  BY ZenonT(40), Taken DEF TypeOK
<1>2. PrepareMsg(currentRnd[s], os[s]) \in Message
  BY ZenonT(40), <1>1, MessageTypes
<1>3. PrepareMsg(currentRnd[s], os[s]) \in Kind("Prepare", currentRnd[s])
  BY ZenonT(40), <1>2 DEF Kind, PrepareMsg
<1>4. net' = SendFrom(Without(src, s, i), s,
                      ToOnly(src, <<PrepareMsg(currentRnd[s], os[s])>>))
  BY ZenonT(40) DEF PrepareReqHandler
<1> QED BY ZenonT(40), <1>1, <1>2, <1>3, <1>4, OneAdds

\* The timer loop and ReconnectedHandler send requests without a round.
LEMMA SignalSends ==
  ASSUME TypeOK, NEW s \in Server
  PROVE  /\ AskForPrepare(s) => Added(net', s, {PrepareReqMsg})
         /\ \A p \in Server : LinkReconnected(s, p) => Added(net', s, {ReconnectedMsg})
         /\ \A src \in Server : \A i \in Deliverable(src, s) :
               ReconnectedHandler(src, s, i) => Added(net', s, {PrepareReqMsg})
<1>1. PrepareReqMsg \in Message /\ ReconnectedMsg \in Message
  BY ZenonT(40) DEF PrepareReqMsg, ReconnectedMsg, Message
<1>2. net \in Links /\ Shrunk(net)
  BY ZenonT(40), NetShrinks DEF TypeOK, Links
<1>3. AskForPrepare(s) => Added(net', s, {PrepareReqMsg})
  BY Zenon, <1>1, <1>2, OneAdds DEF AskForPrepare
<1>4. \A p \in Server : LinkReconnected(s, p) => Added(net', s, {ReconnectedMsg})
  BY ZenonT(40), <1>1, <1>2, OneAdds DEF LinkReconnected
<1>5. \A src \in Server : \A i \in Deliverable(src, s) :
        ReconnectedHandler(src, s, i) => Added(net', s, {PrepareReqMsg})
  BY ZenonT(40), <1>1, Taken, OneAdds DEF ReconnectedHandler
<1> QED BY ZenonT(40), <1>3, <1>4, <1>5

\* A restart sends nothing beyond what the dying handler had sent.
LEMMA RebootAdds ==
  ASSUME NEW s \in Server, NEW d, NEW nt, NEW M, Added(nt, s, M), Reboot(s, d, nt)
  PROVE  Added(net', s, M)
  BY ZenonT(40), ClearAdds DEF Reboot

\* Make() builds a well-typed peer from an empty Persister.
LEMMA TypeInit == Init => TypeOK
<1> SUFFICES ASSUME Init PROVE TypeOK
  BY ZenonT(40)
<1>1. ZeroBallot \in Ballot /\ <<>> \in Log
  BY NumServersAssumption DEF ZeroBallot, Ballot, Server, Log
<1>2. ZeroState \in LogState /\ NoPromise \in [accRnd : Ballot, logIdx : Nat]
  BY ZenonT(40), <1>1 DEF ZeroState, NoPromise, LogState
<1>4. promises \in [Server -> Promises]
  BY ZenonT(40), NoPromises DEF Init
<1>5. net \in [Server -> [Server -> Seq(Message)]]
  <2>1. <<>> \in Seq(Message)
    OBVIOUS
  <2> QED BY ZenonT(40), <2>1 DEF Init
<1> QED BY <1>1, <1>2, <1>4, <1>5, PromisesOKType DEF Init, TypeOK, LEADER, FOLLOWER, PREPARE, NotProposed

\* Each assignment to a field of OmniPaxosState keeps its type.
LEMMA StateUpdates ==
  ASSUME NEW o \in LogState, NEW n \in Ballot, NEW k \in Nat, NEW log \in Log
  PROVE  /\ [o EXCEPT !.L = n] \in LogState
         /\ [o EXCEPT !.PromisedRnd = n] \in LogState
         /\ [o EXCEPT !.L = n, !.PromisedRnd = n] \in LogState
         /\ [o EXCEPT !.Log = log] \in LogState
         /\ [o EXCEPT !.Log = log, !.AcceptedRnd = n] \in LogState
         /\ [o EXCEPT !.AcceptedRnd = n, !.Log = log] \in LogState
         /\ [o EXCEPT !.DecidedIdx = k] \in LogState
  BY Zenon DEF LogState

\* What an action leaves of TypeOK when it changes os[s] and saves it.
SavedAs(s, o) == os' = [os EXCEPT ![s] = o] /\ persist(s)

\* A handler that changes os and calls persist() keeps memory and disk typed.
LEMMA SavedTypes ==
  ASSUME TypeOK, NEW s \in Server, NEW o \in LogState, SavedAs(s, o)
  PROVE  os' \in [Server -> LogState] /\ disk' \in [Server -> LogState]
  BY ZenonT(40) DEF TypeOK, SavedAs, persist

\* A restart from a typed saved state gives typed variables.
LEMMA RebootTypes ==
  ASSUME TypeOK, NEW s \in Server, NEW d \in LogState, NEW nt, NEW M, Added(nt, s, M),
         Reboot(s, d, nt), chosen' \subseteq Nat \X Command
  PROVE  TypeOK'
<1>1. net' \in Links
  BY ZenonT(40), RebootAdds DEF Added
<1>2. os' \in [Server -> LogState] /\ disk' \in [Server -> LogState]
  BY ZenonT(40) DEF TypeOK, Reboot
<1>3. state' \in [Server -> [role : {LEADER, FOLLOWER}, phase : {PREPARE, ACCEPT, RECOVER}]]
  BY ZenonT(40) DEF TypeOK, Reboot
<1>4. currentRnd' \in [Server -> Ballot] /\ maxProm' \in [Server -> [accRnd : Ballot, logIdx : Nat]]
  BY ZenonT(40), ZeroLeq DEF TypeOK, Reboot, NoPromise, LogState
<1>6. promises' \in [Server -> Promises]
  BY ZenonT(40), NoPromises, PromisesOKType DEF TypeOK, Reboot
<1>7. accepted' \in [Server -> [Server -> Nat]]
  BY ZenonT(40) DEF TypeOK, Reboot
<1>8. buffer' \in [Server -> Log]
  <2>1. <<>> \in Log
    BY DEF Log
  <2> QED BY ZenonT(40), <2>1 DEF TypeOK, Reboot
<1>9. proposed' \in [Command -> Int] /\ asked' \subseteq Server
      /\ crashes' \in Nat /\ reconnects' \in Nat
  BY DEF TypeOK, Reboot
<1> QED BY ZenonT(40), <1>1, <1>2, <1>3, <1>4, <1>6, <1>7, <1>8, <1>9, PromisesOKType DEF TypeOK, Links

\* Crash, and every action that ends in one.
LEMMA CrashTypes ==
  ASSUME TypeOK, NEW s \in Server
  PROVE  /\ Crash(s) => TypeOK'
         /\ \A n \in Elected : BecomeLeaderThenCrash(s, n) => TypeOK'
         /\ \A src \in Server : \A i \in Deliverable(src, s) :
               \/ PromiseMajorityThenCrash(src, s, i)
               \/ AcceptedDecidesThenCrash(src, s, i)
               \/ DecideThenCrash(src, s, i)
               => TypeOK'
<1>1. /\ disk[s] \in LogState /\ disk[s].Log \in Log /\ os[s].Log \in Log
      /\ net \in Links /\ Shrunk(net) /\ chosen \subseteq Nat \X Command
  BY ZenonT(40), NetShrinks DEF TypeOK, LogState, Links
<1>2. Replayed(disk[s]) \subseteq Nat \X Command
  BY ZenonT(40), <1>1, AppliedTypes DEF Replayed
<1>3. ASSUME Crash(s) PROVE TypeOK'
  <2>1. chosen' \subseteq Nat \X Command
    BY ZenonT(40), <1>1, <1>2, <1>3 DEF Crash
  <2>2. Added(net, s, {}) /\ Reboot(s, disk[s], net)
    BY ZenonT(40), <1>1, <1>3, ShrunkAdds DEF Crash
  <2> QED BY ZenonT(40), <1>1, <2>1, <2>2, RebootTypes
<1>4. ASSUME NEW n \in Elected, BecomeLeaderThenCrash(s, n) PROVE TypeOK'
  <2> DEFINE d == [disk[s] EXCEPT !.L = n]
  <2>1. n \in Ballot
    BY ZenonT(40), BoundsAssumption
  <2>2. d \in LogState
    BY ZenonT(40), <1>1, <2>1 DEF LogState
  <2>3. Reboot(s, d, PrepareAll(s, n)) /\ chosen' = chosen \cup Replayed(d)
    BY ZenonT(40), <1>4 DEF BecomeLeaderThenCrash
  <2> HIDE DEF d
  <2>4. chosen' \subseteq Nat \X Command
    BY ZenonT(40), <1>1, <2>2, <2>3, AppliedTypes DEF Replayed, LogState
  <2> QED BY ZenonT(40), <2>2, <2>3, <2>4, BecomeLeaderSends, RebootTypes
<1>5. ASSUME NEW src \in Server, NEW i \in Deliverable(src, s),
             PromiseMajorityThenCrash(src, s, i)
      PROVE  TypeOK'
  <2> DEFINE m == net[src][s][i]
             ps == WithPromise(s, src, m)
  <2>1. PromiseMajorityGuard(src, s, i) /\ chosen' = chosen \cup Replayed(disk[s])
    BY ZenonT(40), <1>5 DEF PromiseMajorityThenCrash
  <2>2. PICK max \in MaxPromises(ps) :
          Reboot(s, disk[s], SendFrom(Without(src, s, i), s, AcceptSyncAll(s, ps, max, m.N)))
    BY ZenonT(40), <1>5 DEF PromiseMajorityThenCrash
  <2>3. Added(SendFrom(Without(src, s, i), s, AcceptSyncAll(s, ps, max, m.N)), s,
              Kind("AcceptSync", m.N))
    BY ZenonT(40), <2>1, AcceptSyncAllSends
  <2>4. chosen' \subseteq Nat \X Command
    BY ZenonT(40), <1>1, <1>2, <2>1
  <2> HIDE DEF m, ps
  <2> QED BY ZenonT(40), <1>1, <2>2, <2>3, <2>4, RebootTypes
<1>6. ASSUME NEW src \in Server, NEW i \in Deliverable(src, s),
             \/ AcceptedDecidesThenCrash(src, s, i)
             \/ DecideThenCrash(src, s, i)
      PROVE  TypeOK'
  <2>1. Reboot(s, disk[s], Without(src, s, i))
    BY ZenonT(40), <1>6 DEF AcceptedDecidesThenCrash, DecideThenCrash
  <2>2. chosen' \subseteq Nat \X Command
    BY ZenonT(40), <1>1, <1>2, <1>6, AppliedTypes DEF AcceptedDecidesThenCrash, DecideThenCrash
  <2>3. Added(Without(src, s, i), s, {})
    BY ZenonT(40), Taken, ShrunkAdds
  <2> QED BY ZenonT(40), <1>1, <2>1, <2>2, <2>3, RebootTypes
<1> QED BY ZenonT(40), <1>3, <1>4, <1>5, <1>6

\* triggerLeader and Proposal keep the types.
LEMMA LeaderTypes ==
  ASSUME TypeOK, NEW s \in Server
  PROVE  /\ \A n \in Elected : FollowLeader(s, n) \/ BecomeLeader(s, n) => TypeOK'
         /\ \A c \in Command : ProposeBuffer(s, c) \/ ProposeAppend(s, c) => TypeOK'
<1>1. os[s] \in LogState /\ os[s].Log \in Log /\ Len(os[s].Log) \in Nat /\ os[s].DecidedIdx \in Nat
  BY Zenon, CutTypes DEF TypeOK, LogState
<1>2. ASSUME NEW n \in Elected, FollowLeader(s, n) PROVE TypeOK'
  <2>1. n \in Ballot
    BY ZenonT(40), BoundsAssumption
  <2>2. [os[s] EXCEPT !.L = n] \in LogState
    BY ZenonT(40), <1>1, <2>1 DEF LogState
  <2>3. os' \in [Server -> LogState] /\ disk' \in [Server -> LogState]
    BY Zenon, <1>2, <2>2, SavedTypes DEF FollowLeader, SavedAs
  <2>4. state' \in [Server -> [role : {LEADER, FOLLOWER}, phase : {PREPARE, ACCEPT, RECOVER}]]
    BY ZenonT(40), <1>2 DEF TypeOK, FollowLeader
  <2> QED BY ZenonT(40), <1>2, <2>3, <2>4, PromisesOKType DEF TypeOK, FollowLeader, leaderVars, envVars
<1>3. ASSUME NEW n \in Elected, BecomeLeader(s, n) PROVE TypeOK'
  <2>1. n \in Ballot
    BY ZenonT(40), BoundsAssumption
  <2>2. [os[s] EXCEPT !.L = n, !.PromisedRnd = n] \in LogState
    BY ZenonT(40), <1>1, <2>1 DEF LogState
  <2>3. os' \in [Server -> LogState] /\ disk' \in [Server -> LogState]
    BY Zenon, <1>3, <2>2, SavedTypes DEF BecomeLeader, SavedAs
  <2>4. state' \in [Server -> [role : {LEADER, FOLLOWER}, phase : {PREPARE, ACCEPT, RECOVER}]]
    BY ZenonT(40), <1>3 DEF TypeOK, BecomeLeader
  <2>5. net' \in Links
    BY ZenonT(40), <1>3, BecomeLeaderSends DEF BecomeLeader, Added
  <2>6. promises' \in [Server -> Promises]
    <3>1. OwnPromise(s) \in Promise
      BY ZenonT(40), <1>1, CutTypes DEF OwnPromise, Promise, LogState
    <3>2. [f \in {s} |-> OwnPromise(s)] \in Promises
      BY <3>1, PromisesType
    <3> QED BY ZenonT(40), <1>3, <3>2, PromisesOKType DEF TypeOK, BecomeLeader
  <2>7. maxProm' \in [Server -> [accRnd : Ballot, logIdx : Nat]]
    BY ZenonT(40), <1>3, <2>1, ZeroLeq DEF TypeOK, BecomeLeader, NoPromise
  <2>8. buffer' \in [Server -> Log]
    <3>1. <<>> \in Log
      BY DEF Log
    <3> QED BY ZenonT(40), <1>3, <3>1 DEF TypeOK, BecomeLeader
  <2> QED BY ZenonT(40), <1>3, <2>1, <2>3, <2>4, <2>5, <2>6, <2>7, <2>8, PromisesOKType
          DEF TypeOK, BecomeLeader, Links, envVars
<1>4. ASSUME NEW c \in Command, ProposeBuffer(s, c) PROVE TypeOK'
  <2>1. buffer' \in [Server -> Log]
    <3>1. Append(buffer[s], c) \in Log
      BY ZenonT(40), AppendProperties DEF TypeOK, Log
    <3> QED BY ZenonT(40), <1>4, <3>1 DEF TypeOK, ProposeBuffer
  <2>2. proposed' \in [Command -> Int]
    BY <1>1, <1>4 DEF TypeOK, ProposeBuffer
  <2> QED BY ZenonT(40), <1>4, <2>1, <2>2, PromisesOKType DEF TypeOK, ProposeBuffer, envVars
<1>5. ASSUME NEW c \in Command, ProposeAppend(s, c) PROVE TypeOK'
  <2>1. Append(os[s].Log, c) \in Log
    BY ZenonT(40), <1>1, AppendProperties DEF Log
  <2>2. [os[s] EXCEPT !.Log = Append(os[s].Log, c)] \in LogState
    BY Zenon, <1>1, <2>1 DEF LogState
  <2>3. os' \in [Server -> LogState] /\ disk' \in [Server -> LogState]
    BY ZenonT(40), <1>5, <2>2, SavedTypes DEF ProposeAppend, SavedAs
  <2>4. net' \in Links
    BY ZenonT(40), <1>5, ProposeAppendSends DEF Added
  <2>5. accepted' \in [Server -> [Server -> Nat]]
    BY <1>1, <1>5 DEF TypeOK, ProposeAppend
  <2>6. proposed' \in [Command -> Int]
    BY <1>1, <1>5 DEF TypeOK, ProposeAppend
  <2> QED BY Zenon, <1>5, <2>3, <2>4, <2>5, <2>6, PromisesOKType DEF TypeOK, ProposeAppend, Links, envVars
<1> QED BY ZenonT(40), <1>2, <1>3, <1>4, <1>5

\* Every RPC handler, and every crash inside one, keeps the types.
LEMMA HandlerTypes ==
  ASSUME TypeOK, NEW src \in Server, NEW s \in Server, NEW i \in Deliverable(src, s),
         Handle(src, s, i)
  PROVE  TypeOK'
<1> DEFINE m == net[src][s][i]
<1>1. os[s] \in LogState /\ os[s].Log \in Log /\ Len(os[s].Log) \in Nat
  BY ZenonT(40), CutTypes DEF TypeOK, LogState
<1>2. m \in Message /\ Without(src, s, i) \in Links
  BY ZenonT(40), Taken DEF Shrunk
<1>3. ASSUME PrepareHandler(src, s, i) PROVE TypeOK'
  <2>1. m.N \in Ballot
    BY ZenonT(40), <1>2, <1>3, MessageFields DEF PrepareHandler, PrepareGuard
  <2>2. [os[s] EXCEPT !.PromisedRnd = m.N] \in LogState
    BY ZenonT(40), <1>1, <2>1 DEF LogState
  <2>3. os' \in [Server -> LogState] /\ disk' \in [Server -> LogState]
    BY ZenonT(40), <1>3, <2>2, SavedTypes DEF PrepareHandler, SavedAs
  <2>4. net' \in Links
    BY ZenonT(40), <1>3, PrepareHandlerSends DEF Added
  <2>5. state' \in [Server -> [role : {LEADER, FOLLOWER}, phase : {PREPARE, ACCEPT, RECOVER}]]
    BY ZenonT(40), <1>3 DEF TypeOK, PrepareHandler
  <2> QED BY Zenon, <1>3, <2>3, <2>4, <2>5, PromisesOKType DEF TypeOK, PrepareHandler, Links, leaderVars, envVars
<1>4. ASSUME PromiseRecorded(src, s, i) PROVE TypeOK'
  <2>1. WithPromise(s, src, m) \in Promises
    BY ZenonT(40), <1>2, <1>4, WithPromiseTypes DEF PromiseRecorded, PromiseGuard
  <2>2. promises' \in [Server -> Promises]
    BY ZenonT(40), <1>4, <2>1, PromisesOKType DEF TypeOK, PromiseRecorded
  <2> QED BY ZenonT(40), <1>2, <1>4, <2>2, PromisesOKType DEF TypeOK, PromiseRecorded, Links, envVars
<1>5. ASSUME PromiseMajority(src, s, i) PROVE TypeOK'
  <2> DEFINE ps == WithPromise(s, src, m)
  <2>1. PromiseMajorityGuard(src, s, i)
    BY ZenonT(40), <1>5 DEF PromiseMajority
  <2>2. PICK max \in MaxPromises(ps) :
          /\ maxProm' = [maxProm EXCEPT ![s] = [accRnd |-> max.accRnd, logIdx |-> max.logIdx]]
          /\ os' = [os EXCEPT ![s].Log = SyncedLog(s, max), ![s].AcceptedRnd = currentRnd[s]]
          /\ accepted' = [accepted EXCEPT ![s][s] = Len(SyncedLog(s, max))]
          /\ net' = SendFrom(Without(src, s, i), s, AcceptSyncAll(s, ps, max, m.N))
    BY Zenon, <1>5 DEF PromiseMajority
  <2>3. /\ max \in Promise
        /\ Added(net', s, Kind("AcceptSync", m.N))
    BY ZenonT(40), <2>1, <2>2, AcceptSyncAllSends
  <2>4. ps \in Promises
    BY Zenon, <1>2, <2>1, WithPromiseTypes DEF PromiseMajorityGuard, PromiseGuard
  <2>5. promises' \in [Server -> Promises]
    BY ZenonT(40), <1>5, <2>4, PromisesOKType DEF TypeOK, PromiseMajority
  <2> HIDE DEF m, ps
  <2>6. SyncedLog(s, max) \in Log /\ Len(SyncedLog(s, max)) \in Nat
    BY ZenonT(40), <2>3, SyncedLogType, CutTypes
  <2>7. currentRnd[s] \in Ballot
    BY ZenonT(40) DEF TypeOK
  <2>8. [os[s] EXCEPT !.Log = SyncedLog(s, max), !.AcceptedRnd = currentRnd[s]] \in LogState
    BY Zenon, <1>1, <2>6, <2>7 DEF LogState
  <2>9. os' \in [Server -> LogState] /\ disk' \in [Server -> LogState]
    <3>1. os' = [os EXCEPT ![s] = [os[s] EXCEPT !.Log = SyncedLog(s, max),
                                                !.AcceptedRnd = currentRnd[s]]]
      BY ZenonT(40), <2>2 DEF TypeOK
    <3>2. persist(s)
      BY ZenonT(40), <1>5 DEF PromiseMajority
    <3> QED BY Zenon, <2>8, <3>1, <3>2, SavedTypes DEF SavedAs
  <2>10. maxProm' \in [Server -> [accRnd : Ballot, logIdx : Nat]]
    BY ZenonT(40), <2>2, <2>3 DEF TypeOK, Promise
  <2>11. accepted' \in [Server -> [Server -> Nat]]
    BY ZenonT(40), <2>2, <2>6 DEF TypeOK
  <2>12. state' \in [Server -> [role : {LEADER, FOLLOWER}, phase : {PREPARE, ACCEPT, RECOVER}]]
    BY ZenonT(40), <1>5 DEF TypeOK, PromiseMajority
  <2>13. net' \in Links
    BY ZenonT(40), <2>3 DEF Added
  <2> QED BY Zenon, <1>5, <2>5, <2>9, <2>10, <2>11, <2>12, <2>13, PromisesOKType
          DEF TypeOK, PromiseMajority, Links, envVars
<1>6. ASSUME PromiseLate(src, s, i) PROVE TypeOK'
  <2>1. WithPromise(s, src, m) \in Promises
    BY ZenonT(40), <1>2, <1>6, WithPromiseTypes DEF PromiseLate, PromiseGuard
  <2>2. promises' \in [Server -> Promises]
    BY ZenonT(40), <1>6, <2>1, PromisesOKType DEF TypeOK, PromiseLate
  <2>3. net' \in Links
    BY ZenonT(40), <1>6, PromiseLateSends DEF Added
  <2>4. disk' \in [Server -> LogState]
    BY ZenonT(40), <1>1, <1>6 DEF TypeOK, PromiseLate
  <2> QED BY ZenonT(40), <1>6, <2>2, <2>3, <2>4, PromisesOKType DEF TypeOK, PromiseLate, Links, envVars
<1>7. ASSUME AcceptSyncHandler(src, s, i) PROVE TypeOK'
  <2> DEFINE log == Prefix(os[s].Log, m.SyncIdx) \o m.Sfx
  <2>1. m.N \in Ballot
    BY ZenonT(40), <1>2, <1>7, MessageFields DEF AcceptSyncHandler, AcceptSyncGuard
  <2>2. log \in Log /\ net' \in Links
    BY ZenonT(40), <1>7, AcceptSyncHandlerSends DEF Added
  <2>3. os' = [os EXCEPT ![s].AcceptedRnd = m.N, ![s].Log = log]
    BY Zenon, <1>7 DEF AcceptSyncHandler
  <2> HIDE DEF m, log
  <2>4. [os[s] EXCEPT !.AcceptedRnd = m.N, !.Log = log] \in LogState
    BY Zenon, <1>1, <2>1, <2>2 DEF LogState
  <2>5. os' \in [Server -> LogState] /\ disk' \in [Server -> LogState]
    <3>1. os' = [os EXCEPT ![s] = [os[s] EXCEPT !.AcceptedRnd = m.N, !.Log = log]]
      BY ZenonT(40), <2>3 DEF TypeOK
    <3>2. persist(s)
      BY Zenon, <1>7 DEF AcceptSyncHandler
    <3> QED BY ZenonT(40), <2>4, <3>1, <3>2, SavedTypes DEF SavedAs
  <2>6. state' \in [Server -> [role : {LEADER, FOLLOWER}, phase : {PREPARE, ACCEPT, RECOVER}]]
    BY ZenonT(40), <1>7 DEF TypeOK, AcceptSyncHandler
  <2> QED BY ZenonT(40), <1>7, <2>2, <2>5, <2>6, PromisesOKType DEF TypeOK, AcceptSyncHandler, Links, leaderVars, envVars
<1>8. ASSUME AcceptHandler(src, s, i) PROVE TypeOK'
  <2>1. m.C \in Command
    BY ZenonT(40), <1>2, <1>8, MessageFields DEF AcceptHandler, AcceptGuard
  <2>2. Append(os[s].Log, m.C) \in Log
    BY ZenonT(40), <1>1, <2>1, AppendProperties DEF Log
  <2>3. os' = [os EXCEPT ![s].Log = Append(os[s].Log, m.C)]
    BY ZenonT(40), <1>8 DEF AcceptHandler, TypeOK
  <2> HIDE DEF m
  <2>4. [os[s] EXCEPT !.Log = Append(os[s].Log, m.C)] \in LogState
    BY ZenonT(40), <1>1, <2>2 DEF LogState
  <2>5. os' \in [Server -> LogState] /\ disk' \in [Server -> LogState]
    BY ZenonT(40), <1>8, <2>3, <2>4, SavedTypes DEF AcceptHandler, SavedAs
  <2>6. net' \in Links
    BY ZenonT(40), <1>8, AcceptHandlerSends DEF Added
  <2> QED BY ZenonT(40), <1>8, <2>5, <2>6, PromisesOKType DEF TypeOK, AcceptHandler, Links, leaderVars, envVars
<1>9. ASSUME AcceptedRecorded(src, s, i) \/ AcceptedDecides(src, s, i)
      PROVE  accepted' \in [Server -> [Server -> Nat]]
  <2>1. m.LogIdx \in Nat
    BY ZenonT(40), <1>2, <1>9, MessageFields DEF AcceptedRecorded, AcceptedDecides, AcceptedGuard
  <2>2. WithAccepted(s, src, m.LogIdx) \in [Server -> Nat]
    BY ZenonT(40), <2>1 DEF TypeOK, WithAccepted
  <2>3. accepted' = [accepted EXCEPT ![s] = WithAccepted(s, src, m.LogIdx)]
    BY ZenonT(40), <1>9 DEF AcceptedRecorded, AcceptedDecides
  <2> QED BY ZenonT(40), <2>2, <2>3 DEF TypeOK
<1>10. ASSUME AcceptedRecorded(src, s, i) PROVE TypeOK'
  BY ZenonT(40), <1>2, <1>9, <1>10, PromisesOKType DEF TypeOK, AcceptedRecorded, Links, envVars
<1>11. ASSUME AcceptedDecides(src, s, i) PROVE TypeOK'
  <2>1. m.LogIdx \in Nat
    BY ZenonT(40), <1>2, <1>11, MessageFields DEF AcceptedDecides, AcceptedGuard
  <2>2. [os[s] EXCEPT !.DecidedIdx = m.LogIdx] \in LogState
    BY ZenonT(40), <1>1, <2>1 DEF LogState
  <2>3. os' \in [Server -> LogState] /\ disk' \in [Server -> LogState]
    BY Zenon, <1>11, <2>2, SavedTypes DEF AcceptedDecides, SavedAs
  <2>4. net' \in Links
    BY Zenon, <1>11, AcceptedDecidesSends DEF Added
  <2>5. chosen' \subseteq Nat \X Command
    BY Zenon, <1>1, <1>11, AppliedTypes DEF TypeOK, AcceptedDecides
  <2> QED BY ZenonT(40), <1>9, <1>11, <2>3, <2>4, <2>5, PromisesOKType DEF TypeOK, AcceptedDecides, Links, envVars
<1>12. ASSUME DecideHandler(src, s, i) PROVE TypeOK'
  <2>1. m.DecIdx \in Nat
    BY ZenonT(40), <1>2, <1>12, MessageFields DEF DecideHandler, DecideGuard
  <2>2. [os[s] EXCEPT !.DecidedIdx = m.DecIdx] \in LogState
    BY ZenonT(40), <1>1, <2>1 DEF LogState
  <2>3. os' \in [Server -> LogState] /\ disk' \in [Server -> LogState]
    BY ZenonT(40), <1>12, <2>2, SavedTypes DEF DecideHandler, SavedAs
  <2>4. chosen' \subseteq Nat \X Command
    BY ZenonT(40), <1>1, <1>12, AppliedTypes DEF TypeOK, DecideHandler
  <2> QED BY Zenon, <1>2, <1>12, <2>3, <2>4, PromisesOKType DEF TypeOK, DecideHandler, Links, leaderVars, envVars
<1>13. ASSUME ReconnectedHandler(src, s, i) PROVE TypeOK'
  <2>1. net' \in Links
    BY ZenonT(40), <1>13, SignalSends DEF Added
  <2>2. state' \in [Server -> [role : {LEADER, FOLLOWER}, phase : {PREPARE, ACCEPT, RECOVER}]]
    BY ZenonT(40), <1>13 DEF TypeOK, ReconnectedHandler
  <2> QED BY ZenonT(40), <1>13, <2>1, <2>2, PromisesOKType DEF TypeOK, ReconnectedHandler, Links, leaderVars, envVars
<1>14. ASSUME PrepareReqHandler(src, s, i) PROVE TypeOK'
  <2>1. net' \in Links
    BY ZenonT(40), <1>14, PrepareReqHandlerSends DEF Added
  <2> QED BY ZenonT(40), <1>14, <2>1, PromisesOKType DEF TypeOK, PrepareReqHandler, Links, leaderVars, envVars
<1>15. ASSUME Discard(src, s, i) PROVE TypeOK'
  BY ZenonT(40), <1>2, <1>15, PromisesOKType DEF TypeOK, Discard, Links, leaderVars, envVars
<1> QED BY ZenonT(40), <1>3, <1>4, <1>5, <1>6, <1>7, <1>8, <1>10, <1>11, <1>12, <1>13, <1>14, <1>15,
           CrashTypes DEF Handle

\* Every step of the group keeps the types.
LEMMA TypeStep == TypeOK /\ [Next]_vars => TypeOK'
<1> SUFFICES ASSUME TypeOK, [Next]_vars PROVE TypeOK'
  BY ZenonT(40)
<1>1. ASSUME NEW s \in Server, AskForPrepare(s) PROVE TypeOK'
  <2>1. net' \in Links
    BY ZenonT(40), <1>1, SignalSends DEF Added
  <2> QED BY ZenonT(40), <1>1, <2>1, PromisesOKType DEF TypeOK, AskForPrepare, Links, leaderVars
<1>2. ASSUME NEW s \in Server, NEW p \in Server, LinkReconnected(s, p) PROVE TypeOK'
  <2>1. net' \in Links
    BY ZenonT(40), <1>2, SignalSends DEF Added
  <2>2. reconnects' \in Nat
    BY <1>2 DEF TypeOK, LinkReconnected
  <2> QED BY ZenonT(40), <1>2, <2>1, <2>2, PromisesOKType DEF TypeOK, LinkReconnected, Links, leaderVars
<1>3. ASSUME UNCHANGED vars PROVE TypeOK'
  BY ZenonT(40), <1>3, PromisesOKType DEF TypeOK, vars, leaderVars, envVars
<1> QED BY ZenonT(40), <1>1, <1>2, <1>3, CrashTypes, LeaderTypes, HandlerTypes DEF Next, Deliver

\* TypeOK, for any number of peers, commands, elections and failures.
THEOREM TypeCorrect == Spec => []TypeOK
  BY TypeInit, TypeStep, PTL DEF Spec

-----------------------------------------------------------------------------
(* Rounds *)

\* No peer forgets a leader, a promise, a round or a decision.
Grown ==
    \A t \in Server :
        /\ Leq(os[t].L, os'[t].L)
        /\ Leq(os[t].PromisedRnd, os'[t].PromisedRnd)
        /\ Leq(os[t].AcceptedRnd, os'[t].AcceptedRnd)
        /\ os[t].DecidedIdx <= os'[t].DecidedIdx

\* t is in the rounds it was in, and leads no other round than before.
Kept(t) ==
    /\ os'[t].PromisedRnd = os[t].PromisedRnd
    /\ os'[t].AcceptedRnd = os[t].AcceptedRnd
    /\ currentRnd'[t] = currentRnd[t]
    /\ promises'[t] = promises[t]
    /\ accepted'[t] = accepted[t]
    /\ \/ state'[t] = state[t]
       \/ state'[t].role = FOLLOWER /\ state'[t].phase \in {state[t].phase, RECOVER}

\* What every step of peer s is, with M the messages it may send.
Step(s, M) ==
    /\ disk' = os'
    /\ Grown
    /\ \A t \in Server \ {s} : Kept(t)
    /\ Added(net', s, M)

\* The fields of a peer have their types.
LEMMA PeerTypes ==
  ASSUME TypeOK, NEW t \in Server
  PROVE  /\ os[t] \in LogState
         /\ os[t].L \in Ballot /\ os[t].PromisedRnd \in Ballot /\ os[t].AcceptedRnd \in Ballot
         /\ os[t].DecidedIdx \in Nat
         /\ currentRnd[t] \in Ballot /\ currentRnd[t].Pid \in Server
         /\ DOMAIN promises[t] \subseteq Server
         /\ \A f \in Server : accepted[t][f] \in Nat
<1>1. /\ os[t] \in LogState /\ os[t].L \in Ballot /\ os[t].PromisedRnd \in Ballot
      /\ os[t].AcceptedRnd \in Ballot /\ os[t].DecidedIdx \in Nat
  BY ZenonT(40) DEF TypeOK, LogState
<1>2. currentRnd[t] \in Ballot /\ currentRnd[t].Pid \in Server
  BY ZenonT(40) DEF TypeOK, Ballot
<1>3. DOMAIN promises[t] \subseteq Server
  BY ZenonT(40), PromisesOKType, PromisesType DEF TypeOK
<1>4. \A f \in Server : accepted[t][f] \in Nat
  BY ZenonT(40) DEF TypeOK
<1> QED BY ZenonT(40), <1>1, <1>2, <1>3, <1>4

\* The fields of a peer have their types after a step.
LEMMA PeerTypesPrimed ==
  ASSUME TypeOK', NEW t \in Server
  PROVE  /\ os'[t] \in LogState
         /\ os'[t].L \in Ballot /\ os'[t].PromisedRnd \in Ballot /\ os'[t].AcceptedRnd \in Ballot
         /\ os'[t].DecidedIdx \in Nat
         /\ currentRnd'[t] \in Ballot
  BY ZenonT(40) DEF TypeOK, LogState

\* A round stays its owner's.
LEMMA OwnedKept ==
  ASSUME TypeOK, TypeOK', Grown, NEW r \in Ballot, Owned(r)
  PROVE  Owned(r)'
<1>1. r.Pid \in Server
  BY ZenonT(40) DEF Ballot
<1>2. Leq(r, os[r.Pid].L) /\ Leq(os[r.Pid].L, os'[r.Pid].L)
  BY ZenonT(40), <1>1 DEF Owned, Grown
<1>3. Leq(r, os'[r.Pid].L)
  BY ZenonT(40), <1>1, <1>2, PeerTypes, PeerTypesPrimed, LeqTrans
<1> QED BY ZenonT(40), <1>3 DEF Owned

\* What a peer promised or accepted it has still promised or accepted.
LEMMA AtLeastKept ==
  ASSUME TypeOK, TypeOK', Grown, NEW r \in Ballot, NEW f \in Server
  PROVE  /\ Leq(r, os[f].PromisedRnd) => Leq(r, os'[f].PromisedRnd)
         /\ Leq(r, os[f].AcceptedRnd) => Leq(r, os'[f].AcceptedRnd)
<1>1. Leq(os[f].PromisedRnd, os'[f].PromisedRnd) /\ Leq(os[f].AcceptedRnd, os'[f].AcceptedRnd)
  BY ZenonT(40) DEF Grown
<1> QED BY ZenonT(40), <1>1, PeerTypes, PeerTypesPrimed, LeqTrans

\* A message that satisfied MessageInv still does.
LEMMA MessageKept ==
  ASSUME TypeOK, TypeOK', Grown, NEW a \in Server, NEW m \in Message, MessageInv(a, m)
  PROVE  MessageInv(a, m)'
<1>1. m.type \in RoundMessage => m.N \in Ballot
  BY ZenonT(40), MessageFields DEF RoundMessage
<1>2. m.type \in RoundMessage => Owned(m.N)'
  BY ZenonT(40), <1>1, OwnedKept DEF MessageInv
<1>3. m.type = "Promise" => Leq(m.N, os'[a].PromisedRnd)
  BY ZenonT(40), <1>1, AtLeastKept DEF MessageInv, RoundMessage
<1>4. m.type = "Accepted" => Leq(m.N, os'[a].AcceptedRnd)
  BY ZenonT(40), <1>1, AtLeastKept DEF MessageInv, RoundMessage
<1> QED BY ZenonT(40), <1>2, <1>3, <1>4 DEF MessageInv

\* A peer that stays in its rounds keeps its part of the invariant.
LEMMA PeerKept ==
  ASSUME TypeOK, TypeOK', Grown, NEW t \in Server, PeerInv(t), Kept(t)
  PROVE  PeerInv(t)'
<1>1. Leq(os[t].AcceptedRnd, os[t].PromisedRnd)'
  BY ZenonT(40) DEF PeerInv, Kept
<1>2. Owned(os[t].PromisedRnd)' /\ Owned(os[t].AcceptedRnd)' /\ Owned(currentRnd[t])'
  <2>1. Owned(os[t].PromisedRnd) /\ Owned(os[t].AcceptedRnd) /\ Owned(currentRnd[t])
    BY ZenonT(40) DEF PeerInv
  <2>2. /\ Leq(os[t].PromisedRnd, os'[os[t].PromisedRnd.Pid].L)
        /\ Leq(os[t].AcceptedRnd, os'[os[t].AcceptedRnd.Pid].L)
        /\ Leq(currentRnd[t], os'[currentRnd[t].Pid].L)
    <3>1. \A r \in Ballot : Owned(r) => Leq(r, os'[r.Pid].L)
      BY ZenonT(40), OwnedKept DEF Owned
    <3> QED BY ZenonT(40), <2>1, <3>1, PeerTypes
  <2> QED BY ZenonT(40), <2>2 DEF Kept, Owned
<1>3. RoundState(t)'
  BY ZenonT(40) DEF PeerInv, RoundState, Kept, LEADER, FOLLOWER, ACCEPT, RECOVER
<1>4. \A f \in DOMAIN promises'[t] : Leq(currentRnd'[t], os'[f].PromisedRnd)
  BY ZenonT(40), PeerTypes, AtLeastKept DEF PeerInv, Counted, Kept
<1>5. state'[t].role = LEADER =>
        \A f \in Server : accepted'[t][f] > 0 => Leq(currentRnd'[t], os'[f].AcceptedRnd)
  BY ZenonT(40), PeerTypes, AtLeastKept DEF PeerInv, Counted, Kept, LEADER, FOLLOWER
<1> QED BY ZenonT(40), <1>1, <1>2, <1>3, <1>4, <1>5 DEF PeerInv, Counted

\* A step of s preserves IInv when s itself and the messages it sends do.
LEMMA StepInv ==
  ASSUME IInv, TypeOK', NEW s \in Server, NEW M, Step(s, M),
         PeerInv(s)', \A m \in M : MessageInv(s, m)'
  PROVE  IInv' /\ Grown
<1>1. TypeOK /\ Grown
  BY ZenonT(40) DEF IInv, Step
<1>2. ASSUME NEW t \in Server PROVE PeerInv(t)'
  BY ZenonT(40), <1>1, PeerKept DEF IInv, Step
<1>3. ASSUME NEW a \in Server, NEW b \in Server, NEW m \in Range(net'[a][b])
      PROVE  MessageInv(a, m)'
  <2>1. CASE m \in Range(net[a][b])
    <3>1. net[a][b] \in Seq(Message)
      BY <1>1 DEF TypeOK
    <3>2. m \in Message
      BY <2>1, <3>1 DEF Range
    <3> QED BY ZenonT(40), <1>1, <2>1, <3>2, MessageKept DEF IInv, InFlight
  <2>2. CASE a = s /\ m \in M
    BY ZenonT(40), <2>2
  <2> QED BY ZenonT(40), <1>3, <2>1, <2>2 DEF Step, Added
<1> QED BY ZenonT(40), <1>2, <1>3 DEF IInv, Step, InFlight
-----------------------------------------------------------------------------
(* One lemma per action: it is a Step, and its peer keeps PeerInv. *)

\* Saving os'[s] keeps memory and disk equal.
LEMMA SavedKept ==
  ASSUME IInv, NEW s \in Server, TypeOK',
         \A t \in Server \ {s} : os'[t] = os[t], persist(s)
  PROVE  disk' = os'
<1>1. disk = os /\ os \in [Server -> LogState] /\ os' \in [Server -> LogState]
  BY ZenonT(40) DEF IInv, TypeOK
<1> QED BY ZenonT(40), <1>1 DEF persist

\* When only s changes, Grown is a matter of s.
LEMMA GrownAt ==
  ASSUME TypeOK, NEW s \in Server, \A t \in Server \ {s} : os'[t] = os[t],
         Leq(os[s].L, os'[s].L), Leq(os[s].PromisedRnd, os'[s].PromisedRnd),
         Leq(os[s].AcceptedRnd, os'[s].AcceptedRnd), os[s].DecidedIdx <= os'[s].DecidedIdx
  PROVE  Grown
<1>1. ASSUME NEW t \in Server \ {s} PROVE
        /\ Leq(os[t].L, os'[t].L)
        /\ Leq(os[t].PromisedRnd, os'[t].PromisedRnd)
        /\ Leq(os[t].AcceptedRnd, os'[t].AcceptedRnd)
        /\ os[t].DecidedIdx <= os'[t].DecidedIdx
  <2>1. os'[t] = os[t]
    BY ZenonT(40)
  <2> QED BY <2>1, LeqRefl, PeerTypes
<1> QED BY ZenonT(40), <1>1 DEF Grown

\* A peer restarts in the rounds it had on disk, and leads none.
LEMMA RebootInv ==
  ASSUME IInv, TypeOK', NEW s \in Server, NEW d \in LogState, NEW nt, NEW M, Added(nt, s, M),
         Reboot(s, d, nt),
         d.PromisedRnd = os[s].PromisedRnd, d.AcceptedRnd = os[s].AcceptedRnd,
         d.DecidedIdx = os[s].DecidedIdx, Leq(os[s].L, d.L),
         \A m \in M : MessageInv(s, m)'
  PROVE  IInv' /\ Grown
<1> USE DEF IInv
<1>1. TypeOK /\ PeerInv(s)
  BY ZenonT(40)
<1>2. os' = [os EXCEPT ![s] = d] /\ disk' = os'
  BY ZenonT(40) DEF Reboot, TypeOK
<1>3. os'[s] = d /\ \A t \in Server \ {s} : os'[t] = os[t]
  BY ZenonT(40), <1>1, <1>2 DEF TypeOK
<1>4. Grown
  BY <1>1, <1>3, GrownAt, LeqRefl, PeerTypes
<1>5. \A t \in Server \ {s} : Kept(t)
  BY ZenonT(40), <1>1, <1>3, PromisesOKType DEF Reboot, TypeOK, Kept
<1>6. Step(s, M)
  BY ZenonT(40), <1>2, <1>4, <1>5, RebootAdds DEF Step
<1>7. /\ state'[s] = [role |-> FOLLOWER, phase |-> PREPARE]
      /\ currentRnd'[s] = ZeroBallot /\ promises'[s] = <<>>
  BY ZenonT(40), <1>1, PromisesOKType DEF Reboot, TypeOK
<1>8. PeerInv(s)'
  <2>1. \A r \in Ballot : Owned(r) => Leq(r, os'[r.Pid].L)
    BY ZenonT(40), <1>1, <1>4, OwnedKept DEF Owned
  <2>2. Leq(ZeroBallot, os'[ZeroBallot.Pid].L)
    BY ZenonT(40), ZeroLeq, PeerTypesPrimed DEF Ballot
  <2>3. Owned(os[s].PromisedRnd)' /\ Owned(os[s].AcceptedRnd)' /\ Owned(currentRnd[s])'
    BY ZenonT(40), <1>1, <1>3, <1>7, <2>1, <2>2, PeerTypes DEF PeerInv, Owned
  <2>4. RoundState(s)' /\ Counted(s)'
    BY <1>7, NoPromises DEF RoundState, Counted, LEADER, FOLLOWER, PREPARE, ACCEPT
  <2> QED BY ZenonT(40), <1>1, <1>3, <2>3, <2>4 DEF PeerInv
<1> QED BY ZenonT(40), <1>6, <1>8, StepInv

\* Crash, and the actions that end in one.
LEMMA CrashInv ==
  ASSUME IInv, TypeOK', NEW s \in Server, Crash(s)
  PROVE  IInv' /\ Grown
<1>1. TypeOK /\ disk[s] = os[s] /\ os[s] \in LogState /\ os[s].L \in Ballot
  BY ZenonT(40), PeerTypes DEF IInv
<1>2. Added(net, s, {})
  BY ZenonT(40), <1>1, NetShrinks, ShrunkAdds DEF TypeOK, Links
<1> QED BY <1>1, <1>2, RebootInv, LeqRefl DEF Crash

\* A peer that dies in AcceptedHandler or DecideHandler, between the
\* applyCh and persist(), keeps the invariant.
LEMMA HandlerCrashInv ==
  ASSUME IInv, TypeOK', NEW src \in Server, NEW s \in Server, NEW i \in Deliverable(src, s),
         \/ AcceptedDecidesThenCrash(src, s, i)
         \/ DecideThenCrash(src, s, i)
  PROVE  IInv' /\ Grown
<1>1. TypeOK /\ disk[s] = os[s] /\ os[s] \in LogState /\ os[s].L \in Ballot
  BY ZenonT(40), PeerTypes DEF IInv
<1>2. Added(Without(src, s, i), s, {})
  BY ZenonT(40), <1>1, Taken, ShrunkAdds
<1>3. Reboot(s, disk[s], Without(src, s, i))
  BY ZenonT(40) DEF AcceptedDecidesThenCrash, DecideThenCrash
<1> QED BY <1>1, <1>2, <1>3, RebootInv, LeqRefl

\* Messages that bind nobody satisfy MessageInv when their round is owned.
LEMMA KindInv ==
  ASSUME NEW s \in Server, NEW n \in Ballot, Leq(n, os'[n.Pid].L)
  PROVE  /\ \A m \in Kind("Prepare", n) : MessageInv(s, m)'
         /\ \A m \in Kind("AcceptSync", n) : MessageInv(s, m)'
         /\ \A m \in Kind("Accept", n) : MessageInv(s, m)'
         /\ \A m \in Kind("Decide", n) : MessageInv(s, m)'
         /\ Leq(n, os'[s].PromisedRnd) => \A m \in Kind("Promise", n) : MessageInv(s, m)'
         /\ Leq(n, os'[s].AcceptedRnd) => \A m \in Kind("Accepted", n) : MessageInv(s, m)'
<1>1. Owned(n)'
  BY ZenonT(40) DEF Owned
<1>2. ASSUME NEW t, NEW m \in Kind(t, n),
             t = "Promise" => Leq(n, os'[s].PromisedRnd),
             t = "Accepted" => Leq(n, os'[s].AcceptedRnd)
      PROVE  MessageInv(s, m)'
  <2>1. m.type = t /\ m.N = n
    BY ZenonT(40) DEF Kind
  <2> QED BY ZenonT(40), <1>1, <1>2, <2>1 DEF MessageInv, Owned
<1> QED BY ZenonT(40), <1>2

\* A leader that dies in PromiseHandler, after its AcceptSyncs and before
\* persist(), keeps the invariant.
LEMMA MajorityCrashInv ==
  ASSUME IInv, TypeOK', NEW src \in Server, NEW s \in Server, NEW i \in Deliverable(src, s),
         PromiseMajorityThenCrash(src, s, i)
  PROVE  IInv' /\ Grown
<1> DEFINE m == net[src][s][i]
           ps == WithPromise(s, src, m)
<1>1. TypeOK /\ disk[s] = os[s] /\ os[s] \in LogState /\ os[s].L \in Ballot
  BY ZenonT(40), PeerTypes DEF IInv
<1>2. PICK max \in MaxPromises(ps) :
        Reboot(s, disk[s], SendFrom(Without(src, s, i), s, AcceptSyncAll(s, ps, max, m.N)))
  BY ZenonT(40) DEF PromiseMajorityThenCrash
<1>3. Added(SendFrom(Without(src, s, i), s, AcceptSyncAll(s, ps, max, m.N)), s,
            Kind("AcceptSync", m.N))
  BY ZenonT(40), <1>1, <1>2, AcceptSyncAllSends DEF PromiseMajorityThenCrash
<1>4. m.N \in Ballot /\ Owned(m.N)
  <2>1. m.type = "Promise"
    BY ZenonT(40) DEF PromiseMajorityThenCrash, PromiseMajorityGuard, PromiseGuard
  <2> QED BY ZenonT(40), <1>1, <2>1, Taken, MessageFields DEF IInv, InFlight, MessageInv, RoundMessage
<1>5. os' = os
  BY ZenonT(40), <1>1, <1>2 DEF Reboot, TypeOK
<1> HIDE DEF m, ps
<1>6. \A x \in Kind("AcceptSync", m.N) : MessageInv(s, x)'
  BY ZenonT(40), <1>4, <1>5, KindInv DEF Owned
<1> QED BY ZenonT(40), <1>1, <1>2, <1>3, <1>6, RebootInv, LeqRefl

\* The owner of round n has os.L = n on disk before the first Prepare leaves.
LEMMA LeaderCrashInv ==
  ASSUME IInv, TypeOK', NEW s \in Server, NEW n \in Elected, BecomeLeaderThenCrash(s, n)
  PROVE  IInv' /\ Grown
<1> DEFINE d == [disk[s] EXCEPT !.L = n]
<1>1. TypeOK /\ disk[s] = os[s] /\ os[s] \in LogState /\ os[s].L \in Ballot /\ n \in Ballot
  BY ZenonT(40), PeerTypes, BoundsAssumption DEF IInv
<1>2. /\ d \in LogState /\ d.L = n /\ d.PromisedRnd = os[s].PromisedRnd
      /\ d.AcceptedRnd = os[s].AcceptedRnd /\ d.DecidedIdx = os[s].DecidedIdx
  BY ZenonT(40), <1>1 DEF LogState
<1>3. Reboot(s, d, PrepareAll(s, n)) /\ LeadGuard(s, n)
  BY ZenonT(40) DEF BecomeLeaderThenCrash
<1>4. Leq(os[s].L, d.L) /\ n.Pid = s
  BY <1>1, <1>2, <1>3, LessNotLeq DEF LeadGuard
<1>5. os'[s] = d
  BY ZenonT(40), <1>1, <1>3 DEF Reboot, TypeOK
<1>6. Leq(n, os'[n.Pid].L)
  BY ZenonT(40), <1>1, <1>2, <1>4, <1>5, LeqRefl
<1> HIDE DEF d
<1>7. \A m \in Kind("Prepare", n) : MessageInv(s, m)'
  BY ZenonT(40), <1>1, <1>6, KindInv
<1> QED BY ZenonT(40), <1>1, <1>2, <1>3, <1>4, <1>7, BecomeLeaderSends, RebootInv

\* triggerLeader starts a round its owner has in os.L, and keeps the invariant.
LEMMA BecomeLeaderInv ==
  ASSUME IInv, TypeOK', NEW s \in Server, NEW n \in Elected, BecomeLeader(s, n)
  PROVE  IInv' /\ Grown
<1>1. TypeOK /\ PeerInv(s) /\ n \in Ballot /\ n.Pid = s
      /\ Less(os[s].L, n) /\ Less(os[s].PromisedRnd, n)
  BY ZenonT(40), BoundsAssumption DEF IInv, BecomeLeader, LeadGuard
<1>2. os'[s] = [os[s] EXCEPT !.L = n, !.PromisedRnd = n] /\ \A t \in Server \ {s} : os'[t] = os[t]
  BY ZenonT(40), <1>1 DEF TypeOK, BecomeLeader
<1>3. /\ os'[s].L = n /\ os'[s].PromisedRnd = n
      /\ os'[s].AcceptedRnd = os[s].AcceptedRnd /\ os'[s].DecidedIdx = os[s].DecidedIdx
  BY ZenonT(40), <1>1, <1>2, PeerTypes DEF LogState
<1>4. disk' = os'
  BY Zenon, <1>2, SavedKept DEF BecomeLeader
<1>5. Leq(os[s].L, n) /\ Leq(os[s].PromisedRnd, n)
  BY ZenonT(40), <1>1, PeerTypes, LessNotLeq
<1>6. Grown
  <2>1. Leq(os[s].AcceptedRnd, os'[s].AcceptedRnd) /\ os[s].DecidedIdx <= os'[s].DecidedIdx
    BY <1>1, <1>3, LeqRefl, PeerTypes
  <2> QED BY ZenonT(40), <1>1, <1>2, <1>3, <1>5, <2>1, GrownAt
<1>7. \A t \in Server \ {s} : Kept(t)
  BY ZenonT(40), <1>1, <1>2, PromisesOKType DEF BecomeLeader, TypeOK, Kept
<1>8. Added(net', s, Kind("Prepare", n))
  BY ZenonT(40), <1>1, BecomeLeaderSends DEF BecomeLeader
<1>9. Leq(n, os'[n.Pid].L)
  BY ZenonT(40), <1>1, <1>3, LeqRefl
<1>10. \A m \in Kind("Prepare", n) : MessageInv(s, m)'
  BY ZenonT(40), <1>1, <1>9, KindInv
<1>11. /\ state'[s] = [role |-> LEADER, phase |-> PREPARE] /\ currentRnd'[s] = n
       /\ DOMAIN promises'[s] = {s} /\ \A f \in Server : accepted'[s][f] = 0
  BY ZenonT(40), <1>1, PromisesOKType DEF BecomeLeader, TypeOK
<1>12. PeerInv(s)'
  <2>1. Leq(os[s].AcceptedRnd, os[s].PromisedRnd)'
    BY ZenonT(40), <1>1, <1>3, <1>5, PeerTypes, LeqTrans DEF PeerInv
  <2>2. \A r \in Ballot : Owned(r) => Leq(r, os'[r.Pid].L)
    BY ZenonT(40), <1>1, <1>6, OwnedKept DEF Owned
  <2>3. Owned(os[s].PromisedRnd)' /\ Owned(os[s].AcceptedRnd)' /\ Owned(currentRnd[s])'
    BY ZenonT(40), <1>1, <1>3, <1>9, <1>11, <2>2, PeerTypes DEF PeerInv, Owned
  <2>4. RoundState(s)'
    BY <1>3, <1>11 DEF RoundState, PREPARE, ACCEPT
  <2>5. Counted(s)'
    BY SMTT(30), <1>1, <1>3, <1>11, LeqRefl DEF Counted
  <2> QED BY ZenonT(40), <2>1, <2>3, <2>4, <2>5 DEF PeerInv
<1> QED BY ZenonT(40), <1>4, <1>6, <1>7, <1>8, <1>10, <1>12, StepInv DEF Step

\* A step of s that leaves its rounds alone, for whatever it does to its log
\* and whatever it sends.
LEMMA QuietStep ==
  ASSUME IInv, TypeOK', NEW s \in Server, NEW M, Added(net', s, M), disk' = os',
         \A t \in Server \ {s} : os'[t] = os[t],
         \A t \in Server : Kept(t),
         Leq(os[s].L, os'[s].L), os[s].DecidedIdx <= os'[s].DecidedIdx,
         Grown => \A m \in M : MessageInv(s, m)'
  PROVE  IInv' /\ Grown
<1>1. TypeOK /\ PeerInv(s)
  BY ZenonT(40) DEF IInv
<1>2. Grown
  <2>1. Leq(os[s].PromisedRnd, os'[s].PromisedRnd) /\ Leq(os[s].AcceptedRnd, os'[s].AcceptedRnd)
    BY ZenonT(40), <1>1, LeqRefl, PeerTypes DEF Kept
  <2> QED BY ZenonT(40), <1>1, <2>1, GrownAt
<1>3. PeerInv(s)'
  BY ZenonT(40), <1>1, <1>2, PeerKept
<1> QED BY ZenonT(40), <1>2, <1>3, StepInv DEF Step

\* Round n of a peer's own promise, acceptance or lead, and of a message it
\* takes, is owned after the step too.
LEMMA RoundOwned ==
  ASSUME IInv, TypeOK', Grown
  PROVE  /\ \A s \in Server : Leq(currentRnd[s], os'[currentRnd[s].Pid].L)
         /\ \A src, s \in Server : \A i \in Deliverable(src, s) :
              net[src][s][i].type \in RoundMessage =>
                /\ net[src][s][i].N \in Ballot
                /\ Leq(net[src][s][i].N, os'[net[src][s][i].N.Pid].L)
<1>1. TypeOK
  BY ZenonT(40) DEF IInv
<1>2. \A r \in Ballot : Owned(r) => Leq(r, os'[r.Pid].L)
  BY ZenonT(40), <1>1, OwnedKept DEF Owned
<1>3. \A s \in Server : Leq(currentRnd[s], os'[currentRnd[s].Pid].L)
  BY ZenonT(40), <1>1, <1>2, PeerTypes DEF IInv, PeerInv
<1>4. ASSUME NEW src \in Server, NEW s \in Server, NEW i \in Deliverable(src, s),
             net[src][s][i].type \in RoundMessage
      PROVE  /\ net[src][s][i].N \in Ballot
             /\ Leq(net[src][s][i].N, os'[net[src][s][i].N.Pid].L)
  <2>1. net[src][s][i] \in Message /\ net[src][s][i] \in Range(net[src][s])
    BY ZenonT(40), <1>1, Taken
  <2>2. net[src][s][i].N \in Ballot
    BY ZenonT(40), <1>4, <2>1, MessageFields DEF RoundMessage
  <2>3. Owned(net[src][s][i].N)
    BY ZenonT(40), <1>4, <2>1 DEF IInv, InFlight, MessageInv
  <2> QED BY ZenonT(40), <1>2, <2>2, <2>3
<1> QED BY ZenonT(40), <1>3, <1>4

\* The actions of the leader event and of Proposal that keep the rounds.
LEMMA FollowLeaderInv ==
  ASSUME IInv, TypeOK', NEW s \in Server, NEW n \in Elected, FollowLeader(s, n)
  PROVE  IInv' /\ Grown
<1>1. TypeOK /\ n \in Ballot /\ Less(os[s].L, n)
  BY ZenonT(40), BoundsAssumption DEF IInv, FollowLeader
<1>2. os'[s] = [os[s] EXCEPT !.L = n] /\ \A t \in Server \ {s} : os'[t] = os[t]
  BY ZenonT(40), <1>1 DEF TypeOK, FollowLeader
<1>3. /\ os'[s].L = n /\ os'[s].PromisedRnd = os[s].PromisedRnd
      /\ os'[s].AcceptedRnd = os[s].AcceptedRnd /\ os'[s].DecidedIdx = os[s].DecidedIdx
  BY ZenonT(40), <1>1, <1>2, PeerTypes DEF LogState
<1>4. disk' = os'
  BY ZenonT(40), <1>2, SavedKept DEF FollowLeader
<1>5. \A t \in Server : Kept(t)
  BY <1>1, <1>2, <1>3 DEF FollowLeader, TypeOK, Kept, leaderVars
<1>6. Leq(os[s].L, os'[s].L) /\ os[s].DecidedIdx <= os'[s].DecidedIdx
  BY <1>1, <1>3, PeerTypes, LessNotLeq
<1>7. Added(net', s, {})
  BY ZenonT(40), <1>1, NetShrinks, ShrunkAdds DEF FollowLeader, TypeOK, Links
<1> QED BY Zenon, <1>2, <1>4, <1>5, <1>6, <1>7, QuietStep

\* Proposal counts the leader's own entry in a round it has accepted, and keeps
\* the invariant.
LEMMA ProposeAppendInv ==
  ASSUME IInv, TypeOK', NEW s \in Server, NEW c \in Command, ProposeAppend(s, c)
  PROVE  IInv' /\ Grown
<1>1. TypeOK /\ PeerInv(s) /\ state[s].role = LEADER /\ state[s].phase = ACCEPT
  BY DEF IInv, ProposeAppend, In
<1>2. os'[s] = [os[s] EXCEPT !.Log = Append(os[s].Log, c)] /\ \A t \in Server \ {s} : os'[t] = os[t]
  BY ZenonT(40), <1>1 DEF TypeOK, ProposeAppend
<1>3. /\ os'[s].L = os[s].L /\ os'[s].PromisedRnd = os[s].PromisedRnd
      /\ os'[s].AcceptedRnd = os[s].AcceptedRnd /\ os'[s].DecidedIdx = os[s].DecidedIdx
  BY ZenonT(40), <1>1, <1>2, PeerTypes DEF LogState
<1>4. disk' = os'
  BY ZenonT(40), <1>2, SavedKept DEF ProposeAppend
<1>5. Grown
  <2>1. /\ Leq(os[s].L, os'[s].L) /\ Leq(os[s].PromisedRnd, os'[s].PromisedRnd)
        /\ Leq(os[s].AcceptedRnd, os'[s].AcceptedRnd) /\ os[s].DecidedIdx <= os'[s].DecidedIdx
    BY <1>1, <1>3, LeqRefl, PeerTypes
  <2> QED BY ZenonT(40), <1>1, <1>2, <2>1, GrownAt
<1>6. \A t \in Server \ {s} : Kept(t)
  BY ZenonT(40), <1>1, <1>2 DEF ProposeAppend, TypeOK, Kept
<1>7. /\ currentRnd'[s] = currentRnd[s] /\ promises'[s] = promises[s] /\ state'[s] = state[s]
      /\ \A f \in Server : f # s => accepted'[s][f] = accepted[s][f]
  BY <1>1 DEF ProposeAppend, TypeOK
<1>8. PeerInv(s)'
  <2>1. \A r \in Ballot : Owned(r) => Leq(r, os'[r.Pid].L)
    BY ZenonT(40), <1>1, <1>5, OwnedKept DEF Owned
  <2>2. /\ Leq(os[s].AcceptedRnd, os[s].PromisedRnd)'
        /\ Owned(os[s].PromisedRnd)' /\ Owned(os[s].AcceptedRnd)' /\ Owned(currentRnd[s])'
    BY ZenonT(40), <1>1, <1>3, <1>7, <2>1, PeerTypes DEF PeerInv, Owned
  <2>3. RoundState(s)'
    BY ZenonT(40), <1>1, <1>3, <1>7 DEF PeerInv, RoundState
  <2>4. \A f \in DOMAIN promises'[s] : Leq(currentRnd'[s], os'[f].PromisedRnd)
    BY ZenonT(40), <1>1, <1>5, <1>7, PeerTypes, AtLeastKept DEF PeerInv, Counted
  <2>5. ASSUME NEW f \in Server, accepted'[s][f] > 0
        PROVE  Leq(currentRnd'[s], os'[f].AcceptedRnd)
    <3>1. CASE f = s
      BY ZenonT(40), <1>1, <1>3, <1>7, <3>1, PeerTypes, LeqRefl DEF PeerInv, RoundState
    <3>2. CASE f # s
      BY ZenonT(40), <1>1, <1>5, <1>7, <2>5, <3>2, PeerTypes, AtLeastKept DEF PeerInv, Counted
    <3> QED BY ZenonT(40), <3>1, <3>2
  <2> QED BY ZenonT(40), <2>2, <2>3, <2>4, <2>5 DEF PeerInv, Counted
<1>9. \A m \in Kind("Accept", currentRnd[s]) : MessageInv(s, m)'
  <2>1. currentRnd[s] \in Ballot /\ Leq(currentRnd[s], os'[currentRnd[s].Pid].L)
    BY ZenonT(40), <1>1, <1>5, PeerTypes, RoundOwned
  <2>2. \A n \in Ballot : Leq(n, os'[n.Pid].L) => \A m \in Kind("Accept", n) : MessageInv(s, m)'
    BY ZenonT(40), KindInv
  <2> QED BY ZenonT(40), <2>1, <2>2
<1> QED BY ZenonT(40), <1>1, <1>4, <1>5, <1>6, <1>8, <1>9, ProposeAppendSends, StepInv DEF Step

\* The handlers that change neither rounds nor what is counted.
LEMMA AcceptHandlerInv ==
  ASSUME IInv, TypeOK', NEW src \in Server, NEW s \in Server, NEW i \in Deliverable(src, s),
         AcceptHandler(src, s, i)
  PROVE  IInv' /\ Grown
<1> DEFINE m == net[src][s][i]
<1>1. /\ TypeOK /\ PeerInv(s) /\ m.type = "Accept" /\ m.N = os[s].PromisedRnd
      /\ state[s].phase = ACCEPT
  BY DEF IInv, AcceptHandler, AcceptGuard, In
<1>2. os'[s] = [os[s] EXCEPT !.Log = Append(os[s].Log, m.C)] /\ \A t \in Server \ {s} : os'[t] = os[t]
  BY ZenonT(40), <1>1 DEF TypeOK, AcceptHandler
<1>3. /\ os'[s].L = os[s].L /\ os'[s].PromisedRnd = os[s].PromisedRnd
      /\ os'[s].AcceptedRnd = os[s].AcceptedRnd /\ os'[s].DecidedIdx = os[s].DecidedIdx
  BY ZenonT(40), <1>1, <1>2, PeerTypes DEF LogState
<1>4. disk' = os'
  BY ZenonT(40), <1>2, SavedKept DEF AcceptHandler
<1>5. \A t \in Server : Kept(t)
  BY ZenonT(40), <1>1, <1>2, <1>3 DEF AcceptHandler, TypeOK, Kept, leaderVars
<1>6. Leq(os[s].L, os'[s].L) /\ os[s].DecidedIdx <= os'[s].DecidedIdx
  BY <1>1, <1>3, PeerTypes, LeqRefl
<1>7. Added(net', s, Kind("Accepted", m.N))
  BY ZenonT(40), <1>1, AcceptHandlerSends
<1>8. Grown => m.N \in Ballot /\ Leq(m.N, os'[m.N.Pid].L)
  BY ZenonT(40), <1>1, RoundOwned DEF RoundMessage
<1>9. Leq(m.N, os'[s].AcceptedRnd)
  BY ZenonT(40), <1>1, <1>3, LeqRefl, PeerTypes DEF PeerInv, RoundState
<1> HIDE DEF m
<1>10. Grown => \A x \in Kind("Accepted", m.N) : MessageInv(s, x)'
  <2>1. \A n \in Ballot : Leq(n, os'[n.Pid].L) /\ Leq(n, os'[s].AcceptedRnd) =>
          \A x \in Kind("Accepted", n) : MessageInv(s, x)'
    BY ZenonT(40), KindInv
  <2> QED BY ZenonT(40), <1>8, <1>9, <2>1
<1> QED BY Zenon, <1>2, <1>4, <1>5, <1>6, <1>7, <1>10, QuietStep

\* DecideHandler only moves DecidedIdx forward, and keeps the invariant.
LEMMA DecideHandlerInv ==
  ASSUME IInv, TypeOK', NEW src \in Server, NEW s \in Server, NEW i \in Deliverable(src, s),
         DecideHandler(src, s, i)
  PROVE  IInv' /\ Grown
<1> DEFINE m == net[src][s][i]
<1>1. TypeOK /\ os[s].DecidedIdx < m.DecIdx /\ m.DecIdx \in Nat
  BY ZenonT(40), Taken, MessageFields DEF IInv, DecideHandler, DecideGuard
<1>2. os'[s] = [os[s] EXCEPT !.DecidedIdx = m.DecIdx] /\ \A t \in Server \ {s} : os'[t] = os[t]
  BY ZenonT(40), <1>1 DEF TypeOK, DecideHandler
<1>3. /\ os'[s].L = os[s].L /\ os'[s].PromisedRnd = os[s].PromisedRnd
      /\ os'[s].AcceptedRnd = os[s].AcceptedRnd /\ os'[s].DecidedIdx = m.DecIdx
  BY ZenonT(40), <1>1, <1>2, PeerTypes DEF LogState
<1>4. disk' = os'
  BY ZenonT(40), <1>2, SavedKept DEF DecideHandler
<1>5. \A t \in Server : Kept(t)
  BY ZenonT(40), <1>1, <1>2, <1>3 DEF DecideHandler, TypeOK, Kept, leaderVars
<1>6. Leq(os[s].L, os'[s].L) /\ os[s].DecidedIdx <= os'[s].DecidedIdx
  BY SMTT(30), <1>1, <1>3, PeerTypes, LeqRefl
<1>7. Added(net', s, {})
  BY ZenonT(40), <1>1, Taken, ShrunkAdds DEF DecideHandler
<1> QED BY ZenonT(40), <1>2, <1>4, <1>5, <1>6, <1>7, QuietStep

\* Requests without a round, buffered commands and dropped RPCs keep the
\* invariant.
LEMMA SignalInv ==
  ASSUME IInv, TypeOK', NEW s \in Server,
         \/ AskForPrepare(s)
         \/ \E p \in Server : LinkReconnected(s, p)
         \/ \E src \in Server : \E i \in Deliverable(src, s) :
              ReconnectedHandler(src, s, i) \/ PrepareReqHandler(src, s, i) \/ Discard(src, s, i)
         \/ \E c \in Command : ProposeBuffer(s, c)
  PROVE  IInv' /\ Grown
<1>1. TypeOK /\ os[s].L \in Ballot /\ os[s].DecidedIdx \in Nat /\ currentRnd[s] \in Ballot
  BY ZenonT(40), PeerTypes DEF IInv
<1>2. os' = os /\ disk' = disk
  BY ZenonT(40) DEF AskForPrepare, LinkReconnected, ReconnectedHandler, PrepareReqHandler, Discard,
         ProposeBuffer
<1>3. \A t \in Server : currentRnd'[t] = currentRnd[t] /\ promises'[t] = promises[t]
                        /\ accepted'[t] = accepted[t]
  BY ZenonT(40) DEF AskForPrepare, LinkReconnected, ReconnectedHandler, PrepareReqHandler, Discard,
         ProposeBuffer, leaderVars
<1>4. \A t \in Server : \/ state'[t] = state[t]
                        \/ state'[t].role = FOLLOWER /\ state'[t].phase \in {state[t].phase, RECOVER}
  <2>1. \/ state' = state
        \/ state' = [state EXCEPT ![s] = [role |-> FOLLOWER, phase |-> RECOVER]]
    BY ZenonT(40) DEF AskForPrepare, LinkReconnected, ReconnectedHandler, PrepareReqHandler, Discard,
           ProposeBuffer
  <2>2. \/ \A t \in Server : state'[t] = state[t]
        \/ /\ \A t \in Server \ {s} : state'[t] = state[t]
           /\ state'[s] = [role |-> FOLLOWER, phase |-> RECOVER]
    BY ZenonT(40), <1>1, <2>1 DEF TypeOK
  <2>3. state'[s] = [role |-> FOLLOWER, phase |-> RECOVER]
          => state'[s].role = FOLLOWER /\ state'[s].phase = RECOVER
    OBVIOUS
  <2> QED BY ZenonT(40), <2>2, <2>3
<1>5. disk' = os' /\ \A t \in Server : Kept(t)
  BY ZenonT(40), <1>2, <1>3, <1>4 DEF IInv, Kept
<1>6. Leq(os[s].L, os'[s].L) /\ os[s].DecidedIdx <= os'[s].DecidedIdx
  BY <1>1, <1>2, LeqRefl
<1>7. CASE Added(net', s, {PrepareReqMsg}) \/ Added(net', s, {ReconnectedMsg})
  <2>1. \A m \in {PrepareReqMsg, ReconnectedMsg} : MessageInv(s, m)'
    BY DEF PrepareReqMsg, ReconnectedMsg, MessageInv, RoundMessage
  <2> QED BY ZenonT(40), <1>2, <1>5, <1>6, <1>7, <2>1, QuietStep
<1>8. CASE Added(net', s, {})
  BY ZenonT(40), <1>2, <1>5, <1>6, <1>8, QuietStep
<1>9. CASE Added(net', s, Kind("Prepare", currentRnd[s]))
  <2>1. Grown => Leq(currentRnd[s], os'[currentRnd[s].Pid].L)
    BY ZenonT(40), RoundOwned
  <2>2. \A n \in Ballot : Leq(n, os'[n.Pid].L) => \A m \in Kind("Prepare", n) : MessageInv(s, m)'
    BY ZenonT(40), KindInv
  <2>3. Grown => \A m \in Kind("Prepare", currentRnd[s]) : MessageInv(s, m)'
    BY ZenonT(40), <1>1, <2>1, <2>2
  <2> QED BY ZenonT(40), <1>2, <1>5, <1>6, <1>9, <2>3, QuietStep
<1>10. \/ Added(net', s, {PrepareReqMsg}) \/ Added(net', s, {ReconnectedMsg})
       \/ Added(net', s, {}) \/ Added(net', s, Kind("Prepare", currentRnd[s]))
  <2>1. \A c \in Command : ProposeBuffer(s, c) => Added(net', s, {})
    <3>1. Added(net, s, {})
      BY ZenonT(40), <1>1, NetAdds
    <3> QED BY Zenon, <3>1 DEF ProposeBuffer
  <2>2. \A src \in Server : \A i \in Deliverable(src, s) :
           /\ Discard(src, s, i) => Added(net', s, {})
           /\ PrepareReqHandler(src, s, i) => Added(net', s, Kind("Prepare", currentRnd[s]))
    BY ZenonT(40), <1>1, Taken, ShrunkAdds, PrepareReqHandlerSends DEF Discard
  <2> QED BY ZenonT(40), <1>1, <2>1, <2>2, SignalSends
<1> QED BY ZenonT(40), <1>7, <1>8, <1>9, <1>10

\* A promise is on disk before it is answered.
LEMMA PrepareHandlerInv ==
  ASSUME IInv, TypeOK', NEW src \in Server, NEW s \in Server, NEW i \in Deliverable(src, s),
         PrepareHandler(src, s, i)
  PROVE  IInv' /\ Grown
<1> DEFINE m == net[src][s][i]
<1>1. /\ TypeOK /\ PeerInv(s) /\ m.type = "Prepare" /\ Leq(os[s].PromisedRnd, m.N)
      /\ m.N \in Ballot
  BY ZenonT(40), Taken, MessageFields DEF IInv, PrepareHandler, PrepareGuard
<1>2. os'[s] = [os[s] EXCEPT !.PromisedRnd = m.N] /\ \A t \in Server \ {s} : os'[t] = os[t]
  BY ZenonT(40), <1>1 DEF TypeOK, PrepareHandler
<1>3. /\ os'[s].L = os[s].L /\ os'[s].PromisedRnd = m.N
      /\ os'[s].AcceptedRnd = os[s].AcceptedRnd /\ os'[s].DecidedIdx = os[s].DecidedIdx
  BY ZenonT(40), <1>1, <1>2, PeerTypes DEF LogState
<1>4. disk' = os'
  BY ZenonT(40), <1>2, SavedKept DEF PrepareHandler
<1>5. Grown
  <2>1. /\ Leq(os[s].L, os'[s].L) /\ Leq(os[s].PromisedRnd, os'[s].PromisedRnd)
        /\ Leq(os[s].AcceptedRnd, os'[s].AcceptedRnd) /\ os[s].DecidedIdx <= os'[s].DecidedIdx
    BY <1>1, <1>3, LeqRefl, PeerTypes
  <2> QED BY ZenonT(40), <1>1, <1>2, <2>1, GrownAt
<1>6. \A t \in Server \ {s} : Kept(t)
  BY ZenonT(40), <1>1, <1>2 DEF PrepareHandler, TypeOK, Kept, leaderVars
<1>7. /\ state'[s] = [role |-> FOLLOWER, phase |-> PREPARE]
      /\ currentRnd'[s] = currentRnd[s] /\ promises'[s] = promises[s]
  BY ZenonT(40), <1>1 DEF PrepareHandler, TypeOK, leaderVars
<1>8. m.N \in Ballot /\ Leq(m.N, os'[m.N.Pid].L)
  BY ZenonT(40), <1>1, <1>5, RoundOwned DEF RoundMessage
<1>9. Added(net', s, Kind("Promise", m.N))
  BY ZenonT(40), <1>1, PrepareHandlerSends
<1> HIDE DEF m
<1>10. PeerInv(s)'
  <2>1. \A r \in Ballot : Owned(r) => Leq(r, os'[r.Pid].L)
    BY ZenonT(40), <1>1, <1>5, OwnedKept DEF Owned
  <2>2. Leq(os[s].AcceptedRnd, os[s].PromisedRnd)'
    BY ZenonT(40), <1>1, <1>3, PeerTypes, LeqTrans DEF PeerInv
  <2>3. Owned(os[s].PromisedRnd)' /\ Owned(os[s].AcceptedRnd)' /\ Owned(currentRnd[s])'
    BY ZenonT(40), <1>1, <1>3, <1>7, <1>8, <2>1, PeerTypes DEF PeerInv, Owned
  <2>4. RoundState(s)'
    BY <1>7 DEF RoundState, LEADER, FOLLOWER, PREPARE, ACCEPT
  <2>5. \A f \in DOMAIN promises'[s] : Leq(currentRnd'[s], os'[f].PromisedRnd)
    BY ZenonT(40), <1>1, <1>5, <1>7, PeerTypes, AtLeastKept DEF PeerInv, Counted
  <2> QED BY <1>7, <2>2, <2>3, <2>4, <2>5 DEF PeerInv, Counted, LEADER, FOLLOWER
<1>11. \A x \in Kind("Promise", m.N) : MessageInv(s, x)'
  <2>1. \A n \in Ballot : Leq(n, os'[n.Pid].L) /\ Leq(n, os'[s].PromisedRnd) =>
          \A x \in Kind("Promise", n) : MessageInv(s, x)'
    BY ZenonT(40), KindInv
  <2> QED BY ZenonT(40), <1>3, <1>8, <2>1, LeqRefl
<1> QED BY ZenonT(40), <1>4, <1>5, <1>6, <1>9, <1>10, <1>11, StepInv DEF Step

\* An acceptance is on disk before it is acknowledged.
LEMMA AcceptSyncHandlerInv ==
  ASSUME IInv, TypeOK', NEW src \in Server, NEW s \in Server, NEW i \in Deliverable(src, s),
         AcceptSyncHandler(src, s, i)
  PROVE  IInv' /\ Grown
<1> DEFINE m == net[src][s][i]
           log == Prefix(os[s].Log, m.SyncIdx) \o m.Sfx
<1>1. /\ TypeOK /\ PeerInv(s) /\ m.type = "AcceptSync" /\ m.N = os[s].PromisedRnd
      /\ m.N \in Ballot
  BY ZenonT(40), Taken, MessageFields DEF IInv, AcceptSyncHandler, AcceptSyncGuard
<1>2. /\ os'[s] = [os[s] EXCEPT !.AcceptedRnd = m.N, !.Log = log]
      /\ \A t \in Server \ {s} : os'[t] = os[t]
  BY ZenonT(40), <1>1 DEF TypeOK, AcceptSyncHandler
<1>3. /\ os'[s].L = os[s].L /\ os'[s].PromisedRnd = os[s].PromisedRnd
      /\ os'[s].AcceptedRnd = m.N /\ os'[s].DecidedIdx = os[s].DecidedIdx
  BY ZenonT(40), <1>1, <1>2, PeerTypes DEF LogState
<1>4. disk' = os'
  BY ZenonT(40), <1>2, SavedKept DEF AcceptSyncHandler
<1>5. Grown
  <2>1. /\ Leq(os[s].L, os'[s].L) /\ Leq(os[s].PromisedRnd, os'[s].PromisedRnd)
        /\ Leq(os[s].AcceptedRnd, os'[s].AcceptedRnd) /\ os[s].DecidedIdx <= os'[s].DecidedIdx
    BY <1>1, <1>3, LeqRefl, PeerTypes DEF PeerInv
  <2> QED BY ZenonT(40), <1>1, <1>2, <2>1, GrownAt
<1>6. \A t \in Server \ {s} : Kept(t)
  BY ZenonT(40), <1>1, <1>2 DEF AcceptSyncHandler, TypeOK, Kept, leaderVars
<1>7. /\ state'[s] = [role |-> FOLLOWER, phase |-> ACCEPT]
      /\ currentRnd'[s] = currentRnd[s] /\ promises'[s] = promises[s]
  BY ZenonT(40), <1>1 DEF AcceptSyncHandler, TypeOK, leaderVars
<1>8. m.N \in Ballot /\ Leq(m.N, os'[m.N.Pid].L)
  BY ZenonT(40), <1>1, <1>5, RoundOwned DEF RoundMessage
<1>9. Added(net', s, Kind("Accepted", m.N))
  BY ZenonT(40), <1>1, AcceptSyncHandlerSends
<1> HIDE DEF m
<1>10. PeerInv(s)'
  <2>1. \A r \in Ballot : Owned(r) => Leq(r, os'[r.Pid].L)
    BY ZenonT(40), <1>1, <1>5, OwnedKept DEF Owned
  <2>2. Leq(os[s].AcceptedRnd, os[s].PromisedRnd)'
    BY ZenonT(40), <1>1, <1>3, LeqRefl
  <2>3. Owned(os[s].PromisedRnd)' /\ Owned(os[s].AcceptedRnd)' /\ Owned(currentRnd[s])'
    BY ZenonT(40), <1>1, <1>3, <1>7, <1>8, <2>1, PeerTypes DEF PeerInv, Owned
  <2>4. RoundState(s)'
    BY <1>1, <1>3, <1>7 DEF RoundState, LEADER, FOLLOWER
  <2>5. \A f \in DOMAIN promises'[s] : Leq(currentRnd'[s], os'[f].PromisedRnd)
    BY ZenonT(40), <1>1, <1>5, <1>7, PeerTypes, AtLeastKept DEF PeerInv, Counted
  <2> QED BY <1>7, <2>2, <2>3, <2>4, <2>5 DEF PeerInv, Counted, LEADER, FOLLOWER
<1>11. \A x \in Kind("Accepted", m.N) : MessageInv(s, x)'
  <2>1. \A n \in Ballot : Leq(n, os'[n.Pid].L) /\ Leq(n, os'[s].AcceptedRnd) =>
          \A x \in Kind("Accepted", n) : MessageInv(s, x)'
    BY ZenonT(40), KindInv
  <2> QED BY ZenonT(40), <1>3, <1>8, <2>1, LeqRefl
<1> QED BY ZenonT(40), <1>4, <1>5, <1>6, <1>9, <1>10, <1>11, StepInv DEF Step
=============================================================================
