---------------------------- MODULE DispatchProofs ----------------------------
(***************************************************************************)
(* Proofs about Dispatch, for any verdicts, outbounds, number of chunks    *)
(* and deadline: its type invariant, and that sniffing keeps the stream of *)
(* the client whole for the readers cachedReader is meant for.             *)
(***************************************************************************)
EXTENDS Dispatch, SequenceTheorems, TLAPS

Chunks == 1..MaxChunks

\* Before the limiter has answered, whatever it is going to answer, nothing has
\* been read.
StreamInv == pc = "link" \/ Reader # "TimeoutReader" => Whole

\* Two rounds without a clue end the sniffing.
TypeInv == TypeOK /\ (pc \in {"sniff", "look"} => attempts < 2)

DispatchInv == TypeInv /\ StreamInv
-----------------------------------------------------------------------------
(* Sequences that are cut and joined. *)

LEMMA Taken ==
  ASSUME NEW S, NEW s \in Seq(S), NEW n \in 1..Len(s)
  PROVE  /\ SubSeq(s, 1, n) \in Seq(S)
         /\ SubSeq(s, n + 1, Len(s)) \in Seq(S)
         /\ SubSeq(s, 1, n) \o SubSeq(s, n + 1, Len(s)) = s
<1>1. Len(s) \in Nat /\ \A i \in 1..Len(s) : s[i] \in S
  BY LenProperties, ElementOfSeq
<1>2. SubSeq(s, 1, n) \in Seq(S)
  BY <1>1, SubSeqProperties
<1>3. SubSeq(s, n + 1, Len(s)) \in Seq(S)
  BY <1>1, SubSeqProperties
<1>4. SubSeq(s, 1, n) \o SubSeq(s, n + 1, Len(s)) = SubSeq(s, 1, Len(s))
  BY <1>1, ConcatAdjacentSubSeq
<1> QED BY <1>2, <1>3, <1>4, SubSeqFull

\* \o by a name, for the lemmas to be about.
Join(s, t) == s \o t

\* The first chunks of the client.
First(n) == [i \in 1..n |-> i]

LEMMA JoinType ==
  ASSUME NEW S, NEW s \in Seq(S), NEW t \in Seq(S)
  PROVE  Join(s, t) \in Seq(S)
  BY DEF Join

LEMMA Associative ==
  ASSUME NEW S, NEW r \in Seq(S), NEW s \in Seq(S), NEW t \in Seq(S)
  PROVE  Join(Join(r, s), t) = Join(r, Join(s, t))
<1> DEFINE left == (r \o s) \o t
<1> DEFINE right == r \o (s \o t)
<1>1. left \in Seq(S) /\ right \in Seq(S)
  OBVIOUS
<1>2. Len(left) = Len(right)
  OBVIOUS
<1>3. \A i \in 1..Len(left) : left[i] = right[i]
  OBVIOUS
<1> HIDE DEF left, right
<1>4. left = right
  BY <1>1, <1>2, <1>3, SeqEqual
<1> QED BY <1>4 DEF left, right, Join

\* What is taken from the third part and put behind the second.
LEMMA Joined ==
  ASSUME NEW S, NEW r \in Seq(S), NEW s \in Seq(S), NEW t \in Seq(S), NEW n \in 1..Len(t)
  PROVE  Join(Join(r, Join(s, SubSeq(t, 1, n))), SubSeq(t, n + 1, Len(t))) = Join(Join(r, s), t)
<1> DEFINE a == SubSeq(t, 1, n)
<1> DEFINE b == SubSeq(t, n + 1, Len(t))
<1>1. a \in Seq(S) /\ b \in Seq(S) /\ Join(a, b) = t
  BY Taken DEF Join
<1> HIDE DEF a, b
<1>2. Join(r, Join(s, a)) = Join(Join(r, s), a)
  BY <1>1, Associative
<1>3. Join(Join(Join(r, s), a), b) = Join(Join(r, s), Join(a, b))
  BY <1>1, JoinType, Associative
<1>4. Join(Join(r, Join(s, a)), b) = Join(Join(r, s), t)
  BY <1>1, <1>2, <1>3
<1> QED BY <1>4 DEF a, b

\* The next number comes last.
LEMMA Numbered ==
  ASSUME NEW n \in Nat, NEW S, \A i \in 1..n + 1 : i \in S,
         NEW s \in Seq(S), NEW t \in Seq(S), Join(s, t) = First(n),
         NEW v, v = Append(t, n + 1)
  PROVE  Join(s, v) = First(n + 1)
<1> DEFINE last == <<n + 1>>
<1>1. last \in Seq(S) /\ n + 1 \in S
  OBVIOUS
<1>2. v = Join(t, last)
  BY <1>1, AppendIsConcat DEF Join
<1> DEFINE u == Join(s, t)
<1>3. u \in Seq(S) /\ u = [i \in 1..n |-> i]
  BY JoinType DEF First
<1>4. Append(u, n + 1) = Join(u, last)
  BY <1>1, <1>3, AppendIsConcat DEF Join
<1> HIDE DEF last
<1>5. Join(s, Join(t, last)) = Join(u, last)
  BY <1>1, Associative
<1> HIDE DEF u
<1>6. Len(u) = n
  BY <1>3, LenProperties
<1>7. /\ Append(u, n + 1) \in Seq(S) /\ Len(Append(u, n + 1)) = n + 1
      /\ \A i \in 1..n : Append(u, n + 1)[i] = i
      /\ Append(u, n + 1)[n + 1] = n + 1
  BY <1>1, <1>3, <1>6, AppendProperties
<1>8. Append(u, n + 1) = First(n + 1)
  BY <1>7, LenProperties DEF First
<1> QED BY <1>2, <1>4, <1>5, <1>8, Zenon
-----------------------------------------------------------------------------
(* The type invariant. *)

LEMMA TypeInit == Init => TypeInv
<1> SUFFICES ASSUME Init PROVE TypeInv
  OBVIOUS
<1>1. <<>> \in Seq(Chunks)
  OBVIOUS
<1>2. {pipe, cache, dropped, got} \subseteq Seq(Chunks)
  BY <1>1 DEF Init
<1>3. /\ sent \in 0..MaxChunks /\ deadline \in 0..Deadline /\ attempts \in 0..2
      /\ handlers \subseteq Outs
  BY DispatchAssumption DEF Init
<1> QED BY <1>2, <1>3 DEF Init, TypeInv, TypeOK, Chunks

\* What is taken and what stays are chunks.
LEMMA TakeType ==
  ASSUME NEW n, TypeOK, Take(n)
  PROVE  /\ SubSeq(pipe, 1, n) \in Seq(Chunks) /\ pipe' \in Seq(Chunks)
         /\ n \in 1..Len(pipe) /\ pipe' = SubSeq(pipe, n + 1, Len(pipe))
<1>1. pipe \in Seq(Chunks) /\ n \in 1..Len(pipe)
  BY DEF TypeOK, Take, Chunks
<1> QED BY <1>1, Taken DEF Take

LEMMA TypeNext == TypeInv /\ [Next]_vars => TypeInv'
<1> SUFFICES ASSUME TypeInv, [Next]_vars PROVE TypeInv'
  OBVIOUS
<1> USE DispatchAssumption
<1>0. TypeOK /\ {pipe, cache, dropped, got} \subseteq Seq(Chunks) /\ <<>> \in Seq(Chunks)
  BY DEF TypeInv, TypeOK, Chunks
<1>1. CASE Send
  <2>1. sent + 1 \in Chunks
    BY <1>1 DEF Send, TypeInv, TypeOK, Chunks
  <2>2. pipe' \in Seq(Chunks)
    BY <1>0, <1>1, <2>1, AppendProperties DEF Send
  <2> QED BY <1>1, <2>1, <2>2 DEF Send, TypeInv, TypeOK, Chunks, config, sniff, routing
<1>2. CASE Leave
  <2>1. eof' \in BOOLEAN /\ cancelled' \in BOOLEAN
    BY <1>0, <1>2, Zenon DEF Leave, TypeOK
  <2> QED BY <1>2, <2>1 DEF Leave, TypeInv, TypeOK, config, stream, sniff, routing
<1>3. CASE Reconfigure
  BY <1>3 DEF Reconfigure, TypeInv, TypeOK, config, client, stream, sniff, routing
<1>4. CASE GetLink
  BY <1>4 DEF GetLink, Close, TypeInv, TypeOK, config, client, stream, sniff
<1>5. CASE SniffMetadata
  BY <1>5 DEF SniffMetadata, TypeInv, TypeOK, config, client, stream, routing
<1>6. CASE CacheData
  <2>1. PICK n \in 1..MaxChunks : Take(n) /\ cache' = cache \o SubSeq(pipe, 1, n)
    BY <1>6 DEF CacheData
  <2>2. cache' \in Seq(Chunks) /\ pipe' \in Seq(Chunks)
    BY <1>0, <2>1, TakeType, ConcatProperties
  <2> QED BY <1>6, <2>2 DEF CacheData, TypeInv, TypeOK, Chunks, config, client, routing
<1>7. CASE CacheLimited
  <2>1. PICK n \in 1..MaxChunks : Take(n) /\ dropped' = dropped \o SubSeq(pipe, 1, n)
    BY <1>7 DEF CacheLimited
  <2>2. dropped' \in Seq(Chunks) /\ pipe' \in Seq(Chunks)
    BY <1>0, <2>1, TakeType, ConcatProperties
  <2> QED BY <1>7, <2>2 DEF CacheLimited, TypeInv, TypeOK, Chunks, config, client, sniff, routing
<1>8. CASE CacheTimeout
  BY <1>8 DEF CacheTimeout, TypeInv, TypeOK, config, client, stream, routing
<1>9. CASE CacheEnds
  BY <1>9 DEF CacheEnds, TypeInv, TypeOK, config, client, stream, sniff, routing
<1>10. CASE Look
  BY <1>10 DEF Look, Again, TypeInv, TypeOK, config, client, stream, routing
<1>11. CASE Decide
  BY <1>11 DEF Decide, TypeInv, TypeOK, config, client, stream, sniff, routing
<1>12. CASE Override
  BY <1>12 DEF Override, TypeInv, TypeOK, config, client, stream, routing
<1>13. CASE PickRoute
  BY <1>13 DEF PickRoute, TypeInv, TypeOK, config, client, stream, sniff
<1>14. CASE GetHandler
  BY <1>14 DEF GetHandler, Close, TypeInv, TypeOK, config, client, stream, sniff
<1>15. CASE Read
  <2>1. CASE cache # <<>> /\ got' = got \o cache /\ cache' = <<>> /\ UNCHANGED pipe
    <3>1. got' \in Seq(Chunks)
      BY <1>0, <2>1, ConcatProperties
    <3> QED BY <1>0, <1>15, <2>1, <3>1 DEF Read, TypeInv, TypeOK, Chunks, config, client, sniff, routing
  <2>2. CASE \E n \in 1..MaxChunks :
               Take(n) /\ got' = got \o SubSeq(pipe, 1, n) /\ UNCHANGED cache
    <3>1. got' \in Seq(Chunks) /\ pipe' \in Seq(Chunks)
      BY <1>0, <2>2, TakeType, ConcatProperties
    <3> QED BY <1>15, <2>2, <3>1 DEF Read, TypeInv, TypeOK, Chunks, config, client, sniff, routing
  <2> QED BY <1>15, <2>1, <2>2 DEF Read
<1>16. CASE ReadLimited
  <2>1. PICK n \in 1..MaxChunks : Take(n) /\ dropped' = dropped \o SubSeq(pipe, 1, n)
    BY <1>16 DEF ReadLimited
  <2>2. dropped' \in Seq(Chunks) /\ pipe' \in Seq(Chunks)
    BY <1>0, <2>1, TakeType, ConcatProperties
  <2> QED BY <1>16, <2>2 DEF ReadLimited, Close, TypeInv, TypeOK, Chunks, config, client, sniff
<1>17. CASE End
  BY <1>0, <1>17 DEF End, Close, TypeInv, TypeOK, Chunks, config, client, sniff
<1>18. CASE UNCHANGED vars
  BY <1>18 DEF TypeInv, TypeOK, vars, config, client, stream, sniff, routing
<1> QED BY <1>1, <1>2, <1>3, <1>4, <1>5, <1>6, <1>7, <1>8, <1>9, <1>10, <1>11, <1>12,
           <1>13, <1>14, <1>15, <1>16, <1>17, <1>18 DEF Next, Settle

\* Every variable has its type and a link is closed when its call is over (Dispatch,
\* DispatchLink, sniffer, routedDispatch).
THEOREM TypeCorrect == Spec => []TypeOK
<1>1. TypeInv => TypeOK
  BY DEF TypeInv
<1> QED BY <1>1, TypeInit, TypeNext, PTL DEF Spec
-----------------------------------------------------------------------------
(* The stream. *)

LEMMA StreamInit == Init => StreamInv
<1> SUFFICES ASSUME Init PROVE Whole
  BY DEF StreamInv
<1>1. <<>> \o <<>> \o <<>> = [i \in 1..0 |-> i]
  OBVIOUS
<1> QED BY <1>1 DEF Init, Whole

\* A step that leaves the client and the stream alone, and opens no link.
LEMMA StreamStays ==
  ASSUME StreamInv, UNCHANGED <<sent, pipe, cache, got>>, link' = "open" => link = "open",
         pc' = "link" \/ Reader' # "TimeoutReader" => pc = "link" \/ Reader # "TimeoutReader"
  PROVE  StreamInv'
<1>1. Whole => Whole'
  BY DEF Whole
<1> QED BY <1>1 DEF StreamInv

LEMMA StreamNext == DispatchInv /\ [Next]_vars => StreamInv'
<1> SUFFICES ASSUME DispatchInv, [Next]_vars PROVE StreamInv'
  OBVIOUS
<1>0. {pipe, cache, got} \subseteq Seq(Chunks) /\ TypeOK /\ StreamInv
  BY DEF DispatchInv, TypeInv, TypeOK, Chunks
<1>1. CASE Send
  <2> SUFFICES ASSUME Whole PROVE Whole'
    BY <1>0, <1>1 DEF StreamInv, Send, Reader, config
  <2>1. /\ link = "open" /\ sent \in Nat /\ sent' = sent + 1 /\ pipe' = Append(pipe, sent + 1)
        /\ UNCHANGED <<cache, got, link>> /\ \A i \in 1..sent + 1 : i \in Chunks
    BY <1>0, <1>1, DispatchAssumption DEF Send, routing, TypeOK, Chunks
  <2>2. Join(Join(got, cache), pipe) = First(sent)
    BY <2>1, Zenon DEF Whole, Join, First
  <2>3. Join(got, cache) \in Seq(Chunks)
    BY <1>0, JoinType
  <2>4. Join(Join(got, cache), pipe') = First(sent + 1)
    BY <1>0, <2>1, <2>2, <2>3, Numbered
  <2> QED BY <2>1, <2>4, Zenon DEF Whole, Join, First
<1>2. CASE Leave
  BY <1>0, <1>2, StreamStays DEF Leave, config, stream, sniff, routing, Reader
<1>3. CASE Reconfigure
  BY <1>0, <1>3, StreamStays DEF Reconfigure, config, client, stream, routing, Reader
<1>4. CASE GetLink
  BY <1>0, <1>4, StreamStays DEF GetLink, Close, client, stream
<1>5. CASE SniffMetadata
  BY <1>0, <1>5, StreamStays DEF SniffMetadata, config, client, stream, routing, Reader
<1>6. CASE CacheData
  <2>1. PICK n \in 1..MaxChunks : Take(n) /\ cache' = cache \o SubSeq(pipe, 1, n)
    BY <1>6 DEF CacheData
  <2>2. /\ UNCHANGED <<path, verdict, sent, got, link>> /\ pc = "sniff" /\ pc' = "look"
    BY <1>6 DEF CacheData, config, client, routing
  <2> SUFFICES ASSUME Whole PROVE Whole'
    BY <1>0, <2>2 DEF StreamInv, Reader
  <2>3. /\ pipe' = SubSeq(pipe, n + 1, Len(pipe)) /\ n \in 1..Len(pipe)
    BY <1>0, <2>1, TakeType
  <2>4. Join(Join(got, Join(cache, SubSeq(pipe, 1, n))), SubSeq(pipe, n + 1, Len(pipe)))
          = Join(Join(got, cache), pipe)
    BY <1>0, <2>3, Joined
  <2>5. (got' \o cache') \o pipe' = (got \o cache) \o pipe
    BY <2>1, <2>2, <2>3, <2>4, Zenon DEF Join
  <2> QED BY <2>2, <2>5 DEF Whole
<1>7. CASE CacheLimited
  BY <1>7 DEF CacheLimited, config, routing, StreamInv, Reader
<1>8. CASE CacheTimeout
  BY <1>0, <1>8, StreamStays DEF CacheTimeout, config, client, stream, routing, Reader
<1>9. CASE CacheEnds
  BY <1>0, <1>9, StreamStays DEF CacheEnds, config, client, stream, routing, Reader
<1>10. CASE Look
  BY <1>0, <1>10, StreamStays DEF Look, Again, config, client, stream, routing, Reader
<1>11. CASE Decide
  BY <1>0, <1>11, StreamStays DEF Decide, config, client, stream, routing, Reader
<1>12. CASE Override
  BY <1>0, <1>12, StreamStays DEF Override, config, client, stream, routing, Reader
<1>13. CASE PickRoute
  BY <1>0, <1>13, StreamStays DEF PickRoute, config, client, stream, Reader
<1>14. CASE GetHandler
  BY <1>0, <1>14, StreamStays DEF GetHandler, Close, config, client, stream, Reader
<1>15. CASE Read
  <2>1. UNCHANGED <<path, verdict, sent, link>> /\ pc = "dispatch" /\ pc' = "dispatch"
    BY <1>15 DEF Read, config, client, routing
  <2> SUFFICES ASSUME Whole PROVE (got' \o cache') \o pipe' = (got \o cache) \o pipe
    BY <1>0, <2>1 DEF StreamInv, Reader, Whole
  <2>2. CASE cache # <<>> /\ got' = got \o cache /\ cache' = <<>> /\ UNCHANGED pipe
    <3>1. got \o cache \in Seq(Chunks)
      BY <1>0, ConcatProperties
    <3>2. (got \o cache) \o <<>> = got \o cache
      BY <3>1, ConcatEmptySeq
    <3> QED BY <2>2, <3>2, Zenon
  <2>3. CASE cache = <<>> /\ UNCHANGED cache /\ \E n \in 1..MaxChunks :
               Take(n) /\ got' = got \o SubSeq(pipe, 1, n)
    <3>1. PICK n \in 1..MaxChunks : Take(n) /\ got' = got \o SubSeq(pipe, 1, n)
      BY <2>3
    <3>2. /\ SubSeq(pipe, 1, n) \in Seq(Chunks) /\ n \in 1..Len(pipe)
          /\ pipe' = SubSeq(pipe, n + 1, Len(pipe))
      BY <1>0, <3>1, TakeType
    <3>3. Join(Join(got, Join(cache, SubSeq(pipe, 1, n))), SubSeq(pipe, n + 1, Len(pipe)))
            = Join(Join(got, cache), pipe)
      BY <1>0, <3>2, Joined
    <3>4. <<>> \o SubSeq(pipe, 1, n) = SubSeq(pipe, 1, n)
      BY <3>2, ConcatEmptySeq
    <3>5. got \o SubSeq(pipe, 1, n) \in Seq(Chunks)
      BY <1>0, <3>2, ConcatProperties
    <3>6. (got \o SubSeq(pipe, 1, n)) \o <<>> = got \o SubSeq(pipe, 1, n)
      BY <3>5, ConcatEmptySeq
    <3> QED BY <2>3, <3>1, <3>2, <3>3, <3>4, <3>6, Zenon DEF Join
  <2> QED BY <1>15, <2>2, <2>3 DEF Read
<1>16. CASE ReadLimited
  BY <1>16 DEF ReadLimited, Close, StreamInv, Whole
<1>17. CASE End
  BY <1>17 DEF End, Close, StreamInv, Whole
<1>18. CASE UNCHANGED vars
  BY <1>0, <1>18, StreamStays DEF vars, config, client, stream, routing, Reader
<1> QED BY <1>1, <1>2, <1>3, <1>4, <1>5, <1>6, <1>7, <1>8, <1>9, <1>10, <1>11, <1>12,
           <1>13, <1>14, <1>15, <1>16, <1>17, <1>18 DEF Next, Settle

\* Sniffing reads ahead without losing, doubling or reordering a chunk of the client,
\* however it ends and however long it takes (cachedReader, sniffer).
THEOREM SniffingKeepsStream == Spec => []StreamKept
<1>1. Init => DispatchInv
  BY TypeInit, StreamInit DEF DispatchInv
<1>2. DispatchInv /\ [Next]_vars => DispatchInv'
  BY TypeNext, StreamNext DEF DispatchInv
<1>3. DispatchInv => StreamKept
  BY DEF DispatchInv, StreamInv, StreamKept
<1> QED BY <1>1, <1>2, <1>3, PTL DEF Spec
=============================================================================
