------------------------------- MODULE Dispatch -------------------------------
(***************************************************************************)
(* One connection in the dispatcher (app/dispatcher/default.go): Dispatch  *)
(* with a link of its own (getLink) or DispatchLink with that of the       *)
(* inbound (WrapLink), the sniffer reading ahead of the handler through    *)
(* cachedReader, and routedDispatch, while the client sends and the        *)
(* controller adds and removes outbounds.                                  *)
(*                                                                         *)
(* Abstractions.  What the client sends are chunks, numbered as they come. *)
(* What the sniffers make of them is any of their answers, and so is what  *)
(* shouldOverride makes of that.  Time is what is left of the deadline.    *)
(***************************************************************************)
EXTENDS Naturals, Sequences

CONSTANTS
  Verdicts,  \* answers of GetSubscriptionLimiter in this instance
  Outs,      \* tags of the outbounds the router's rules and the core may have
  MaxChunks, \* bound on what the client sends
  Deadline,  \* the 200 milliseconds of the sniffer
  None

ASSUME DispatchAssumption ==
  /\ Verdicts \subseteq {"free", "limited", "reject"} /\ Verdicts # {}
  /\ MaxChunks \in Nat /\ Deadline \in Nat \ {0}
  /\ None \notin Outs

Sniffings == {"off", "metadata", "content"}

VARIABLES
  path,     \* "Dispatch" or "DispatchLink"
  sniffing, \* content.SniffingRequest
  handlers, \* the outbounds of the core
  sent,     \* chunks the client has sent
  eof, cancelled,
  pipe,     \* those that wait in the reader of the link
  cache,    \* cachedReader.cache
  dropped,  \* those a reader has thrown away
  got,      \* those the handler has read
  pc,
  verdict, deadline, attempts, meta,
  target,   \* what the connection is routed by
  route, handler,
  link      \* whether it is open

config == <<path, sniffing>>
client == <<sent, eof, cancelled>>
stream == <<pipe, cache, dropped, got>>
sniff  == <<deadline, attempts, meta, target>>
routing == <<route, handler, link>>
vars == <<config, handlers, client, stream, pc, verdict, sniff, routing>>

\* What the cachedReader reads from.
Reader ==
  IF path = "Dispatch" THEN "pipe"
  ELSE IF verdict = "limited" THEN "TimeoutReader" ELSE "TimeoutWrapperReader"

Init ==
  /\ path \in {"Dispatch", "DispatchLink"} /\ sniffing \in Sniffings
  /\ handlers \in SUBSET Outs
  /\ sent = 0 /\ eof = FALSE /\ cancelled = FALSE
  /\ pipe = <<>> /\ cache = <<>> /\ dropped = <<>> /\ got = <<>>
  /\ pc = "link" /\ verdict = None
  /\ deadline = 0 /\ attempts = 0 /\ meta = FALSE /\ target = "original"
  /\ route = None /\ handler = None /\ link = "open"
-----------------------------------------------------------------------------
(* The client and the controller. *)

Send ==
  /\ link = "open" /\ ~ eof /\ sent < MaxChunks
  /\ sent' = sent + 1 /\ pipe' = Append(pipe, sent + 1)
  /\ UNCHANGED <<config, handlers, eof, cancelled, cache, dropped, got, pc, verdict, sniff, routing>>

Leave ==
  /\ \/ eof' = TRUE /\ UNCHANGED cancelled
     \/ cancelled' = TRUE /\ UNCHANGED eof
  /\ UNCHANGED <<config, handlers, sent, stream, pc, verdict, sniff, routing>>

Reconfigure ==
  /\ \E o \in Outs : handlers' \in {handlers \cup {o}, handlers \ {o}}
  /\ UNCHANGED <<config, client, stream, pc, verdict, sniff, routing>>
-----------------------------------------------------------------------------
Close == link' = "closed" /\ pc' = "done"

\* Mutant: the error of a rejected link is not looked at.
GetLink_Ignored ==
  /\ pc = "link"
  /\ verdict' \in Verdicts
  /\ link' = IF verdict' = "reject" THEN "closed" ELSE link
  /\ pc' = IF sniffing = "off" THEN "route" ELSE "metadata"
  /\ UNCHANGED <<config, handlers, client, stream, sniff, route, handler>>

\* getLink and WrapLink: GetSubscriptionLimiter, and the link of one it rejects.
GetLink ==
  /\ pc = "link"
  /\ verdict' \in Verdicts
  /\ \/ verdict' = "reject" /\ Close
     \/ /\ verdict' # "reject"
        /\ pc' = IF sniffing = "off" THEN "route" ELSE "metadata"
        /\ UNCHANGED link
  /\ UNCHANGED <<config, handlers, client, stream, sniff, route, handler>>

SniffMetadata ==
  /\ pc = "metadata"
  /\ meta' \in BOOLEAN
  /\ pc' = IF sniffing = "metadata" THEN "decide" ELSE "sniff"
  /\ deadline' = Deadline /\ attempts' = 0
  /\ UNCHANGED <<config, handlers, client, stream, verdict, target, routing>>

\* Cache finds data: a pipe gives all it has, a connection what one read brings.
Take(n) == /\ n \in 1..Len(pipe) /\ (Reader = "pipe" => n = Len(pipe))
           /\ pipe' = SubSeq(pipe, n + 1, Len(pipe))

CacheData ==
  /\ pc = "sniff" /\ ~ cancelled
  /\ \E n \in 1..MaxChunks : Take(n) /\ cache' = cache \o SubSeq(pipe, 1, n)
  /\ deadline' \in 0..deadline /\ pc' = "look"
  /\ UNCHANGED <<config, handlers, client, dropped, got, verdict, attempts, meta, target, routing>>

\* Cache finds data, and the rate limit has not enough tokens before the
\* deadline: what was read is released.
CacheLimited ==
  /\ pc = "sniff" /\ ~ cancelled /\ Reader = "TimeoutReader"
  /\ \E n \in 1..MaxChunks : Take(n) /\ dropped' = dropped \o SubSeq(pipe, 1, n)
  /\ pc' = "decide"
  /\ UNCHANGED <<config, handlers, client, cache, got, verdict, sniff, routing>>

\* Nothing comes in time: an error of a pipe, an empty buffer of a connection,
\* after which what is cached is looked at again.
CacheTimeout ==
  /\ pc = "sniff" /\ ~ cancelled /\ pipe = <<>>
  /\ \/ Reader = "pipe" /\ pc' = "decide" /\ UNCHANGED deadline
     \/ Reader # "pipe" /\ pc' = "look" /\ deadline' = 0
  /\ UNCHANGED <<config, handlers, client, stream, verdict, attempts, meta, target, routing>>

\* Mutant: the time is not looked at.
Again_Ever(tries) ==
  /\ attempts' = tries
  /\ pc' = IF tries >= 2 THEN "decide" ELSE "sniff"

\* One more round, unless two gave no clue or the time is up.
Again(tries) ==
  /\ attempts' = tries
  /\ pc' = IF tries >= 2 \/ deadline = 0 THEN "decide" ELSE "sniff"

\* The sniffers look at what is cached: no clue, more data, or an answer, good or
\* not.
Look ==
  /\ pc = "look"
  /\ \/ Again(attempts + 1)
     \/ cache # <<>> /\ Again(attempts)
     \/ cache # <<>> /\ pc' \in {"decide", "override"} /\ UNCHANGED attempts
  /\ UNCHANGED <<config, handlers, client, stream, verdict, deadline, meta, target, routing>>

\* The connection is cancelled, or ends before there is more.
CacheEnds ==
  /\ pc = "sniff" /\ (cancelled \/ (eof /\ pipe = <<>>))
  /\ pc' = "decide"
  /\ UNCHANGED <<config, handlers, client, stream, verdict, sniff, routing>>

\* The content says nothing: what the metadata say decides.
Decide ==
  /\ pc = "decide"
  /\ pc' = IF meta THEN "override" ELSE "route"
  /\ UNCHANGED <<config, handlers, client, stream, verdict, sniff, routing>>

Override ==
  /\ pc = "override"
  /\ target' \in {"original", "sniffed"}
  /\ pc' = "route"
  /\ UNCHANGED <<config, handlers, client, stream, verdict, deadline, attempts, meta, routing>>
-----------------------------------------------------------------------------
(* routedDispatch. *)

\* The tag of the route the router finds, or of a detour the context forces.
PickRoute ==
  /\ pc = "route"
  /\ route' \in Outs \cup {None}
  /\ pc' = "handler"
  /\ UNCHANGED <<config, handlers, client, stream, verdict, sniff, handler, link>>

\* The handler of the route, or with no route any, as the first one added is the
\* default.
GetHandler ==
  /\ pc = "handler"
  /\ \/ /\ handler' \in handlers /\ (route # None => handler' = route)
        /\ pc' = "dispatch" /\ UNCHANGED link
     \/ /\ route \notin handlers
        /\ Close /\ UNCHANGED handler
  /\ UNCHANGED <<config, handlers, client, stream, verdict, sniff, route>>

\* Mutant: the reader is read before the cache.
Read_SkipsCache ==
  /\ pc = "dispatch" /\ pipe # <<>>
  /\ \E n \in 1..MaxChunks : Take(n) /\ got' = got \o SubSeq(pipe, 1, n)
  /\ UNCHANGED <<config, handlers, client, cache, dropped, pc, verdict, sniff, routing>>

\* The handler reads the cache, then the reader.
Read ==
  /\ pc = "dispatch"
  /\ \/ /\ cache # <<>>
        /\ got' = got \o cache /\ cache' = <<>> /\ UNCHANGED pipe
     \/ /\ cache = <<>>
        /\ \E n \in 1..MaxChunks : Take(n) /\ got' = got \o SubSeq(pipe, 1, n)
        /\ UNCHANGED cache
  /\ UNCHANGED <<config, handlers, client, dropped, pc, verdict, sniff, routing>>

\* What one read brings is more than the burst of the rate limit: it is released,
\* and the handler gives up.
ReadLimited ==
  /\ pc = "dispatch" /\ cache = <<>> /\ Reader = "TimeoutReader"
  /\ \E n \in 1..MaxChunks : Take(n) /\ dropped' = dropped \o SubSeq(pipe, 1, n)
  /\ Close
  /\ UNCHANGED <<config, handlers, client, cache, got, verdict, sniff, route, handler>>

\* The handler is done with the link: Interrupt releases what is cached.
End ==
  /\ pc = "dispatch"
  /\ Close
  /\ cache' = <<>>
  /\ UNCHANGED <<config, handlers, client, pipe, dropped, got, verdict, sniff, route, handler>>
-----------------------------------------------------------------------------
Settle ==
  \/ GetLink \/ SniffMetadata \/ CacheData \/ CacheLimited \/ CacheTimeout \/ CacheEnds
  \/ Look \/ Decide \/ Override \/ PickRoute \/ GetHandler

Next == Send \/ Leave \/ Reconfigure \/ Settle \/ Read \/ ReadLimited \/ End

Spec == Init /\ [][Next]_vars

\* The goroutine of the connection runs.
FairSpec == Spec /\ WF_vars(Settle)
-----------------------------------------------------------------------------
(* Correctness properties. *)

\* Every variable has its type, and a link is closed when its call is over.
TypeOK ==
  /\ path \in {"Dispatch", "DispatchLink"} /\ sniffing \in Sniffings
  /\ handlers \subseteq Outs
  /\ sent \in 0..MaxChunks /\ eof \in BOOLEAN /\ cancelled \in BOOLEAN
  /\ {pipe, cache, dropped, got} \subseteq Seq(1..MaxChunks)
  /\ pc \in {"link", "metadata", "sniff", "look", "decide", "override", "route",
             "handler", "dispatch", "done"}
  /\ verdict \in Verdicts \cup {None}
  /\ deadline \in 0..Deadline /\ attempts \in 0..2 /\ meta \in BOOLEAN
  /\ target \in {"original", "sniffed"}
  /\ route \in Outs \cup {None} /\ handler \in Outs \cup {None}
  /\ link \in {"open", "closed"} /\ (link = "closed" <=> pc = "done")

\* What the client has sent is on its way to the handler, whole and in order.
Whole == link = "open" => got \o cache \o pipe = [i \in 1..sent |-> i]

\* Sniffing reads ahead without losing, doubling or reordering anything, however
\* it ends, as long as no rate limit is on the reader.
StreamKept == Reader # "TimeoutReader" => Whole

\* The same of every reader: cachedReader is meant for "*pipe.Reader or
\* *buf.TimeoutWrapperReader" (default.go:35), which keep what they have read.
CachedReaderKeeps == Whole

\* Every connection comes to a handler or is closed: limiter, sniffer and router
\* let none hang, whatever the client sends or keeps back.
LinkSettles == <>(pc \in {"dispatch", "done"})
=============================================================================
