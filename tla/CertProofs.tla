------------------------------ MODULE CertProofs ------------------------------
(***************************************************************************)
(* Proofs about Cert, for any controllers and bounds: its type invariant,  *)
(* that a certificate fits its key and that an account fits its own, with  *)
(* crashes, failures and overlapping saves.                                *)
(***************************************************************************)
EXTENDS Cert, TLAPS

\* The variables that are left alone together.
USE DEF nodeVars, acmeVars, historyVars

\* The files a call still has to write.
LEMMA Todos ==
  /\ Head(<<"akey">>) = "akey" /\ Tail(<<"akey">>) = <<>>
  /\ Head(<<"acct">>) = "acct" /\ Tail(<<"acct">>) = <<>>
  /\ Head(<<"crt", "key">>) = "crt" /\ Tail(<<"crt", "key">>) = <<"key">>
  /\ Head(<<"key">>) = "key"
  /\ <<"akey">> # <<>> /\ <<"acct">> # <<>> /\ <<"key">> # <<>> /\ <<"crt", "key">> # <<>>
  /\ <<"akey">> # <<"acct">> /\ <<"akey">> # <<"key">> /\ <<"acct">> # <<"key">>
  /\ <<"crt", "key">> # <<"akey">> /\ <<"crt", "key">> # <<"acct">>
  /\ <<"crt", "key">> # <<"key">>
  OBVIOUS

\* What a file holds is one of these.
LEMMA Contents ==
  /\ Absent # Torn /\ Absent \notin Keys /\ Torn \notin Keys
  /\ Absent \notin Certs /\ Torn \notin Certs
  BY CertAssumption DEF Absent, Torn, Keys, Certs

LEMMA NoCallType ==
  /\ NoCall \in Call /\ NoCall.pc = "idle" /\ NoCall.todo = <<>> /\ NoCall.cert = 0
  BY DEF NoCall, Call, Absent

\* A call with nothing to write holds nothing when it is not made.
CallOK(n) ==
  /\ n \in Call
  /\ n.pc = "idle" => n = NoCall
  /\ n.pc \in {"save", "write"} <=> n.todo # <<>>
  /\ n.cert <= issued

LEMMA NoCallOK ==
  ASSUME TypeOK PROVE CallOK(NoCall)
  BY NoCallType, Todos DEF TypeOK, CallOK

\* A step of the call p that leaves the rest to other lemmas.
LEMMA CallsOK ==
  ASSUME TypeOK, NEW p \in Callers, NEW n, CallOK(n), call' = [call EXCEPT ![p] = n],
         UNCHANGED issued
  PROVE  /\ call' \in [Callers -> Call]
         /\ \A q \in Callers : /\ call'[q].pc = "idle" => call'[q] = NoCall
                               /\ call'[q].pc \in {"save", "write"} <=> call'[q].todo # <<>>
                               /\ call'[q].cert <= issued'
  BY DEF TypeOK, CallOK
-----------------------------------------------------------------------------
(* Types. *)

LEMMA TypeInit == Init => TypeOK
  BY NoCallType, Todos, CertAssumption DEF Init, TypeOK, Files

LEMMA RestartType ==
  ASSUME TypeOK, Restart, crashes' \in 0..MaxCrashes
  PROVE  TypeOK'
<1>1. /\ call' \in [Callers -> Call]
      /\ \A q \in Callers : call'[q] = NoCall
  BY NoCallType DEF Restart
<1>2. spoilt' \subseteq {"pair", "account"}
  BY DEF Restart, TypeOK
<1>3. \A q \in Callers : call'[q].cert <= issued'
  BY <1>1, NoCallType DEF Restart, TypeOK
<1> QED BY <1>1, <1>2, <1>3, NoCallType DEF Restart, TypeOK

LEMMA DoneType ==
  ASSUME TypeOK, NEW p \in Callers, Done(p), UNCHANGED <<issued, due, crashes>>,
         file' \in Files, spoilt' \subseteq {"pair", "account"}, mixed' \subseteq Callers
  PROVE  TypeOK'
<1>1. p[1] \in Controllers
  BY DEF Callers
<1>2. call' = [call EXCEPT ![p] = NoCall] /\ UNCHANGED <<mode, moves>>
  BY DEF Done
<1>3. phase' \in [Controllers -> {"off", "starting", "on"}] /\ task' \in [Controllers -> BOOLEAN]
  BY <1>1 DEF Done, TypeOK
<1> QED BY <1>2, <1>3, NoCallOK, CallsOK DEF TypeOK

LEMMA FailsType ==
  ASSUME TypeOK, NEW p \in Callers, Fails(p)
  PROVE  TypeOK'
<1>1. CASE Restart /\ UNCHANGED crashes
  BY <1>1, RestartType DEF TypeOK
<1>2. CASE call' = [call EXCEPT ![p] = NoCall]
           /\ UNCHANGED <<nodeVars, file, acmeVars, crashes, historyVars>>
  BY <1>2, NoCallOK, CallsOK DEF TypeOK
<1> QED BY <1>1, <1>2 DEF Fails

\* A step that changes one call and nothing else, or only the node.
LEMMA StepType ==
  ASSUME TypeOK, NEW p \in Callers, NEW n, CallOK(n), call' = [call EXCEPT ![p] = n],
         UNCHANGED <<file, issued, due, crashes, mixed, spoilt>>,
         mode' \in [Controllers -> Modes], task' \in [Controllers -> BOOLEAN],
         phase' \in [Controllers -> {"off", "starting", "on"}], moves' \in 0..MaxMoves
  PROVE  TypeOK'
  BY CallsOK DEF TypeOK

\* A call that has nothing to write goes on to pc, with nothing to write.
LEMMA QuietOK ==
  ASSUME TypeOK, NEW p \in Callers, call[p].todo = <<>>,
         NEW pc \in {"stat", "akey", "acct", "register", "crt", "request"},
         NEW akey \in {Absent} \cup Keys, NEW acct \in {Absent} \cup Keys
  PROVE  CallOK([call[p] EXCEPT !.pc = pc, !.akey = akey, !.acct = acct])
<1> DEFINE n == [call[p] EXCEPT !.pc = pc, !.akey = akey, !.acct = acct]
<1>1. call[p] \in Call /\ call[p].cert <= issued
  BY DEF TypeOK
<1>2. n \in Call
  BY <1>1 DEF Call
<1>3. n.pc = pc /\ n.todo = <<>> /\ n.cert = call[p].cert
  BY <1>1 DEF Call
<1> HIDE DEF n
<1>4. n.pc # "idle" /\ n.pc \notin {"save", "write"}
  BY <1>3
<1>5. CallOK(n)
  BY <1>1, <1>2, <1>3, <1>4 DEF CallOK
<1> QED BY <1>5 DEF n

\* A controller that has not started asks for nothing.
OffInv == \A c \in Controllers : phase[c] = "off" => call[<<c, "obtain">>].pc = "idle"

TypeInv == TypeOK /\ OffInv

LEMMA StartType ==
  ASSUME TypeInv, NEW c \in Controllers, Start(c)
  PROVE  TypeOK'
<1> DEFINE p == <<c, "obtain">>
<1>1. p \in Callers /\ TypeOK /\ call[p].todo = <<>>
  BY DEF Callers, TypeInv, OffInv, TypeOK, Start
<1>2. /\ phase' \in [Controllers -> {"off", "starting", "on"}]
      /\ task' \in [Controllers -> BOOLEAN]
  BY <1>1 DEF Start, TypeOK
<1>3. CASE UNCHANGED call
  BY <1>1, <1>2, <1>3 DEF Start, TypeOK
<1>4. CASE call' = [call EXCEPT ![p].pc = "stat"]
  <2> DEFINE n == [call[p] EXCEPT !.pc = "stat", !.akey = call[p].akey, !.acct = call[p].acct]
  <2>1. CallOK(n)
    BY <1>1, QuietOK DEF TypeOK, Call
  <2>2. call' = [call EXCEPT ![p] = n]
    BY <1>1, <1>4 DEF TypeOK, Call
  <2> HIDE DEF n
  <2> QED BY <1>1, <1>2, <2>1, <2>2, StepType DEF Start, TypeOK
<1> QED BY <1>3, <1>4 DEF Start

LEMMA MoveType ==
  ASSUME TypeInv, NEW c \in Controllers, Move(c)
  PROVE  TypeOK'
<1> DEFINE p == <<c, "obtain">>
<1>1. p \in Callers /\ TypeOK /\ call[p].todo = <<>>
  BY DEF Callers, TypeInv, TypeOK, Move
<1>2. mode' \in [Controllers -> Modes] /\ moves' \in 0..MaxMoves
  BY <1>1, CertAssumption DEF Move, TypeOK
<1>3. CASE UNCHANGED call
  BY <1>1, <1>2, <1>3 DEF Move, TypeOK
<1>4. CASE call' = [call EXCEPT ![p].pc = "stat"]
  <2> DEFINE n == [call[p] EXCEPT !.pc = "stat", !.akey = call[p].akey, !.acct = call[p].acct]
  <2>1. CallOK(n)
    BY <1>1, QuietOK DEF TypeOK, Call
  <2>2. call' = [call EXCEPT ![p] = n]
    BY <1>1, <1>4 DEF TypeOK, Call
  <2> HIDE DEF n
  <2> QED BY <1>1, <1>2, <2>1, <2>2, StepType DEF Move, TypeOK
<1> QED BY <1>3, <1>4 DEF Move

LEMMA CrashType ==
  ASSUME TypeOK, Crash
  PROVE  TypeOK'
<1>1. crashes' \in 0..MaxCrashes
  BY CertAssumption DEF Crash, TypeOK
<1> QED BY <1>1, RestartType DEF Crash

\* A step that takes the call p to pc and changes nothing else.
LEMMA GoesOn ==
  ASSUME TypeOK, NEW p \in Callers, call[p].todo = <<>>,
         NEW pc \in {"stat", "akey", "acct", "register", "crt", "request"},
         call' = [call EXCEPT ![p].pc = pc],
         UNCHANGED <<nodeVars, file, acmeVars, crashes, historyVars>>
  PROVE  TypeOK'
<1> DEFINE n == [call[p] EXCEPT !.pc = pc, !.akey = call[p].akey, !.acct = call[p].acct]
<1>1. CallOK(n)
  BY QuietOK DEF TypeOK, Call
<1>2. call' = [call EXCEPT ![p] = n]
  BY DEF TypeOK, Call
<1> HIDE DEF n
<1> QED BY <1>1, <1>2, StepType DEF TypeOK

LEMMA TickType ==
  ASSUME TypeOK, NEW c \in Controllers, Tick(c)
  PROVE  TypeOK'
<1>1. <<c, "renew">> \in Callers
  BY DEF Callers
<1> QED BY <1>1, GoesOn, CrashType DEF Tick, TypeOK

LEMMA StatType ==
  ASSUME TypeOK, NEW p \in Callers, Stat(p)
  PROVE  TypeOK'
<1>1. CASE call' = [call EXCEPT ![p].pc = "akey"] /\ UNCHANGED nodeVars
  BY <1>1, GoesOn DEF Stat, TypeOK
<1>2. CASE Done(p)
  BY <1>2, DoneType DEF Stat, TypeOK
<1> QED BY <1>1, <1>2 DEF Stat

\* A call that gets something to write.
LEMMA SavesOK ==
  ASSUME TypeOK, NEW p \in Callers,
         NEW akey \in {Absent} \cup Keys, NEW acct \in {Absent} \cup Keys,
         NEW todo \in {<<"akey">>, <<"acct">>}
  PROVE  CallOK([call[p] EXCEPT !.pc = "save", !.akey = akey, !.acct = acct, !.todo = todo])
  BY Todos DEF TypeOK, CallOK, Call

LEMMA ReadKeyType ==
  ASSUME TypeOK, NEW p \in Callers, ReadKey(p)
  PROVE  TypeOK'
<1>1. ASSUME NEW k \in NewKeys,
             call' = [call EXCEPT ![p] = [@ EXCEPT !.pc = "save", !.akey = k, !.todo = <<"akey">>]],
             UNCHANGED <<nodeVars, file, acmeVars, crashes, historyVars>>
      PROVE  TypeOK'
  <2> DEFINE n == [call[p] EXCEPT !.pc = "save", !.akey = k, !.acct = call[p].acct, !.todo = <<"akey">>]
  <2>1. CallOK(n)
    BY SavesOK DEF TypeOK, Call, NewKeys
  <2>2. call' = [call EXCEPT ![p] = n]
    BY <1>1 DEF TypeOK, Call
  <2> HIDE DEF n
  <2> QED BY <1>1, <2>1, <2>2, StepType DEF TypeOK
<1>2. CASE /\ call[p].pc = "akey" /\ file.akey \in Keys
           /\ call' = [call EXCEPT ![p] = [@ EXCEPT !.pc = "acct", !.akey = file.akey]]
           /\ UNCHANGED <<nodeVars, file, acmeVars, crashes, historyVars>>
  <2> DEFINE n == [call[p] EXCEPT !.pc = "acct", !.akey = file.akey, !.acct = call[p].acct]
  <2>1. CallOK(n)
    BY <1>2, QuietOK DEF TypeOK, Call
  <2>2. call' = [call EXCEPT ![p] = n]
    BY <1>2 DEF TypeOK, Call
  <2> HIDE DEF n
  <2> QED BY <1>2, <2>1, <2>2, StepType DEF TypeOK
<1>3. CASE Fails(p)
  BY <1>3, FailsType
<1> QED BY <1>1, <1>2, <1>3 DEF ReadKey

LEMMA ReadAccountType ==
  ASSUME TypeOK, NEW p \in Callers, ReadAccount(p)
  PROVE  TypeOK'
<1>1. CASE /\ call' = [call EXCEPT ![p].pc = "register"]
           /\ UNCHANGED <<nodeVars, file, acmeVars, crashes, historyVars>>
  BY <1>1, GoesOn DEF ReadAccount, TypeOK
<1>2. CASE /\ call[p].pc = "acct" /\ file.acct \in Keys
           /\ call' = [call EXCEPT ![p] = [@ EXCEPT !.acct = file.acct,
                                             !.pc = IF p[2] = "obtain" THEN "request" ELSE "crt"]]
           /\ UNCHANGED <<nodeVars, file, acmeVars, crashes, historyVars>>
  <2> DEFINE pc == IF p[2] = "obtain" THEN "request" ELSE "crt"
  <2> DEFINE n == [call[p] EXCEPT !.pc = pc, !.akey = call[p].akey, !.acct = file.acct]
  <2>1. CallOK(n)
    BY <1>2, QuietOK DEF TypeOK, Call
  <2>2. call' = [call EXCEPT ![p] = n]
    BY <1>2 DEF TypeOK, Call
  <2> HIDE DEF n
  <2> QED BY <1>2, <2>1, <2>2, StepType DEF TypeOK
<1>3. CASE Fails(p)
  BY <1>3, FailsType
<1> QED BY <1>1, <1>2, <1>3 DEF ReadAccount

LEMMA RegisterType ==
  ASSUME TypeOK, NEW p \in Callers, Register(p)
  PROVE  TypeOK'
<1> DEFINE n == [call[p] EXCEPT !.pc = "save", !.akey = call[p].akey, !.acct = call[p].akey,
                                !.todo = <<"acct">>]
<1>1. CallOK(n)
  BY SavesOK DEF TypeOK, Call
<1>2. call' = [call EXCEPT ![p] = n]
  BY DEF Register, TypeOK, Call
<1> HIDE DEF n
<1> QED BY <1>1, <1>2, StepType DEF Register, TypeOK

LEMMA ReadCertType ==
  ASSUME TypeOK, NEW p \in Callers, ReadCert(p)
  PROVE  TypeOK'
<1>1. CASE /\ call' = [call EXCEPT ![p].pc = "request"]
           /\ UNCHANGED <<nodeVars, file, acmeVars, crashes, historyVars>>
  BY <1>1, GoesOn DEF ReadCert, TypeOK
<1>2. CASE Done(p) /\ UNCHANGED <<file, acmeVars, crashes, historyVars>>
  BY <1>2, DoneType DEF TypeOK
<1>3. CASE Fails(p)
  BY <1>3, FailsType
<1> QED BY <1>1, <1>2, <1>3 DEF ReadCert

LEMMA IssueType ==
  ASSUME TypeOK, NEW p \in Callers, Issue(p)
  PROVE  TypeOK'
<1> DEFINE n == [call[p] EXCEPT !.pc = "save", !.cert = issued + 1, !.todo = <<"crt", "key">>]
<1>1. /\ issued' = issued + 1 /\ issued' \in 0..MaxCerts /\ issued + 1 \in Certs
      /\ due' = due /\ due \in 0..issued'
  BY CertAssumption DEF Issue, TypeOK, Certs
<1>2. /\ n \in Call /\ n.pc = "save" /\ n.todo # <<>> /\ n.cert = issued'
  BY <1>1, Todos DEF TypeOK, Call
<1>3. call' = [call EXCEPT ![p] = n]
  BY DEF Issue, TypeOK, Call
<1>4. mixed' \subseteq Callers
  BY DEF Issue, TypeOK
<1> HIDE DEF n
<1>5. \A q \in Callers : call'[q].cert <= issued'
  <2>1. \A q \in Callers : call[q].cert \in Nat /\ call[q].cert <= issued
    BY CertAssumption DEF TypeOK, Call, Certs, Absent
  <2> QED BY <1>1, <1>2, <1>3, <2>1, CertAssumption DEF TypeOK
<1> QED BY <1>1, <1>2, <1>3, <1>4, <1>5 DEF Issue, TypeOK

LEMMA TruncateType ==
  ASSUME TypeOK, NEW p \in Callers, Truncate(p)
  PROVE  TypeOK'
<1>1. Head(call[p].todo) \in {"crt", "key", "akey", "acct"}
  BY Todos DEF Truncate, TypeOK, Call
<1>2. file' \in Files
  BY <1>1 DEF Truncate, TypeOK, Files
<1>3. /\ call' = [call EXCEPT ![p].pc = "write"] /\ call[p].pc = "save"
      /\ spoilt' \subseteq {"pair", "account"}
  BY DEF Truncate, TypeOK
<1> QED BY <1>2, <1>3 DEF Truncate, TypeOK, Call

LEMMA WrittenType ==
  ASSUME TypeOK, NEW p \in Callers, call[p].todo # <<>>
  PROVE  Written(p) \in Files
<1>1. CASE call[p].todo = <<"akey">>
  BY <1>1, Todos DEF Written, TypeOK, Call, Files
<1>2. CASE call[p].todo = <<"acct">>
  BY <1>2, Todos DEF Written, TypeOK, Call, Files
<1>3. CASE call[p].todo = <<"crt", "key">>
  BY <1>3, Todos DEF Written, TypeOK, Call, Files
<1>4. CASE call[p].todo = <<"key">>
  BY <1>4, Todos DEF Written, TypeOK, Call, Files
<1> QED BY <1>1, <1>2, <1>3, <1>4 DEF TypeOK, Call

\* The three files that Write closes, and where the call goes on.
LEMMA WriteCases ==
  ASSUME TypeOK, NEW p \in Callers, Write(p)
  PROVE  \/ /\ call[p].todo = <<"akey">>
            /\ file' = [file EXCEPT !.akey = call[p].akey]
            /\ call' = [call EXCEPT ![p] = [call[p] EXCEPT !.todo = <<>>, !.pc = "acct"]]
         \/ /\ call[p].todo = <<"acct">>
            /\ file' = [file EXCEPT !.acct = call[p].acct]
            /\ call' = [call EXCEPT ![p] = [call[p] EXCEPT !.todo = <<>>, !.pc = "request"]]
         \/ /\ call[p].todo = <<"crt", "key">>
            /\ file' = [file EXCEPT !.crt = call[p].cert]
            /\ call' = [call EXCEPT ![p] = [call[p] EXCEPT !.todo = <<"key">>, !.pc = "save"]]
<1>1. CASE call[p].todo = <<"akey">>
  <2>1. Written(p) = [file EXCEPT !.akey = call[p].akey]
    BY <1>1, Todos DEF Written, TypeOK, Files
  <2>2. call' = [call EXCEPT ![p] = [call[p] EXCEPT !.todo = <<>>, !.pc = "acct"]]
    <3>1. Head(call[p].todo) = "akey" /\ Tail(call[p].todo) = <<>>
      BY <1>1, Todos
    <3>2. AfterWrite("akey") = "acct"
      BY DEF AfterWrite
    <3>3. call' = [call EXCEPT ![p] = [call[p] EXCEPT !.todo = Tail(call[p].todo), !.pc = AfterWrite(Head(call[p].todo))]]
      BY DEF Write, TypeOK, Call
    <3> QED BY <3>1, <3>2, <3>3
  <2> QED BY <1>1, <2>1, <2>2 DEF Write
<1>2. CASE call[p].todo = <<"acct">>
  <2>1. Written(p) = [file EXCEPT !.acct = call[p].acct]
    BY <1>2, Todos DEF Written, TypeOK, Files
  <2>2. call' = [call EXCEPT ![p] = [call[p] EXCEPT !.todo = <<>>, !.pc = "request"]]
    <3>1. Head(call[p].todo) = "acct" /\ Tail(call[p].todo) = <<>>
      BY <1>2, Todos
    <3>2. AfterWrite("acct") = "request"
      BY DEF AfterWrite
    <3>3. call' = [call EXCEPT ![p] = [call[p] EXCEPT !.todo = Tail(call[p].todo), !.pc = AfterWrite(Head(call[p].todo))]]
      BY DEF Write, TypeOK, Call
    <3> QED BY <3>1, <3>2, <3>3
  <2> QED BY <1>2, <2>1, <2>2 DEF Write
<1>3. CASE call[p].todo = <<"crt", "key">>
  <2>1. Written(p) = [file EXCEPT !.crt = call[p].cert]
    BY <1>3, Todos DEF Written, TypeOK, Files
  <2>2. call' = [call EXCEPT ![p] = [call[p] EXCEPT !.todo = <<"key">>, !.pc = "save"]]
    <3>1. Head(call[p].todo) = "crt" /\ Tail(call[p].todo) = <<"key">>
      BY <1>3, Todos
    <3>2. AfterWrite("crt") = "save"
      BY DEF AfterWrite
    <3>3. call' = [call EXCEPT ![p] = [call[p] EXCEPT !.todo = Tail(call[p].todo), !.pc = AfterWrite(Head(call[p].todo))]]
      BY DEF Write, TypeOK, Call
    <3> QED BY <3>1, <3>2, <3>3
  <2> QED BY <1>3, <2>1, <2>2 DEF Write
<1> QED BY <1>1, <1>2, <1>3, Todos DEF Write, TypeOK, Call

LEMMA WriteType ==
  ASSUME TypeOK, NEW p \in Callers, Write(p)
  PROVE  TypeOK'
<1>1. file' \in Files
  BY WrittenType, Todos DEF Write, TypeOK
<1>2. PICK n : /\ call' = [call EXCEPT ![p] = n] /\ n \in Call /\ n.cert = call[p].cert
               /\ n.pc # "idle" /\ (n.pc \in {"save", "write"} <=> n.todo # <<>>)
  <2> DEFINE Goes(pc, todo) == [call[p] EXCEPT !.todo = todo, !.pc = pc]
  <2>1. \E n \in {Goes("acct", <<>>), Goes("request", <<>>), Goes("save", <<"key">>)} :
          call' = [call EXCEPT ![p] = n]
    BY WriteCases
  <2>2. call[p] \in Call
    BY DEF TypeOK
  <2>3. \A n \in {Goes("acct", <<>>), Goes("request", <<>>), Goes("save", <<"key">>)} :
          /\ n \in Call /\ n.cert = call[p].cert
          /\ n.pc # "idle" /\ (n.pc \in {"save", "write"} <=> n.todo # <<>>)
    BY <2>2, Todos DEF Call
  <2> HIDE DEF Goes
  <2> QED BY <2>1, <2>3
<1> QED BY <1>1, <1>2 DEF Write, TypeOK

LEMMA FinishType ==
  ASSUME TypeOK, NEW p \in Callers, Finish(p)
  PROVE  TypeOK'
<1>1. file' \in Files
  BY WrittenType, Todos DEF Finish
<1>2. spoilt' \subseteq {"pair", "account"} /\ mixed' \subseteq Callers
  BY DEF Finish, TypeOK
<1> QED BY <1>1, <1>2, DoneType DEF Finish
-----------------------------------------------------------------------------
LEMMA TypeStep == TypeInv /\ [Next]_vars => TypeOK'
<1> SUFFICES ASSUME TypeInv, [Next]_vars PROVE TypeOK'
  OBVIOUS
<1>0. TypeOK
  BY DEF TypeInv
<1>1. CASE Crash
  BY <1>0, <1>1, CrashType
<1>2. CASE Age
  BY <1>0, <1>2, CertAssumption DEF Age, TypeOK
<1>3. ASSUME NEW c \in Controllers, Start(c) \/ Move(c) \/ Tick(c) PROVE TypeOK'
  BY <1>0, <1>3, StartType, MoveType, TickType
<1>4. ASSUME NEW p \in Callers, Stat(p) \/ ReadKey(p) \/ ReadAccount(p) \/ ReadCert(p)
      PROVE  TypeOK'
  BY <1>0, <1>4, StatType, ReadKeyType, ReadAccountType, ReadCertType
<1>5. ASSUME NEW p \in Callers, Truncate(p) \/ Write(p) \/ Finish(p) PROVE TypeOK'
  BY <1>0, <1>5, TruncateType, WriteType, FinishType
<1>6. ASSUME NEW p \in Callers, Register(p) \/ Issue(p) PROVE TypeOK'
  BY <1>0, <1>6, RegisterType, IssueType
<1>7. ASSUME NEW p \in Callers, Refuse(p) PROVE TypeOK'
  BY <1>0, <1>7, FailsType DEF Refuse
<1>8. CASE UNCHANGED vars
  BY <1>0, <1>8 DEF vars, TypeOK
<1> QED BY <1>1, <1>2, <1>3, <1>4, <1>5, <1>6, <1>7, <1>8 DEF Next, Step

\* How a step of a call that is made leaves the controllers that are off.
LEMMA OffKept ==
  ASSUME TypeInv, NEW p \in Callers, call[p].pc # "idle", NEW n,
         call' = [call EXCEPT ![p] = n],
         \A c \in Controllers : phase'[c] = "off" => phase[c] = "off"
  PROVE  OffInv'
<1> SUFFICES ASSUME NEW c \in Controllers, phase'[c] = "off"
             PROVE  call'[<<c, "obtain">>].pc = "idle"
  BY DEF OffInv
<1>1. <<c, "obtain">> \in Callers /\ call[<<c, "obtain">>].pc = "idle"
  BY DEF TypeInv, OffInv, Callers
<1> QED BY <1>1 DEF TypeInv, TypeOK

LEMMA RestartOff ==
  ASSUME Restart PROVE OffInv'
  BY NoCallType DEF Restart, OffInv, Callers

LEMMA DoneOff ==
  ASSUME TypeInv, NEW p \in Callers, call[p].pc # "idle", Done(p)
  PROVE  OffInv'
<1>1. p[1] \in Controllers
  BY DEF Callers
<1>2. \A c \in Controllers : phase'[c] = "off" => phase[c] = "off"
  BY <1>1 DEF Done, TypeInv, TypeOK
<1> QED BY <1>2, OffKept DEF Done

LEMMA FailsOff ==
  ASSUME TypeInv, NEW p \in Callers, call[p].pc # "idle", Fails(p)
  PROVE  OffInv'
<1>1. CASE call' = [call EXCEPT ![p] = NoCall]
           /\ UNCHANGED <<nodeVars, file, acmeVars, crashes, historyVars>>
  BY <1>1, OffKept
<1> QED BY <1>1, RestartOff DEF Fails

LEMMA OffStep == TypeInv /\ [Next]_vars => OffInv'
<1> SUFFICES ASSUME TypeInv, [Next]_vars PROVE OffInv'
  OBVIOUS
<1>1. CASE Crash
  BY <1>1, RestartOff DEF Crash
<1>2. CASE Age \/ UNCHANGED vars
  BY <1>2 DEF Age, vars, TypeInv, OffInv
<1>3. ASSUME NEW c \in Controllers, Start(c) PROVE OffInv'
  BY <1>3 DEF Start, TypeInv, TypeOK, OffInv, Callers
<1>4. ASSUME NEW c \in Controllers, Move(c) PROVE OffInv'
  BY <1>4 DEF Move, TypeInv, TypeOK, OffInv, Callers
<1>5. ASSUME NEW c \in Controllers, Tick(c) PROVE OffInv'
  <2>1. CASE Crash
    BY <2>1, RestartOff DEF Crash
  <2>2. CASE call' = [call EXCEPT ![<<c, "renew">>].pc = "akey"] /\ UNCHANGED phase
    BY <2>2 DEF TypeInv, TypeOK, OffInv, Callers
  <2> QED BY <1>5, <2>1, <2>2 DEF Tick
<1>6. ASSUME NEW p \in Callers, Stat(p) \/ ReadKey(p) \/ ReadAccount(p) \/ ReadCert(p)
      PROVE  OffInv'
  <2>1. CASE Done(p) /\ call[p].pc # "idle"
    BY <2>1, DoneOff
  <2>2. CASE Fails(p) /\ call[p].pc # "idle"
    BY <2>2, FailsOff
  <2>3. CASE call[p].pc # "idle" /\ UNCHANGED nodeVars /\ \E n : call' = [call EXCEPT ![p] = n]
    BY <2>3, OffKept
  <2> QED BY <1>6, <2>1, <2>2, <2>3 DEF Stat, ReadKey, ReadAccount, ReadCert
<1>7. ASSUME NEW p \in Callers, Truncate(p) \/ Write(p) PROVE OffInv'
  <2>1. call[p].pc # "idle" /\ UNCHANGED nodeVars /\ \E n : call' = [call EXCEPT ![p] = n]
    BY <1>7 DEF Truncate, Write
  <2> QED BY <2>1, OffKept
<1>8. ASSUME NEW p \in Callers, Finish(p) PROVE OffInv'
  BY <1>8, DoneOff DEF Finish
<1>9. ASSUME NEW p \in Callers, Register(p) \/ Issue(p) PROVE OffInv'
  <2>1. call[p].pc # "idle" /\ UNCHANGED nodeVars /\ \E n : call' = [call EXCEPT ![p] = n]
    BY <1>9 DEF Register, Issue
  <2> QED BY <2>1, OffKept
<1>10. ASSUME NEW p \in Callers, Refuse(p) PROVE OffInv'
  BY <1>10, FailsOff DEF Refuse
<1> QED BY <1>1, <1>2, <1>3, <1>4, <1>5, <1>6, <1>7, <1>8, <1>9, <1>10 DEF Next, Step

LEMMA TypeInvariance == Spec => []TypeInv
<1>1. Init => TypeInv
  BY TypeInit, NoCallType DEF Init, TypeInv, OffInv, Callers
<1>2. TypeInv /\ [Next]_vars => TypeInv'
  BY TypeStep, OffStep DEF TypeInv
<1> QED BY <1>1, <1>2, PTL DEF Spec

\* Every variable of the certificates keeps its type, for any controllers and bounds.
THEOREM TypeCorrect == Spec => []TypeOK
<1>1. TypeInv => TypeOK
  BY DEF TypeInv
<1> QED BY TypeInvariance, <1>1, PTL
-----------------------------------------------------------------------------
(* The files. *)

\* p holds the account's key; p is writing one that it made.
Past(p) == \/ call[p].pc \in {"acct", "register", "crt", "request"}
           \/ call[p].todo \in {<<"acct">>, <<"crt", "key">>, <<"key">>}
Making(p) == call[p].pc = "write" /\ call[p].todo = <<"akey">>

\* What a call holds when it gets somewhere, and the files that must be there:
\* a certificate comes after the account.
CallHolds(p) ==
  /\ Past(p) \/ call[p].todo = <<"akey">> => call[p].akey \in Keys
  /\ call[p].todo = <<"acct">> => call[p].acct = call[p].akey
  /\ Saving(p) => call[p].cert \in Certs
  /\ call[p].pc \in {"crt", "request"} \/ Saving(p) => file.acct # Absent

CallInv ==
  /\ \A p \in Callers : CallHolds(p)
  /\ file.crt # Absent => file.acct # Absent

\* Until it is spoilt, the account's key is made once.
AccountInv ==
  "account" \notin spoilt =>
    /\ \A p \in Callers : Past(p) => call[p].akey = file.akey
    /\ \A p \in Callers : Making(p) => file.akey = Torn
    /\ \A p, q \in Callers : Making(p) /\ Making(q) => p = q
    /\ file.acct \in Keys => file.acct = file.akey

\* Saves that overlap are all known; one that does not finds its certificate
\* where it has put it; and before it began, the files fitted or were spoilt.
PairInv ==
  /\ \A p \in mixed : Saving(p)
  /\ \A p, q \in Callers : Saving(p) /\ Saving(q) /\ p # q => p \in mixed
  /\ \A p \in Callers : call[p].todo = <<"key">> /\ p \notin mixed => file.crt = call[p].cert
  /\ (\A p \in Callers : ~Begun(p)) /\ Absent \notin {file.crt, file.key} /\ "pair" \notin spoilt
       => file.crt = file.key /\ file.crt \in Certs

FilesInv == TypeInv /\ CallInv /\ AccountInv /\ PairInv

\* The same for the files and the calls of a step.
LEMMA FilesInit == Init => CallInv /\ AccountInv /\ PairInv
<1> SUFFICES ASSUME Init PROVE CallInv /\ AccountInv /\ PairInv
  OBVIOUS
<1>1. \A p \in Callers : ~Past(p) /\ ~Making(p) /\ ~Saving(p) /\ ~Begun(p) /\ call[p].todo = <<>>
                         /\ call[p].pc = "idle"
  BY NoCallType, Todos DEF Init, Past, Making, Saving, Begun
<1>2. file.acct \notin Keys /\ file.crt = Absent /\ mixed = {}
  BY Contents DEF Init
<1>3. CallInv
  BY <1>1, <1>2, Todos DEF CallInv, CallHolds
<1>4. AccountInv
  BY <1>1, <1>2 DEF AccountInv
<1>5. PairInv
  BY <1>1, <1>2, Todos DEF PairInv
<1> QED BY <1>3, <1>4, <1>5

LEMMA RestartInv ==
  ASSUME FilesInv, Restart
  PROVE  CallInv' /\ AccountInv' /\ PairInv'
<1>1. \A p \in Callers : call'[p] = NoCall
  BY DEF Restart
<1>2. \A p \in Callers : ~Past(p)' /\ ~Making(p)' /\ ~Saving(p)' /\ ~Begun(p)'
                         /\ call'[p].todo = <<>> /\ call'[p].pc = "idle"
  BY <1>1, NoCallType, Todos DEF Past, Making, Saving, Begun
<1>3. CallInv'
  BY <1>2, Todos DEF CallInv, CallHolds, FilesInv, Restart
<1>4. AccountInv'
  BY <1>2 DEF AccountInv, FilesInv, Restart
<1>5. PairInv'
  BY <1>2, Todos DEF PairInv, FilesInv, Restart
<1> QED BY <1>3, <1>4, <1>5

\* The other calls are where they were.
LEMMA Others ==
  ASSUME FilesInv, NEW p \in Callers, NEW n, call' = [call EXCEPT ![p] = n]
  PROVE  /\ call'[p] = n
         /\ \A q \in Callers : q # p =>
              /\ call'[q] = call[q] /\ Past(q)' = Past(q) /\ Making(q)' = Making(q)
              /\ Saving(q)' = Saving(q) /\ Begun(q)' = Begun(q)
  BY DEF FilesInv, TypeInv, TypeOK, Past, Making, Saving, Begun

\* The other calls hold what they held, as nothing is taken away from them.
LEMMA OthersHold ==
  ASSUME FilesInv, NEW p \in Callers, NEW n, call' = [call EXCEPT ![p] = n],
         file.acct # Absent => file'.acct # Absent, CallHolds(p)',
         file'.crt # Absent => file'.acct # Absent
  PROVE  CallInv'
<1>1. ASSUME NEW q \in Callers, q # p PROVE CallHolds(q)'
  <2>1. call'[q] = call[q] /\ Past(q)' = Past(q) /\ Saving(q)' = Saving(q)
    BY <1>1, Others
  <2>2. CallHolds(q)
    BY DEF FilesInv, CallInv
  <2> QED BY <2>1, <2>2 DEF CallHolds
<1> QED BY <1>1 DEF CallInv

\* No save begins or ends.
LEMMA SaversKept ==
  ASSUME FilesInv, NEW p \in Callers, NEW n, call' = [call EXCEPT ![p] = n],
         UNCHANGED mixed, Saving(p)' = Saving(p)
  PROVE  /\ \A q \in mixed' : Saving(q)'
         /\ \A q, r \in Callers : Saving(q)' /\ Saving(r)' /\ q # r => q \in mixed'
<1>1. \A q \in Callers : Saving(q)' = Saving(q)
  BY Others
<1>2. mixed \subseteq Callers
  BY DEF FilesInv, TypeInv, TypeOK
<1> QED BY <1>1, <1>2 DEF FilesInv, PairInv

\* A step that touches neither the account's key nor puts another account in its
\* place.
LEMMA AccountKept ==
  ASSUME FilesInv, NEW p \in Callers, NEW n, call' = [call EXCEPT ![p] = n],
         n.akey = call[p].akey, spoilt' = spoilt, file'.akey = file.akey,
         file'.acct \in Keys => file'.acct = file.acct, ~Making(p)', Past(p)' => Past(p)
  PROVE  AccountInv'
<1> SUFFICES ASSUME "account" \notin spoilt PROVE AccountInv'
  BY DEF AccountInv
<1>1. \A q \in Callers : /\ Making(q)' => Making(q)
                         /\ Past(q)' => Past(q)
                         /\ call'[q].akey = call[q].akey
  BY Others
<1>2. /\ \A q \in Callers : Past(q)' => call'[q].akey = file'.akey
      /\ \A q \in Callers : Making(q)' => file'.akey = Torn
      /\ \A q, r \in Callers : Making(q)' /\ Making(r)' => q = r
  BY <1>1 DEF FilesInv, AccountInv
<1>3. file'.acct \in Keys => file'.acct = file'.akey
  BY DEF FilesInv, AccountInv
<1> QED BY <1>2, <1>3 DEF AccountInv

\* A step of a call that saves nothing leaves the certificate and its key alone.
LEMMA PairKept ==
  ASSUME FilesInv, NEW p \in Callers, NEW n, call' = [call EXCEPT ![p] = n],
         UNCHANGED mixed, ~Saving(p), ~Saving(p)', n.todo # <<"key">>,
         file'.crt = file.crt, file'.key = file.key,
         "pair" \in spoilt <=> "pair" \in spoilt'
  PROVE  PairInv'
<1>1. ~Begun(p) /\ ~Begun(p)'
  BY DEF Begun
<1>2. \A q \in Callers : call'[q].todo = <<"key">> /\ q \notin mixed' => file'.crt = call'[q].cert
  BY Others DEF FilesInv, PairInv
<1>3. (\A q \in Callers : ~Begun(q)') => \A q \in Callers : ~Begun(q)
  BY <1>1, Others
<1>4. (\A q \in Callers : ~Begun(q)') /\ Absent \notin {file'.crt, file'.key} /\ "pair" \notin spoilt'
      => file'.crt = file'.key /\ file'.crt \in Certs
  BY <1>3 DEF FilesInv, PairInv
<1>5. Saving(p)' = Saving(p)
  BY DEF Saving
<1>6. /\ \A q \in mixed' : Saving(q)'
      /\ \A q, r \in Callers : Saving(q)' /\ Saving(r)' /\ q # r => q \in mixed'
  BY <1>5, SaversKept
<1> QED BY <1>2, <1>4, <1>6 DEF PairInv

\* A call that writes nothing, or begins to write for its account, in a step that
\* leaves the files alone.
LEMMA QuietInv ==
  ASSUME FilesInv, NEW p \in Callers, NEW n,
         call' = [call EXCEPT ![p] = n], call[p].todo = <<>>,
         UNCHANGED <<file, mixed, spoilt>>,
         n.pc # "write", n.todo \in {<<>>, <<"akey">>, <<"acct">>},
         n.todo = <<"akey">> => n.akey \in Keys,
         n.todo = <<"acct">> => n.acct = n.akey,
         n.pc \in {"acct", "register", "crt", "request"} \/ n.todo = <<"acct">>
           => n.akey \in Keys /\ ("account" \notin spoilt => n.akey = file.akey),
         n.pc \in {"crt", "request"} => file.acct # Absent
  PROVE  CallInv' /\ AccountInv' /\ PairInv'
<1>0. call'[p] = n /\ \A q \in Callers : q # p => call'[q] = call[q]
  BY DEF FilesInv, TypeInv, TypeOK
<1>1. ~Saving(p) /\ ~Begun(p) /\ ~Saving(p)' /\ ~Begun(p)' /\ ~Making(p)'
  BY <1>0, Todos DEF Saving, Begun, Making
<1>2. ASSUME NEW q \in Callers, q # p
      PROVE  /\ Past(q)' = Past(q) /\ Making(q)' = Making(q)
             /\ Saving(q)' = Saving(q) /\ Begun(q)' = Begun(q)
  BY <1>0, <1>2 DEF Past, Making, Saving, Begun
<1>3. CallInv'
  BY <1>0, <1>1, <1>2, Todos DEF FilesInv, CallInv, CallHolds, Past
<1>4. AccountInv'
  BY <1>0, <1>1, <1>2, Todos DEF FilesInv, AccountInv, Past
<1>5. PairInv'
  BY <1>0, <1>1, Todos, PairKept
<1> QED BY <1>3, <1>4, <1>5

LEMMA DoneInv ==
  ASSUME FilesInv, NEW p \in Callers, call[p].todo = <<>>, Done(p),
         UNCHANGED <<file, mixed, spoilt>>
  PROVE  CallInv' /\ AccountInv' /\ PairInv'
  BY QuietInv, NoCallType, Todos DEF Done

LEMMA FailsInv ==
  ASSUME FilesInv, NEW p \in Callers, call[p].todo = <<>>, Fails(p)
  PROVE  CallInv' /\ AccountInv' /\ PairInv'
<1>1. CASE call' = [call EXCEPT ![p] = NoCall]
           /\ UNCHANGED <<nodeVars, file, acmeVars, crashes, historyVars>>
  BY <1>1, QuietInv, NoCallType, Todos
<1> QED BY <1>1, RestartInv DEF Fails

LEMMA SameInv ==
  ASSUME FilesInv, UNCHANGED <<call, file, mixed, spoilt>>
  PROVE  CallInv' /\ AccountInv' /\ PairInv'
  BY DEF FilesInv, CallInv, CallHolds, AccountInv, PairInv, Past, Making, Saving, Begun

\* A call that has just been made.
LEMMA CalledInv ==
  ASSUME FilesInv, NEW p \in Callers, call[p].pc = "idle", NEW pc \in {"stat", "akey"},
         call' = [call EXCEPT ![p].pc = pc], UNCHANGED <<file, mixed, spoilt>>
  PROVE  CallInv' /\ AccountInv' /\ PairInv'
<1> DEFINE n == [call[p] EXCEPT !.pc = pc]
<1>1. call' = [call EXCEPT ![p] = n] /\ call[p].todo = <<>> /\ n.pc = pc /\ n.todo = <<>>
  BY Todos DEF FilesInv, TypeInv, TypeOK, Call
<1> HIDE DEF n
<1> QED BY <1>1, QuietInv, Todos

LEMMA NodeInv ==
  ASSUME FilesInv, NEW c \in Controllers, Start(c) \/ Move(c) \/ Tick(c)
  PROVE  CallInv' /\ AccountInv' /\ PairInv'
<1>1. <<c, "obtain">> \in Callers /\ <<c, "renew">> \in Callers
  BY DEF Callers
<1>2. CASE Start(c)
  <2>1. call[<<c, "obtain">>].pc = "idle"
    BY <1>2 DEF Start, FilesInv, TypeInv, OffInv
  <2> QED BY <1>1, <1>2, <2>1, CalledInv, SameInv DEF Start
<1>3. CASE Move(c)
  BY <1>1, <1>3, CalledInv, SameInv DEF Move
<1>4. CASE Tick(c)
  BY <1>1, <1>4, CalledInv, RestartInv DEF Tick, Crash
<1> QED BY <1>2, <1>3, <1>4

LEMMA StatInv ==
  ASSUME FilesInv, NEW p \in Callers, Stat(p)
  PROVE  CallInv' /\ AccountInv' /\ PairInv'
<1>1. call[p].todo = <<>> /\ UNCHANGED <<file, mixed, spoilt>>
  BY DEF Stat, FilesInv, TypeInv, TypeOK
<1>2. CASE call' = [call EXCEPT ![p].pc = "akey"]
  <2> DEFINE n == [call[p] EXCEPT !.pc = "akey"]
  <2>1. call' = [call EXCEPT ![p] = n] /\ n.pc = "akey" /\ n.todo = <<>>
    BY <1>1, <1>2 DEF FilesInv, TypeInv, TypeOK, Call
  <2> HIDE DEF n
  <2> QED BY <1>1, <2>1, QuietInv, Todos
<1>3. CASE Done(p)
  BY <1>1, <1>3, DoneInv
<1> QED BY <1>2, <1>3 DEF Stat

LEMMA ReadKeyInv ==
  ASSUME FilesInv, NEW p \in Callers, ReadKey(p)
  PROVE  CallInv' /\ AccountInv' /\ PairInv'
<1>0. call[p] \in Call /\ call[p].todo = <<>>
  BY DEF ReadKey, FilesInv, TypeInv, TypeOK
<1>1. ASSUME NEW k \in NewKeys,
             call' = [call EXCEPT ![p] = [@ EXCEPT !.pc = "save", !.akey = k, !.todo = <<"akey">>]],
             UNCHANGED <<file, mixed, spoilt>>
      PROVE  CallInv' /\ AccountInv' /\ PairInv'
  <2> DEFINE n == [call[p] EXCEPT !.pc = "save", !.akey = k, !.todo = <<"akey">>]
  <2>1. /\ call' = [call EXCEPT ![p] = n]
        /\ n.pc = "save" /\ n.akey \in Keys /\ n.todo = <<"akey">>
    BY <1>0, <1>1 DEF Call, NewKeys
  <2> HIDE DEF n
  <2> QED BY <1>0, <1>1, <2>1, QuietInv, Todos
<1>2. CASE /\ file.akey \in Keys
           /\ call' = [call EXCEPT ![p] = [@ EXCEPT !.pc = "acct", !.akey = file.akey]]
           /\ UNCHANGED <<file, mixed, spoilt>>
  <2> DEFINE n == [call[p] EXCEPT !.pc = "acct", !.akey = file.akey]
  <2>1. /\ call' = [call EXCEPT ![p] = n]
        /\ n.pc = "acct" /\ n.akey = file.akey /\ n.todo = <<>>
    BY <1>0, <1>2 DEF Call
  <2> HIDE DEF n
  <2> QED BY <1>0, <1>2, <2>1, QuietInv, Todos
<1>3. CASE Fails(p)
  BY <1>0, <1>3, FailsInv
<1> QED BY <1>1, <1>2, <1>3 DEF ReadKey

LEMMA ReadAccountInv ==
  ASSUME FilesInv, NEW p \in Callers, ReadAccount(p)
  PROVE  CallInv' /\ AccountInv' /\ PairInv'
<1>0. /\ call[p] \in Call /\ call[p].todo = <<>>
      /\ call[p].akey \in Keys /\ ("account" \notin spoilt => call[p].akey = file.akey)
  BY DEF ReadAccount, FilesInv, TypeInv, TypeOK, CallInv, CallHolds, AccountInv, Past
<1>1. CASE call' = [call EXCEPT ![p].pc = "register"] /\ UNCHANGED <<file, mixed, spoilt>>
  <2> DEFINE n == [call[p] EXCEPT !.pc = "register"]
  <2>1. /\ call' = [call EXCEPT ![p] = n]
        /\ n.pc = "register" /\ n.akey = call[p].akey /\ n.todo = <<>>
    BY <1>0, <1>1 DEF Call
  <2> HIDE DEF n
  <2> QED BY <1>0, <1>1, <2>1, QuietInv, Todos
<1>2. CASE /\ file.acct \in Keys
           /\ call' = [call EXCEPT ![p] = [@ EXCEPT !.acct = file.acct,
                                             !.pc = IF p[2] = "obtain" THEN "request" ELSE "crt"]]
           /\ UNCHANGED <<file, mixed, spoilt>>
  <2> DEFINE n == [call[p] EXCEPT !.acct = file.acct,
                                  !.pc = IF p[2] = "obtain" THEN "request" ELSE "crt"]
  <2>1. /\ call' = [call EXCEPT ![p] = n]
        /\ n.pc \in {"request", "crt"} /\ n.akey = call[p].akey /\ n.todo = <<>>
    BY <1>0, <1>2 DEF Call
  <2>2. file.acct # Absent
    BY <1>2, Contents
  <2> HIDE DEF n
  <2> QED BY <1>0, <1>2, <2>1, <2>2, QuietInv, Todos
<1>3. CASE Fails(p)
  BY <1>0, <1>3, FailsInv
<1> QED BY <1>1, <1>2, <1>3 DEF ReadAccount

LEMMA RegisterInv ==
  ASSUME FilesInv, NEW p \in Callers, Register(p)
  PROVE  CallInv' /\ AccountInv' /\ PairInv'
<1>0. /\ call[p] \in Call /\ call[p].todo = <<>>
      /\ call[p].akey \in Keys /\ ("account" \notin spoilt => call[p].akey = file.akey)
  BY DEF Register, FilesInv, TypeInv, TypeOK, CallInv, CallHolds, AccountInv, Past
<1> DEFINE n == [call[p] EXCEPT !.pc = "save", !.acct = call[p].akey, !.todo = <<"acct">>]
<1>1. /\ call' = [call EXCEPT ![p] = n]
      /\ n.pc = "save" /\ n.acct = n.akey /\ n.akey = call[p].akey /\ n.todo = <<"acct">>
  BY <1>0 DEF Register, Call
<1> HIDE DEF n
<1> QED BY <1>0, <1>1, QuietInv, Todos DEF Register

LEMMA ReadCertInv ==
  ASSUME FilesInv, NEW p \in Callers, ReadCert(p)
  PROVE  CallInv' /\ AccountInv' /\ PairInv'
<1>0. /\ call[p] \in Call /\ call[p].todo = <<>> /\ file.acct # Absent
      /\ call[p].akey \in Keys /\ ("account" \notin spoilt => call[p].akey = file.akey)
  BY DEF ReadCert, FilesInv, TypeInv, TypeOK, CallInv, CallHolds, AccountInv, Past
<1>1. CASE call' = [call EXCEPT ![p].pc = "request"] /\ UNCHANGED <<file, mixed, spoilt>>
  <2> DEFINE n == [call[p] EXCEPT !.pc = "request"]
  <2>1. /\ call' = [call EXCEPT ![p] = n]
        /\ n.pc = "request" /\ n.akey = call[p].akey /\ n.todo = <<>>
    BY <1>0, <1>1 DEF Call
  <2> HIDE DEF n
  <2> QED BY <1>0, <1>1, <2>1, QuietInv, Todos
<1>2. CASE Done(p) /\ UNCHANGED <<file, mixed, spoilt>>
  BY <1>0, <1>2, DoneInv
<1>3. CASE Fails(p)
  BY <1>0, <1>3, FailsInv
<1> QED BY <1>1, <1>2, <1>3 DEF ReadCert

LEMMA RefuseInv ==
  ASSUME FilesInv, NEW p \in Callers, Refuse(p)
  PROVE  CallInv' /\ AccountInv' /\ PairInv'
<1>1. call[p].todo = <<>>
  BY DEF Refuse, FilesInv, TypeInv, TypeOK
<1> QED BY <1>1, FailsInv DEF Refuse

LEMMA IssueInv ==
  ASSUME FilesInv, NEW p \in Callers, Issue(p)
  PROVE  CallInv' /\ AccountInv' /\ PairInv'
<1> DEFINE n == [call[p] EXCEPT !.pc = "save", !.cert = issued + 1, !.todo = <<"crt", "key">>]
<1> DEFINE others == {q \in Callers : Saving(q)}
<1>1. /\ call' = [call EXCEPT ![p] = n] /\ n.pc = "save" /\ n.todo = <<"crt", "key">>
      /\ n.akey = call[p].akey /\ n.cert \in Certs
      /\ UNCHANGED <<file, spoilt>>
  BY CertAssumption DEF Issue, FilesInv, TypeInv, TypeOK, Call, Certs
<1> HIDE DEF n
<1>2. /\ call[p].todo = <<>> /\ Past(p) /\ ~Saving(p) /\ file.acct # Absent
      /\ mixed' = IF others = {} THEN mixed ELSE mixed \cup others \cup {p}
      /\ mixed \subseteq Callers
  BY Todos DEF Issue, FilesInv, TypeInv, TypeOK, Past, Saving, CallInv, CallHolds
<1>3. Past(p)' /\ Saving(p)' /\ ~Making(p)' /\ ~Begun(p)' /\ ~Begun(p)
  BY <1>1, <1>2, Others, Todos DEF Past, Saving, Making, Begun
<1>4. CallInv'
  <2>1. CallHolds(p) /\ (file.crt # Absent => file.acct # Absent)
    BY DEF FilesInv, CallInv
  <2>2. CallHolds(p)'
    BY <1>1, <1>2, <1>3, <2>1, Others, Todos DEF CallHolds
  <2> QED BY <1>1, <2>1, <2>2, OthersHold
<1>5. AccountInv'
  BY <1>1, <1>2, <1>3, Others DEF FilesInv, AccountInv
<1>6. PairInv'
  <2>1. \A q \in mixed' : Saving(q)'
    BY <1>1, <1>2, <1>3, Others DEF FilesInv, PairInv
  <2>2. ASSUME NEW q \in Callers, NEW r \in Callers, Saving(q)', Saving(r)', q # r
        PROVE  q \in mixed'
    <3>1. CASE others = {}
      BY <1>1, <2>2, <3>1, Others
    <3>2. CASE others # {}
      BY <1>1, <1>2, <2>2, <3>2, Others
    <3> QED BY <3>1, <3>2
  <2>3. \A q \in Callers : call'[q].todo = <<"key">> /\ q \notin mixed' => file'.crt = call'[q].cert
    BY <1>1, <1>2, Others, Todos DEF FilesInv, PairInv
  <2>4. (\A q \in Callers : ~Begun(q)') /\ Absent \notin {file'.crt, file'.key} /\ "pair" \notin spoilt'
        => file'.crt = file'.key /\ file'.crt \in Certs
    BY <1>1, <1>3, Others DEF FilesInv, PairInv
  <2> QED BY <2>1, <2>2, <2>3, <2>4 DEF PairInv
<1> QED BY <1>4, <1>5, <1>6

LEMMA TruncateInv ==
  ASSUME FilesInv, NEW p \in Callers, Truncate(p)
  PROVE  CallInv' /\ AccountInv' /\ PairInv'
<1> DEFINE f == Head(call[p].todo)
<1> DEFINE n == [call[p] EXCEPT !.pc = "write"]
<1>1. /\ call' = [call EXCEPT ![p] = n] /\ n.pc = "write" /\ n.todo = call[p].todo
      /\ n.akey = call[p].akey /\ n.acct = call[p].acct /\ n.cert = call[p].cert
      /\ call[p].pc = "save" /\ UNCHANGED mixed
  BY DEF Truncate, FilesInv, TypeInv, TypeOK, Call
<1>2. call[p].todo \in {<<"akey">>, <<"acct">>, <<"crt", "key">>, <<"key">>}
  BY <1>1 DEF FilesInv, TypeInv, TypeOK, Call
<1> HIDE DEF n
<1>3. Past(p)' = Past(p) /\ Saving(p)' = Saving(p)
  BY <1>1, Others DEF Past, Saving
<1>4. ~Making(p)
  BY <1>1 DEF Making
<1>5. CASE call[p].todo = <<"akey">>
  <2>1. file' = [file EXCEPT !.akey = Torn]
    BY <1>5, Todos DEF Truncate
  <2>2. file'.akey = Torn /\ file'.acct = file.acct /\ file'.crt = file.crt /\ file'.key = file.key
    BY <2>1 DEF FilesInv, TypeInv, TypeOK, Files
  <2>3. ~Saving(p) /\ ~Past(p) /\ ~Begun(p)' /\ ~Begun(p) /\ ("pair" \in spoilt' <=> "pair" \in spoilt)
    BY <1>1, <1>3, <1>5, Todos DEF Saving, Begun, Past, Truncate
  <2>4. CallInv'
    <3>1. CallHolds(p) /\ (file.crt # Absent => file.acct # Absent)
      BY DEF FilesInv, CallInv
    <3>2. CallHolds(p)'
      BY <1>1, <1>3, <1>5, <2>2, <2>3, <3>1, Others, Todos DEF CallHolds
    <3> QED BY <1>1, <2>2, <3>1, <3>2, OthersHold, Contents
  <2>5. AccountInv'
    <3> SUFFICES ASSUME "account" \notin spoilt' PROVE AccountInv'
      BY DEF AccountInv
    <3>1. "account" \notin spoilt /\ file.akey = Absent
      BY <1>5, Todos DEF Truncate
    <3>2. \A q \in Callers : ~Past(q) /\ ~Making(q)
      BY <3>1, Contents DEF FilesInv, AccountInv, CallInv, CallHolds
    <3>3. file.acct \notin Keys
      BY <3>1, Contents DEF FilesInv, AccountInv
    <3> QED BY <1>1, <1>3, <2>2, <3>2, <3>3, Others DEF AccountInv
  <2>6. PairInv'
    BY <1>1, <1>3, <1>5, <2>2, <2>3, PairKept, Todos
  <2> QED BY <2>4, <2>5, <2>6
<1>6. CASE call[p].todo = <<"acct">>
  <2>1. file' = [file EXCEPT !.acct = Torn]
    BY <1>6, Todos DEF Truncate
  <2>2. file'.acct = Torn /\ file'.akey = file.akey /\ file'.crt = file.crt /\ file'.key = file.key
    BY <2>1 DEF FilesInv, TypeInv, TypeOK, Files
  <2>3. ~Saving(p) /\ ~Begun(p)' /\ ~Begun(p) /\ ~Making(p)' /\ spoilt' = spoilt
    BY <1>1, <1>3, <1>6, Others, Todos DEF Saving, Begun, Making, Truncate
  <2>4. CallInv'
    <3>1. CallHolds(p) /\ (file.crt # Absent => file.acct # Absent)
      BY DEF FilesInv, CallInv
    <3>2. CallHolds(p)'
      BY <1>1, <1>3, <1>6, <2>2, <2>3, <3>1, Others, Todos DEF CallHolds
    <3> QED BY <1>1, <2>2, <3>1, <3>2, OthersHold, Contents
  <2>5. AccountInv'
    BY <1>1, <1>3, <2>2, <2>3, AccountKept, Contents
  <2>6. PairInv'
    BY <1>1, <1>3, <1>6, <2>2, <2>3, PairKept, Todos
  <2> QED BY <2>4, <2>5, <2>6
<1>7. CASE call[p].todo \in {<<"crt", "key">>, <<"key">>}
  <2>1. /\ file'.akey = file.akey /\ file'.acct = file.acct
        /\ call[p].todo = <<"key">> => file'.crt = file.crt
    <3>1. CASE call[p].todo = <<"crt", "key">>
      BY <3>1, Todos DEF Truncate, FilesInv, TypeInv, TypeOK, Files
    <3>2. CASE call[p].todo = <<"key">>
      BY <3>2, Todos DEF Truncate, FilesInv, TypeInv, TypeOK, Files
    <3> QED BY <1>7, <3>1, <3>2
  <2>2. Saving(p) /\ Begun(p)' /\ ~Making(p)' /\ spoilt' = spoilt
    BY <1>1, <1>3, <1>7, Others, Todos DEF Saving, Begun, Making, Truncate
  <2>3. CallInv'
    <3>1. CallHolds(p) /\ (file.crt # Absent => file.acct # Absent)
      BY DEF FilesInv, CallInv
    <3>2. CallHolds(p)'
      BY <1>1, <1>3, <1>7, <2>1, <2>2, <3>1, Others, Todos DEF CallHolds
    <3>3. file.acct # Absent
      BY <2>2, <3>1 DEF CallHolds
    <3> QED BY <1>1, <2>1, <3>2, <3>3, OthersHold
  <2>4. AccountInv'
    BY <1>1, <1>3, <2>1, <2>2, AccountKept
  <2>5. PairInv'
    <3>1. ASSUME NEW q \in Callers, call'[q].todo = <<"key">>, q \notin mixed'
          PROVE  file'.crt = call'[q].cert
      <4>1. CASE q = p
        BY <1>1, <2>1, <3>1, <4>1, Others DEF FilesInv, PairInv
      <4>2. CASE q # p
        <5>1. call[q].todo = <<"key">>
          BY <1>1, <3>1, <4>2, Others
        <5>2. Saving(q)
          BY <5>1, Todos DEF FilesInv, TypeInv, TypeOK, Saving
        <5> QED BY <1>1, <2>2, <3>1, <4>2, <5>2 DEF FilesInv, PairInv
      <4> QED BY <4>1, <4>2
    <3>2. /\ \A q \in mixed' : Saving(q)'
          /\ \A q, r \in Callers : Saving(q)' /\ Saving(r)' /\ q # r => q \in mixed'
      BY <1>1, <1>3, SaversKept
    <3> QED BY <2>2, <3>1, <3>2 DEF PairInv
  <2> QED BY <2>3, <2>4, <2>5
<1> QED BY <1>2, <1>5, <1>6, <1>7

LEMMA WriteInv ==
  ASSUME FilesInv, NEW p \in Callers, Write(p)
  PROVE  CallInv' /\ AccountInv' /\ PairInv'
<1>0. /\ TypeOK /\ call[p] \in Call /\ call[p].pc = "write" /\ UNCHANGED <<mixed, spoilt>>
      /\ CallHolds(p) /\ (file.crt # Absent => file.acct # Absent)
  BY DEF Write, FilesInv, TypeInv, TypeOK, CallInv
<1>1. CASE /\ call[p].todo = <<"akey">>
           /\ file' = [file EXCEPT !.akey = call[p].akey]
           /\ call' = [call EXCEPT ![p] = [call[p] EXCEPT !.todo = <<>>, !.pc = "acct"]]
  <2> DEFINE n == [call[p] EXCEPT !.todo = <<>>, !.pc = "acct"]
  <2>1. call' = [call EXCEPT ![p] = n] /\ n.todo = <<>> /\ n.pc = "acct" /\ n.akey = call[p].akey
    BY <1>0, <1>1 DEF Call
  <2>2. /\ file'.akey = call[p].akey /\ file'.acct = file.acct
        /\ file'.crt = file.crt /\ file'.key = file.key
    BY <1>0, <1>1 DEF TypeOK, Files
  <2> HIDE DEF n
  <2>3. Making(p) /\ ~Saving(p) /\ ~Making(p)' /\ ~Saving(p)' /\ Past(p)' /\ call[p].akey \in Keys
    BY <1>0, <1>1, <2>1, Others, Todos DEF Making, Saving, Past, CallHolds
  <2>4. CallInv'
    <3>1. CallHolds(p)'
      BY <2>1, <2>3, Others, Todos DEF CallHolds
    <3> QED BY <1>0, <2>1, <2>2, <3>1, OthersHold
  <2>5. AccountInv'
    <3> SUFFICES ASSUME "account" \notin spoilt PROVE AccountInv'
      BY <1>0 DEF AccountInv
    \* The key was not there, so nobody has got past it, and nobody else makes it.
    <3>1. file.akey = Torn /\ \A q \in Callers : Making(q) => q = p
      BY <2>3 DEF FilesInv, AccountInv
    <3>2. \A q \in Callers : ~Past(q)
      BY <3>1, Contents DEF FilesInv, AccountInv, CallInv, CallHolds
    <3>3. file.acct \notin Keys
      BY <3>1, Contents DEF FilesInv, AccountInv
    <3> QED BY <2>1, <2>2, <2>3, <3>1, <3>2, <3>3, Others DEF AccountInv
  <2>6. PairInv'
    BY <1>0, <2>1, <2>2, <2>3, PairKept, Todos
  <2> QED BY <2>4, <2>5, <2>6
<1>2. CASE /\ call[p].todo = <<"acct">>
           /\ file' = [file EXCEPT !.acct = call[p].acct]
           /\ call' = [call EXCEPT ![p] = [call[p] EXCEPT !.todo = <<>>, !.pc = "request"]]
  <2> DEFINE n == [call[p] EXCEPT !.todo = <<>>, !.pc = "request"]
  <2>1. call' = [call EXCEPT ![p] = n] /\ n.todo = <<>> /\ n.pc = "request" /\ n.akey = call[p].akey
    BY <1>0, <1>2 DEF Call
  <2>2. /\ file'.acct = call[p].acct /\ file'.akey = file.akey
        /\ file'.crt = file.crt /\ file'.key = file.key
    BY <1>0, <1>2 DEF TypeOK, Files
  <2> HIDE DEF n
  <2>3. /\ Past(p) /\ ~Saving(p) /\ ~Making(p)' /\ ~Saving(p)' /\ Past(p)'
        /\ call[p].akey \in Keys /\ call[p].acct = call[p].akey /\ file'.acct # Absent
    BY <1>0, <1>2, <2>1, <2>2, Others, Todos, Contents DEF Making, Saving, Past, CallHolds
  <2>4. CallInv'
    <3>1. CallHolds(p)'
      BY <2>1, <2>3, Others, Todos DEF CallHolds
    <3> QED BY <1>0, <2>1, <2>2, <2>3, <3>1, OthersHold
  <2>5. AccountInv'
    BY <1>0, <2>1, <2>2, <2>3, Others DEF FilesInv, AccountInv
  <2>6. PairInv'
    BY <1>0, <2>1, <2>2, <2>3, PairKept, Todos
  <2> QED BY <2>4, <2>5, <2>6
<1>3. CASE /\ call[p].todo = <<"crt", "key">>
           /\ file' = [file EXCEPT !.crt = call[p].cert]
           /\ call' = [call EXCEPT ![p] = [call[p] EXCEPT !.todo = <<"key">>, !.pc = "save"]]
  <2> DEFINE n == [call[p] EXCEPT !.todo = <<"key">>, !.pc = "save"]
  <2>1. /\ call' = [call EXCEPT ![p] = n] /\ n.todo = <<"key">> /\ n.pc = "save"
        /\ n.akey = call[p].akey /\ n.cert = call[p].cert
    BY <1>0, <1>3 DEF Call
  <2>2. /\ file'.acct = file.acct /\ file'.akey = file.akey
        /\ file'.crt = call[p].cert /\ file'.key = file.key
    BY <1>0, <1>3 DEF TypeOK, Files
  <2> HIDE DEF n
  <2>3. /\ Past(p) /\ Saving(p) /\ ~Making(p)' /\ Saving(p)' /\ Past(p)' /\ Begun(p)'
        /\ call[p].akey \in Keys /\ file.acct # Absent /\ call[p].cert \in Certs
    <3>1. Past(p) /\ Saving(p)
      BY <1>0, <1>3 DEF Saving, Past
    <3>2. call'[p] = n
      BY <2>1, Others
    <3>3. ~Making(p)' /\ Saving(p)' /\ Past(p)' /\ Begun(p)'
      BY <2>1, <3>2, Todos DEF Making, Saving, Past, Begun
    <3> QED BY <1>0, <3>1, <3>3 DEF CallHolds
  <2>4. CallInv'
    <3>0. call'[p] = n
      BY <2>1, Others
    <3>1. call'[p] = n /\ call'[p].todo # <<"acct">>
      BY <2>1, <3>0, Todos
    <3>2. call'[p].akey \in Keys /\ call'[p].cert \in Certs /\ file'.acct # Absent
      BY <2>1, <2>2, <2>3, <3>1
    <3>3. CallHolds(p)'
      BY <3>1, <3>2 DEF CallHolds
    <3> QED BY <1>0, <2>1, <2>2, <2>3, <3>3, OthersHold
  <2>5. AccountInv'
    BY <1>0, <2>1, <2>2, <2>3, Others DEF FilesInv, AccountInv
  <2>6. PairInv'
    <3>1. ASSUME NEW q \in Callers, call'[q].todo = <<"key">>, q \notin mixed'
          PROVE  file'.crt = call'[q].cert
      <4>1. CASE q = p
        BY <2>1, <2>2, <4>1, Others
      <4>2. CASE q # p
        <5>1. call[q].todo = <<"key">>
          BY <2>1, <3>1, <4>2, Others
        <5>2. Saving(q)
          BY <5>1, Todos DEF FilesInv, TypeInv, TypeOK, Saving
        <5> QED BY <1>0, <2>3, <3>1, <4>2, <5>2 DEF FilesInv, PairInv
      <4> QED BY <4>1, <4>2
    <3>2. Saving(p)' = Saving(p)
      BY <2>3 DEF Saving
    <3>3. /\ \A q \in mixed' : Saving(q)'
          /\ \A q, r \in Callers : Saving(q)' /\ Saving(r)' /\ q # r => q \in mixed'
      BY <1>0, <2>1, <3>2, SaversKept
    <3> QED BY <2>3, <3>1, <3>3 DEF PairInv
  <2> QED BY <2>4, <2>5, <2>6
<1> QED BY <1>0, <1>1, <1>2, <1>3, WriteCases

LEMMA FinishInv ==
  ASSUME FilesInv, NEW p \in Callers, Finish(p)
  PROVE  CallInv' /\ AccountInv' /\ PairInv'
<1>0. /\ TypeOK /\ call[p] \in Call /\ call[p].pc = "write" /\ call[p].todo = <<"key">>
      /\ call' = [call EXCEPT ![p] = NoCall] /\ mixed' = mixed \ {p}
      /\ spoilt' = IF p \in mixed THEN spoilt \cup {"pair"} ELSE spoilt \ {"pair"}
      /\ CallHolds(p) /\ (file.crt # Absent => file.acct # Absent)
  BY DEF Finish, Done, FilesInv, TypeInv, TypeOK, CallInv
<1>1. /\ file'.acct = file.acct /\ file'.akey = file.akey
      /\ file'.crt = file.crt /\ file'.key = call[p].cert
  <2>1. Head(call[p].todo) = "key"
    BY <1>0, Todos
  <2>2. Written(p) = [file EXCEPT !.key = call[p].cert]
    BY <2>1 DEF Written, FilesInv, TypeInv, TypeOK, Files
  <2> QED BY <2>2 DEF Finish, FilesInv, TypeInv, TypeOK, Files
<1>2. /\ call'[p] = NoCall /\ Saving(p) /\ call[p].cert \in Certs
      /\ ~Saving(p)' /\ ~Begun(p)' /\ ~Making(p)' /\ ~Past(p)'
  BY <1>0, Others, NoCallType, Todos DEF Saving, Begun, Making, Past, CallHolds
<1>3. CallInv'
  <2>1. CallHolds(p)'
    BY <1>2, NoCallType, Todos DEF CallHolds
  <2> QED BY <1>0, <1>1, <2>1, OthersHold
<1>4. AccountInv'
  BY <1>0, <1>1, <1>2, Others DEF FilesInv, AccountInv
<1>5. PairInv'
  <2>1. \A q \in mixed' : q \in Callers /\ q # p /\ Saving(q)'
    BY <1>0, Others DEF FilesInv, PairInv, TypeOK
  <2>2. \A q, r \in Callers : Saving(q)' /\ Saving(r)' /\ q # r => q \in mixed'
    BY <1>0, <1>2, Others DEF FilesInv, PairInv
  <2>3. \A q \in Callers : call'[q].todo = <<"key">> /\ q \notin mixed' => file'.crt = call'[q].cert
    BY <1>0, <1>1, <1>2, Others, NoCallType, Todos DEF FilesInv, PairInv
  <2>4. "pair" \notin spoilt' => file'.crt = file'.key /\ file'.crt \in Certs
    BY <1>0, <1>1, <1>2 DEF FilesInv, PairInv
  <2> QED BY <2>1, <2>2, <2>3, <2>4 DEF PairInv
<1> QED BY <1>3, <1>4, <1>5
-----------------------------------------------------------------------------
LEMMA FilesStep == FilesInv /\ [Next]_vars => CallInv' /\ AccountInv' /\ PairInv'
<1> SUFFICES ASSUME FilesInv, [Next]_vars PROVE CallInv' /\ AccountInv' /\ PairInv'
  OBVIOUS
<1>1. CASE Crash
  BY <1>1, RestartInv DEF Crash
<1>2. CASE Age \/ UNCHANGED vars
  BY <1>2, SameInv DEF Age, vars
<1>3. ASSUME NEW c \in Controllers, Start(c) \/ Move(c) \/ Tick(c)
      PROVE  CallInv' /\ AccountInv' /\ PairInv'
  BY <1>3, NodeInv
<1>4. ASSUME NEW p \in Callers, Stat(p) \/ ReadKey(p) \/ ReadAccount(p) \/ ReadCert(p)
      PROVE  CallInv' /\ AccountInv' /\ PairInv'
  BY <1>4, StatInv, ReadKeyInv, ReadAccountInv, ReadCertInv
<1>5. ASSUME NEW p \in Callers, Truncate(p) \/ Write(p) \/ Finish(p)
      PROVE  CallInv' /\ AccountInv' /\ PairInv'
  BY <1>5, TruncateInv, WriteInv, FinishInv
<1>6. ASSUME NEW p \in Callers, Register(p) \/ Issue(p) \/ Refuse(p)
      PROVE  CallInv' /\ AccountInv' /\ PairInv'
  BY <1>6, RegisterInv, IssueInv, RefuseInv
<1> QED BY <1>1, <1>2, <1>3, <1>4, <1>5, <1>6 DEF Next, Step

LEMMA FilesInvariance == Spec => []FilesInv
<1>1. Init => FilesInv
  BY FilesInit, TypeInit, NoCallType DEF Init, TypeInv, OffInv, Callers, FilesInv
<1>2. FilesInv /\ [Next]_vars => FilesInv'
  BY FilesStep, TypeStep, OffStep DEF FilesInv, TypeInv
<1> QED BY <1>1, <1>2, PTL DEF Spec

\* A certificate and its key belong together whenever nobody is saving, unless an
\* older pair was cut in the middle or two saves overlapped: for any number of
\* controllers, crashes and certificates.
THEOREM PairsFit == Spec => []PairFits
<1>1. FilesInv => PairFits
  BY DEF FilesInv, PairInv, PairFits, Begun
<1> QED BY FilesInvariance, <1>1, PTL

\* The account on the disk is the one of its key, and there is one wherever there
\* is a certificate to renew, unless the key was made twice or a write was cut.
THEOREM AccountsFit == Spec => []AccountFits
<1>1. FilesInv => AccountFits
  BY DEF FilesInv, TypeInv, TypeOK, Files, AccountInv, CallInv, CallHolds, AccountFits
<1> QED BY FilesInvariance, <1>1, PTL
=============================================================================
