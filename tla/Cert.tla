---------------------------------- MODULE Cert ----------------------------------
(***************************************************************************)
(* The certificate files of one domain: DNSCert and HTTPCert, which issue  *)
(* a certificate where there is none, and RenewCert (helper/cert).         *)
(*                                                                         *)
(* Two goroutines of every controller get there: its start and its         *)
(* nodeInfoMonitor through the builder of a TLS inbound (getCertFile), and *)
(* its certMonitor.  All nodes with the domain share the files, nothing    *)
(* is locked, and a file is truncated before it is written.                *)
(*                                                                         *)
(* Abstractions.  A file holds the number of the certificate or account    *)
(* key that was written to it.  The .issuer.crt and .json files are        *)
(* written and never read: they are left out.  The modes dns and http      *)
(* differ in the challenge, which is the ACME server's matter here.  A     *)
(* reload that leaves a renewal of the old controllers running beside the  *)
(* new ones is one more controller.                                        *)
(***************************************************************************)
EXTENDS Naturals, Sequences

CONSTANTS
  Controllers,
  Modes,       \* that the nodes take
  MaxCerts,    \* bound on the certificates issued
  MaxKeys,     \* bound on the account keys at a time
  MaxCrashes,  \* bound on the crashes of the process
  MaxMoves     \* bound on the changes of the nodes

ASSUME CertAssumption ==
  /\ MaxCerts \in Nat \ {0} /\ MaxKeys \in Nat \ {0}
  /\ MaxCrashes \in Nat /\ MaxMoves \in Nat
  /\ Modes \subseteq {"plain", "file", "http", "tls"}

\* "plain" has no TLS, in "file" nothing is issued, "http" stands for dns and http.
\* CertMode none is left out: at a start it is as plain, afterwards as file.
Issued == {"http", "tls"}

Absent == 0
Torn == MaxCerts + MaxKeys + 1
Certs == 1..MaxCerts
Keys == 1..MaxKeys

Callers == Controllers \X {"obtain", "renew"}

VARIABLES
  mode,    \* c.nodeInfo.TlsSettings
  phase,   \* of the controller
  task,    \* whether Start added "cert renew"
  file,    \* the certificate, its key, the account's key and the account
  due,     \* the certificates up to this one are about to expire
  issued,  \* the last certificate issued
  call,    \* DNSCert or HTTPCert, and RenewCert, of every controller
  crashes, moves,
  mixed,   \* history: the saves of a certificate that overlap another
  spoilt   \* history: what was left by a save that was cut or mixed

nodeVars == <<mode, phase, task, moves>>
acmeVars == <<due, issued>>
historyVars == <<mixed, spoilt>>
vars == <<nodeVars, file, acmeVars, call, crashes, historyVars>>

Files == [crt : {Absent, Torn} \cup Certs, key : {Absent, Torn} \cup Certs,
          akey : {Absent, Torn} \cup Keys, acct : {Absent, Torn} \cup Keys]

\* The call holds the account's key, the account and the certificate, and has
\* the files of todo to write.
Call == [pc : {"idle", "stat", "akey", "acct", "register", "crt", "request", "save", "write"},
         akey : {Absent} \cup Keys, acct : {Absent} \cup Keys, cert : {Absent} \cup Certs,
         todo : {<<>>, <<"akey">>, <<"acct">>, <<"crt", "key">>, <<"key">>}]
NoCall == [pc |-> "idle", akey |-> Absent, acct |-> Absent, cert |-> Absent, todo |-> <<>>]

Init ==
  /\ mode \in [Controllers -> Modes]
  /\ phase = [c \in Controllers |-> "off"]
  /\ task = [c \in Controllers |-> FALSE]
  /\ file = [crt |-> Absent, key |-> Absent, akey |-> Absent, acct |-> Absent]
  /\ due = 0 /\ issued = 0
  /\ call = [p \in Callers |-> NoCall]
  /\ crashes = 0 /\ moves = 0
  /\ mixed = {} /\ spoilt = {}

\* p is in SaveResource.
Saving(p) == call[p].pc \in {"save", "write"} /\ call[p].todo \in {<<"crt", "key">>, <<"key">>}
\* ... and has truncated a file.
Begun(p) == Saving(p) /\ ~ (call[p].pc = "save" /\ call[p].todo = <<"crt", "key">>)
-----------------------------------------------------------------------------
(* The process. *)

\* Every controller starts again, and a file is as far as it was written.
Restart ==
  /\ phase' = [c \in Controllers |-> "off"]
  /\ task' = [c \in Controllers |-> FALSE]
  /\ call' = [p \in Callers |-> NoCall]
  /\ mixed' = {}
  /\ spoilt' = spoilt
       \cup (IF file.key # Absent /\ \E p \in Callers : Begun(p) THEN {"pair"} ELSE {})
       \cup (IF Torn \in {file.akey, file.acct} THEN {"account"} ELSE {})
  /\ UNCHANGED <<mode, moves, file, acmeVars>>

Crash ==
  /\ crashes < MaxCrashes
  /\ crashes' = crashes + 1
  /\ Restart

\* Manager.Start starts one controller after another; the builder of a TLS
\* inbound asks for the certificate.
Start(c) ==
  /\ phase[c] = "off" /\ \A d \in Controllers : phase[d] # "starting"
  /\ IF mode[c] \in Issued
     THEN /\ phase' = [phase EXCEPT ![c] = "starting"]
          /\ call' = [call EXCEPT ![<<c, "obtain">>].pc = "stat"]
          /\ UNCHANGED task
     ELSE /\ phase' = [phase EXCEPT ![c] = "on"]
          /\ task' = [task EXCEPT ![c] = mode[c] = "file"]
          /\ UNCHANGED call
  /\ UNCHANGED <<mode, moves, file, acmeVars, crashes, historyVars>>

\* nodeInfoMonitor finds a changed node and builds its inbound again.
Move(c) ==
  /\ phase[c] = "on" /\ call[<<c, "obtain">>].pc = "idle" /\ moves < MaxMoves
  /\ \E m \in Modes :
       /\ mode' = [mode EXCEPT ![c] = m]
       /\ call' = IF m \in Issued THEN [call EXCEPT ![<<c, "obtain">>].pc = "stat"] ELSE call
  /\ moves' = moves + 1
  /\ UNCHANGED <<phase, task, file, acmeVars, crashes, historyVars>>

\* certMonitor renews in two of the modes only.  A node without TLS has no
\* TlsSettings: the process ends where one that had TLS at its start has lost it.
Tick(c) ==
  /\ phase[c] = "on" /\ task[c] /\ call[<<c, "renew">>].pc = "idle"
  /\ \/ /\ mode[c] = "http"
        /\ call' = [call EXCEPT ![<<c, "renew">>].pc = "akey"]
        /\ UNCHANGED <<nodeVars, file, acmeVars, crashes, historyVars>>
     \/ mode[c] = "plain" /\ Crash

\* Thirty days before the next one expires; the last one never does here.
Age ==
  /\ due < issued /\ due + 1 < MaxCerts
  /\ due' = due + 1
  /\ UNCHANGED <<nodeVars, file, issued, call, crashes, historyVars>>
-----------------------------------------------------------------------------
(* How a call ends. *)

\* Mutant: what the call held is kept.
Done_KeepsCall(p) ==
  /\ call' = [call EXCEPT ![p].pc = "idle"]
  /\ IF p[2] = "obtain" /\ phase[p[1]] = "starting"
     THEN /\ phase' = [phase EXCEPT ![p[1]] = "on"]
          /\ task' = [task EXCEPT ![p[1]] = TRUE]
     ELSE UNCHANGED <<phase, task>>
  /\ UNCHANGED <<mode, moves>>

\* The inbound gets its files; Start goes on to add the tasks.
Done(p) ==
  /\ call' = [call EXCEPT ![p] = NoCall]
  /\ IF p[2] = "obtain" /\ phase[p[1]] = "starting"
     THEN /\ phase' = [phase EXCEPT ![p[1]] = "on"]
          /\ task' = [task EXCEPT ![p[1]] = TRUE]
     ELSE UNCHANGED <<phase, task>>
  /\ UNCHANGED <<mode, moves>>

\* A panic is recovered and returned as an error, which certMonitor prints and
\* nodeInfoMonitor gives up at; Manager.Start panics.
Fails(p) ==
  IF p[2] = "obtain" /\ phase[p[1]] = "starting"
  THEN Restart /\ UNCHANGED crashes
  ELSE /\ call' = [call EXCEPT ![p] = NoCall]
       /\ UNCHANGED <<nodeVars, file, acmeVars, crashes, historyVars>>
-----------------------------------------------------------------------------
(* DNSCert, HTTPCert and RenewCert, step by step. *)

\* checkCertFile: nothing is issued where there are two files.
Stat(p) ==
  /\ call[p].pc = "stat"
  /\ IF Absent \in {file.crt, file.key}
     THEN call' = [call EXCEPT ![p].pc = "akey"] /\ UNCHANGED nodeVars
     ELSE Done(p)
  /\ UNCHANGED <<file, acmeVars, crashes, historyVars>>

\* A key that nobody has; which one does not matter.
NewKeys ==
  LET free == Keys \ ({file.acct} \cup {call[q].akey : q \in Callers}) IN
  {k \in free : \A j \in free : k <= j}

\* GetPrivateKey, of a renewal too, generates the key that is missing.
ReadKey(p) ==
  /\ call[p].pc = "akey"
  /\ \/ /\ file.akey = Absent
        /\ \E k \in NewKeys :
             call' = [call EXCEPT ![p] = [@ EXCEPT !.pc = "save", !.akey = k, !.todo = <<"akey">>]]
        /\ UNCHANGED <<nodeVars, file, acmeVars, crashes, historyVars>>
     \/ /\ file.akey \in Keys
        /\ call' = [call EXCEPT ![p] = [@ EXCEPT !.pc = "acct", !.akey = file.akey]]
        /\ UNCHANGED <<nodeVars, file, acmeVars, crashes, historyVars>>
     \/ file.akey = Torn /\ Fails(p)

\* LoadAccount.  Only a call that issues registers an account.
ReadAccount(p) ==
  /\ call[p].pc = "acct"
  /\ \/ /\ file.acct = Absent /\ p[2] = "obtain"
        /\ call' = [call EXCEPT ![p].pc = "register"]
        /\ UNCHANGED <<nodeVars, file, acmeVars, crashes, historyVars>>
     \/ /\ file.acct \in Keys
        /\ call' = [call EXCEPT ![p] = [@ EXCEPT !.acct = file.acct,
                                          !.pc = IF p[2] = "obtain" THEN "request" ELSE "crt"]]
        /\ UNCHANGED <<nodeVars, file, acmeVars, crashes, historyVars>>
     \/ /\ file.acct = Torn \/ (file.acct = Absent /\ p[2] = "renew")
        /\ Fails(p)

\* Mutant: the account is not stored.
Register_Unsaved(p) ==
  /\ call[p].pc = "register"
  /\ call' = [call EXCEPT ![p] = [@ EXCEPT !.pc = "request", !.acct = call[p].akey]]
  /\ UNCHANGED <<nodeVars, file, acmeVars, crashes, historyVars>>

Register(p) ==
  /\ call[p].pc = "register"
  /\ call' = [call EXCEPT ![p] = [@ EXCEPT !.pc = "save", !.acct = call[p].akey, !.todo = <<"acct">>]]
  /\ UNCHANGED <<nodeVars, file, acmeVars, crashes, historyVars>>

\* Mutant: renews what is not due.
ReadCert_Flipped(p) ==
  /\ call[p].pc = "crt"
  /\ \/ /\ file.crt \in Certs \ 1..due
        /\ call' = [call EXCEPT ![p].pc = "request"]
        /\ UNCHANGED <<nodeVars, file, acmeVars, crashes, historyVars>>
     \/ /\ file.crt \in 1..due
        /\ Done(p)
        /\ UNCHANGED <<file, acmeVars, crashes, historyVars>>
     \/ file.crt \in {Absent, Torn} /\ Fails(p)

\* renewForDomains.
ReadCert(p) ==
  /\ call[p].pc = "crt"
  /\ \/ /\ file.crt \in 1..due
        /\ call' = [call EXCEPT ![p].pc = "request"]
        /\ UNCHANGED <<nodeVars, file, acmeVars, crashes, historyVars>>
     \/ /\ file.crt \in Certs \ 1..due
        /\ Done(p)
        /\ UNCHANGED <<file, acmeVars, crashes, historyVars>>
     \/ file.crt \in {Absent, Torn} /\ Fails(p)

\* The ACME server knows the account by its key and issues a certificate.
Issue(p) ==
  /\ call[p].pc = "request" /\ call[p].acct = call[p].akey /\ issued < MaxCerts
  /\ issued' = issued + 1
  /\ call' = [call EXCEPT ![p] = [@ EXCEPT !.pc = "save", !.cert = issued + 1, !.todo = <<"crt", "key">>]]
  /\ mixed' = LET others == {q \in Callers : Saving(q)} IN
              IF others = {} THEN mixed ELSE mixed \cup others \cup {p}
  /\ UNCHANGED <<nodeVars, file, due, crashes, spoilt>>

\* The ACME server does not answer, or refuses.
Refuse(p) ==
  /\ call[p].pc \in {"register", "request"}
  /\ Fails(p)
-----------------------------------------------------------------------------
(* os.WriteFile and os.Create. *)

Truncate(p) ==
  /\ call[p].pc = "save"
  /\ file' = [file EXCEPT ![Head(call[p].todo)] = Torn]
  /\ call' = [call EXCEPT ![p].pc = "write"]
  /\ spoilt' = IF Head(call[p].todo) = "akey" /\ file.akey # Absent
               THEN spoilt \cup {"account"} ELSE spoilt
  /\ UNCHANGED <<nodeVars, acmeVars, crashes, mixed>>

Written(p) ==
  LET f == Head(call[p].todo) IN
  [file EXCEPT ![f] = CASE f \in {"crt", "key"} -> call[p].cert
                        [] f = "akey" -> call[p].akey
                        [] f = "acct" -> call[p].acct]

\* Where a call goes on when the file f is written.
AfterWrite(f) ==
  CASE f = "akey" -> "acct" [] f = "acct" -> "request" [] f = "crt" -> "save"

\* One file of SaveResource, or of the account.
Write(p) ==
  /\ call[p].pc = "write" /\ call[p].todo # <<"key">>
  /\ file' = Written(p)
  /\ call' = [call EXCEPT ![p].todo = Tail(@), ![p].pc = AfterWrite(Head(call[p].todo))]
  /\ UNCHANGED <<nodeVars, acmeVars, crashes, historyVars>>

\* Mutant: nobody looks at the error of the last write.
Finish_Unchecked(p) ==
  /\ call[p].pc = "write" /\ call[p].todo = <<"key">>
  /\ Done(p)
  /\ spoilt' = IF p \in mixed THEN spoilt \cup {"pair"} ELSE spoilt \ {"pair"}
  /\ mixed' = mixed \ {p}
  /\ UNCHANGED <<file, acmeVars, crashes>>

\* The last one.  A save that was not disturbed makes good what is there.
Finish(p) ==
  /\ call[p].pc = "write" /\ call[p].todo = <<"key">>
  /\ file' = Written(p)
  /\ Done(p)
  /\ spoilt' = IF p \in mixed THEN spoilt \cup {"pair"} ELSE spoilt \ {"pair"}
  /\ mixed' = mixed \ {p}
  /\ UNCHANGED <<acmeVars, crashes>>
-----------------------------------------------------------------------------
Step(p) ==
  \/ Stat(p) \/ ReadKey(p) \/ ReadAccount(p) \/ ReadCert(p)
  \/ Truncate(p) \/ Write(p) \/ Finish(p)

Next ==
  \/ Crash \/ Age
  \/ \E c \in Controllers : Start(c) \/ Move(c) \/ Tick(c)
  \/ \E p \in Callers : Step(p) \/ Register(p) \/ Issue(p) \/ Refuse(p)

Spec == Init /\ [][Next]_vars

\* The process goes on, the timer of certMonitor ticks, and the ACME server does
\* not refuse for ever.
FairSpec ==
  /\ Spec
  /\ WF_vars(\E c \in Controllers : Start(c) \/ Tick(c))
  /\ WF_vars(\E p \in Callers : Step(p) \/ Refuse(p))
  /\ SF_vars(\E p \in Callers : Register(p)) /\ SF_vars(\E p \in Callers : Issue(p))
-----------------------------------------------------------------------------
(* Correctness properties. *)

\* Every variable has its type, a call that is not made holds nothing, one that
\* saves has something to save, and every certificate there is was issued.
TypeOK ==
  /\ mode \in [Controllers -> Modes] /\ task \in [Controllers -> BOOLEAN]
  /\ phase \in [Controllers -> {"off", "starting", "on"}]
  /\ file \in Files /\ issued \in 0..MaxCerts /\ due \in 0..issued
  /\ call \in [Callers -> Call] /\ mixed \subseteq Callers /\ spoilt \subseteq {"pair", "account"}
  /\ crashes \in 0..MaxCrashes /\ moves \in 0..MaxMoves
  /\ \A p \in Callers : /\ call[p].pc = "idle" => call[p] = NoCall
                        /\ call[p].pc \in {"save", "write"} <=> call[p].todo # <<>>
                        /\ call[p].cert <= issued

\* When nobody is saving, a certificate and a key on the disk belong together,
\* however starts, rebuilds, renewals and crashes interleave, unless a save of
\* one over an older one was cut, or two saves overlapped; and the next save
\* that is not disturbed makes it good (SaveResource, checkCertFile).
PairFits ==
  /\ ~ \E p \in Callers : Saving(p)
  /\ Absent \notin {file.crt, file.key}
  /\ "pair" \notin spoilt
  => file.crt = file.key /\ file.crt \in Certs

\* Where there is a certificate there is the account that can renew it, stored
\* with its own key, unless the key was made twice at a time or a crash came in
\* the middle of a write: RenewCert never registers one (Run, Renew).
AccountFits ==
  /\ file.crt # Absent /\ "account" \notin spoilt
  /\ Torn \notin {file.akey, file.acct}
  => file.akey = file.acct /\ file.acct \in Keys

\* A certificate that is about to expire, with all that its renewal needs.
Renewable ==
  /\ \E c \in Controllers : phase[c] = "on" /\ task[c] /\ mode[c] = "http"
  /\ file.crt \in 1..due /\ file.akey = file.acct /\ file.acct \in Keys
  /\ issued < MaxCerts

\* It does not stay so: whatever crashed, failed or overlapped before, certMonitor
\* renews a certificate of the modes dns and http in the end.
EventuallyRenewed == []<>~Renewable
=============================================================================
