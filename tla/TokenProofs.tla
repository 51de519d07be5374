---------------------------- MODULE TokenProofs -----------------------------
(***************************************************************************)
(* A sign-in is never lost, for every number of processes and tokens: the  *)
(* file is removed only when the keychain has a token, and what is saved   *)
(* or moved is a token that can be refreshed (IInv).  And a user is asked  *)
(* for it once: while nothing fails, a load finds what was saved (QInv).   *)
(***************************************************************************)
EXTENDS TokenCache, TLAPS

Process ==
    [at : Points, store : {"keychain", "file"}, token : Token,
     found : BOOLEAN, known : BOOLEAN, calls : Nat]

Typed ==
    /\ host \in Hosts /\ reply \in Replies
    /\ keyring \in Token /\ file \in Token
    /\ issued \in 0..MaxTokens /\ revoked \in 0..issued /\ fresh \subseteq 1..issued
    /\ procs \in [Procs -> Process]

Flags == probe \in BOOLEAN /\ saved \in BOOLEAN /\ overlapped \in BOOLEAN

\* What a process has found out about the machine, and what it carries.
Carries(c) ==
    /\ c.at \in {"set", "probe", "unprobe", "legacy", "migrate", "remove"} \/ c.store = "keychain"
            => host = "keychain"
    /\ c.at \in {"migrate", "save"} => c.token # Empty
    /\ c.at = "remove" => keyring # Empty

IInv == Typed /\ Flags /\ SignedInKept /\ \A p \in Procs : Carries(procs[p])

-----------------------------------------------------------------------------
(* Facts about the data.                                                   *)

LEMMA IdleIsProcess == Idle \in Process /\ Idle.at = "idle" /\ Idle.store = "file"
BY DEF Idle, Process, Points, Token

LEMMA TokenFields ==
    ASSUME NEW t \in Token
    PROVE  /\ MaxTokens \in Nat
           /\ t.access \in 0..MaxTokens /\ t.refresh \in 0..MaxTokens
           /\ t.refresh # 0 <=> t # Empty
           /\ t.access # 0 <=> t # Empty
<1>1. MaxTokens \in Nat
  BY TokenAssumption
<1>2. CASE t = Empty
  BY <1>1, <1>2 DEF Empty
<1>3. CASE t # Empty
  BY <1>1, <1>3 DEF Empty, Token
<1> QED BY <1>1, <1>2, <1>3

\* What a sign-in or a refresh grants can be refreshed in turn.
LEMMA GrantIsToken ==
    ASSUME issued \in Nat, issued < MaxTokens
    PROVE  /\ Grant(TRUE) \in Token /\ Grant(TRUE) # Empty
           /\ \A t \in Token : t.refresh # 0 =>
                Carried(t, Grant(FALSE)) \in Token /\ Carried(t, Grant(FALSE)) # Empty
<1>1. issued + 1 \in 1..MaxTokens /\ MaxTokens \in Nat
  BY TokenAssumption
<1>2. \A a \in 1..MaxTokens, r \in 1..MaxTokens :
        [access |-> a, refresh |-> r] \in Token /\ [access |-> a, refresh |-> r] # Empty
  BY <1>1 DEF Token, Empty
<1>5. \A x \in [access : 1..MaxTokens, refresh : 1..MaxTokens] : x \in Token /\ x # Empty
  BY <1>1 DEF Token, Empty
<1>3. Grant(TRUE) = [access |-> issued + 1, refresh |-> issued + 1]
  BY DEF Grant
<1>4. ASSUME NEW t \in Token, t.refresh # 0
      PROVE  Carried(t, Grant(FALSE)) \in Token /\ Carried(t, Grant(FALSE)) # Empty
  <2>1. t.refresh \in 1..MaxTokens
    BY <1>4, TokenFields
  <2>2. CASE reply = "renewed"
    <3>1. Carried(t, Grant(FALSE)) = [access |-> issued + 1, refresh |-> issued + 1]
      BY <1>1, <2>2 DEF Carried, Grant
    <3> QED BY <1>1, <1>2, <3>1
  <2>3. CASE reply # "renewed"
    <3>1. Grant(FALSE) = [access |-> issued + 1, refresh |-> 0]
      BY <2>3 DEF Grant
    <3>2. Grant(FALSE) \in [access : 1..MaxTokens, refresh : {0}] /\ Grant(FALSE).refresh = 0
      <4>1. PICK n \in 1..MaxTokens : n = issued + 1
        BY <1>1
      <4>2. Grant(FALSE) = [access |-> n, refresh |-> 0]
        BY <3>1, <4>1
      <4>3. [access |-> n, refresh |-> 0] \in [access : 1..MaxTokens, refresh : {0}]
        OBVIOUS
      <4>4. \A g \in [access : 1..MaxTokens, refresh : {0}] : g.refresh = 0
        OBVIOUS
      <4>5. PICK g \in [access : 1..MaxTokens, refresh : {0}] : g = [access |-> n, refresh |-> 0]
        BY <4>3
      <4>6. Grant(FALSE) = g
        BY <4>2, <4>5
      <4> QED BY <4>4, <4>5, <4>6
    <3>3. Carried(t, Grant(FALSE)) = [Grant(FALSE) EXCEPT !.refresh = t.refresh]
      BY <3>2 DEF Carried
    <3>4. Carried(t, Grant(FALSE)) \in [access : 1..MaxTokens, refresh : 1..MaxTokens]
      BY <2>1, <3>2, <3>3
    <3> QED BY <1>5, <3>4
  <2> QED BY <2>2, <2>3
<1> QED BY <1>1, <1>2, <1>3, <1>4

LEMMA AfterIsPoint ==
    ASSUME NEW t
    PROVE  After(t) \in {"ready", "refresh", "signin"}
BY DEF After

LEMMA InitInv == Init => IInv
<1> SUFFICES ASSUME Init PROVE IInv
  OBVIOUS
<1>1. issued \in 0..MaxTokens /\ MaxTokens \in Nat /\ Empty \in Token
  BY TokenAssumption DEF Init, Token
<1>2. file \in Token /\ (issued = 1 => file # Empty)
  <2>1. CASE issued = 0
    BY <2>1 DEF Init, Token, Empty
  <2>2. CASE issued = 1
    BY <1>1, <2>2 DEF Init, Token, Empty
  <2> QED BY <2>1, <2>2 DEF Init
<1>3. Typed
  BY <1>1, <1>2, IdleIsProcess DEF Init, Typed
<1>4. Flags
  BY DEF Init, Flags
<1>5. SignedInKept
  BY <1>2 DEF Init, SignedInKept
<1>6. \A p \in Procs : Carries(procs[p])
  BY IdleIsProcess DEF Init, Carries
<1> QED BY <1>3, <1>4, <1>5, <1>6 DEF IInv

-----------------------------------------------------------------------------
(* The steps.                                                              *)

\* A process moves: no token is taken from the keychain, and what is in the
\* file is removed only from under one that is there.
LEMMA Moves ==
    ASSUME IInv, NEW p \in Procs,
           procs' \in [Procs -> Process],
           \A q \in Procs : q # p => procs'[q] = procs[q],
           Carries(procs[p])',
           UNCHANGED <<host, reply>>, UNCHANGED granted \/ Issue,
           keyring' \in Token, file' \in Token, Flags',
           keyring # Empty => keyring' # Empty,
           file # Empty => file' # Empty \/ keyring' # Empty,
           saved' => saved \/ keyring' # Empty \/ file' # Empty
    PROVE  IInv'
<1>1. Typed'
  <2>1. issued' \in 0..MaxTokens /\ revoked' \in 0..issued' /\ fresh' \subseteq 1..issued'
    <3>1. /\ MaxTokens \in Nat /\ issued \in 0..MaxTokens /\ revoked \in 0..issued
          /\ fresh \subseteq 1..issued
      BY TokenAssumption DEF IInv, Typed
    <3>2. CASE UNCHANGED granted
      BY <3>1, <3>2 DEF granted
    <3>3. CASE Issue
      <4>1. /\ issued < MaxTokens /\ issued' = issued + 1 /\ revoked' = revoked
            /\ fresh' = fresh \cup {issued'}
        BY <3>3 DEF Issue
      <4>2. issued' \in 0..MaxTokens /\ revoked' \in 0..issued'
        BY <3>1, <4>1
      <4>3. 1..issued \subseteq 1..issued' /\ issued' \in 1..issued'
        BY <3>1, <4>1
      <4> QED BY <3>1, <4>1, <4>2, <4>3
    <3> QED BY <3>2, <3>3
  <2> QED BY <2>1 DEF IInv, Typed
<1>2. SignedInKept'
  BY DEF IInv, SignedInKept
<1>3. (\A q \in Procs : Carries(procs[q]))'
  <2> SUFFICES ASSUME NEW q \in Procs, q # p PROVE Carries(procs[q])'
    OBVIOUS
  <2>1. Carries(procs[q]) /\ procs'[q] = procs[q]
    BY DEF IInv
  <2> QED BY <2>1 DEF Carries
<1> QED BY <1>1, <1>2, <1>3 DEF IInv

\* What is known of a process before a step.
LEMMA Known ==
    ASSUME IInv, NEW p \in Procs
    PROVE  /\ procs \in [Procs -> Process] /\ procs[p] \in Process /\ Carries(procs[p])
           /\ procs[p].token \in Token /\ procs[p].store \in {"keychain", "file"}
           /\ keyring \in Token /\ file \in Token
BY DEF IInv, Typed, Process

LEMMA EndsInv ==
    ASSUME IInv, NEW p \in Procs, Finish(p),
           UNCHANGED <<host, reply, stores, granted, saved, overlapped>>
    PROVE  IInv'
<1>1. /\ procs' \in [Procs -> Process] /\ procs'[p] = Idle
      /\ \A q \in Procs : q # p => procs'[q] = procs[q]
  BY Known, IdleIsProcess DEF Finish
<1>2. Carries(procs[p])'
  BY <1>1, IdleIsProcess DEF Carries
<1>3. Flags'
  BY DEF IInv, Flags, stores
<1> QED BY <1>1, <1>2, <1>3, Known, Moves DEF stores

\* A process goes on to a point where it carries nothing.
LEMMA GoesOn ==
    ASSUME IInv, NEW p \in Procs,
           NEW at \in {"load", "ready", "refresh", "signin", "set", "probe"},
           Goto(p, at), at \in {"set", "probe"} => host = "keychain",
           UNCHANGED <<host, reply, keyring, file, granted, saved>>, Flags'
    PROVE  IInv'
<1> DEFINE c == [procs[p] EXCEPT !.at = at]
<1>1. c \in Process /\ c.at = at /\ c.store = procs[p].store
  BY Known DEF Process, Points
<1>2. procs' = [procs EXCEPT ![p] = c]
  BY DEF Goto
<1> HIDE DEF c
<1>3. /\ procs' \in [Procs -> Process] /\ procs'[p] = c
      /\ \A q \in Procs : q # p => procs'[q] = procs[q]
  BY <1>1, <1>2, Known
<1>4. Carries(procs[p])'
  BY <1>1, <1>3, Known DEF Carries
<1> QED BY <1>3, <1>4, Known, Moves

LEMMA StartInv ==
    ASSUME IInv, NEW p \in Procs, Start(p)
    PROVE  IInv'
<1>1. Begin \in {"set", "load"} /\ (Begin = "set" => host = "keychain")
  BY DEF Begin
<1>2. Flags'
  BY DEF Start, IInv, Flags, stores
<1> QED BY <1>1, <1>2, GoesOn DEF Start, stores

LEMMA ProbeInv ==
    ASSUME IInv, NEW p \in Procs, ProbeSet(p) \/ ProbeGet(p) \/ ProbeDelete(p)
    PROVE  IInv'
<1>1. CASE ProbeSet(p)
  <2>1. host = "keychain"
    BY <1>1, Known DEF ProbeSet, Carries
  <2>2. Flags'
    BY <1>1 DEF ProbeSet, IInv, Flags
  <2> QED BY <1>1, <2>1, <2>2, GoesOn DEF ProbeSet
<1>2. CASE ProbeGet(p)
  <2> DEFINE c == [procs[p] EXCEPT !.at = "unprobe", !.found = probe]
  <2>1. c \in Process /\ c.at = "unprobe" /\ c.store = procs[p].store
    BY Known DEF Process, Points, IInv, Flags
  <2>2. procs' = [procs EXCEPT ![p] = c] /\ host = "keychain"
    BY <1>2, Known DEF ProbeGet, Carries
  <2> HIDE DEF c
  <2>3. /\ procs' \in [Procs -> Process] /\ procs'[p] = c
        /\ \A q \in Procs : q # p => procs'[q] = procs[q]
    BY <2>1, <2>2, Known
  <2>4. Carries(procs[p])'
    BY <1>2, <2>1, <2>2, <2>3 DEF Carries, ProbeGet
  <2>5. Flags'
    BY <1>2 DEF ProbeGet, IInv, Flags, stores
  <2> QED BY <1>2, <2>3, <2>4, <2>5, Known, Moves DEF ProbeGet, stores
<1>3. CASE ProbeDelete(p)
  <2> DEFINE st == IF procs[p].found THEN "keychain" ELSE "file"
             c == [procs[p] EXCEPT !.at = "load", !.store = st]
  <2>1. c \in Process /\ c.at = "load"
    BY Known DEF Process, Points
  <2>2. procs' = [procs EXCEPT ![p] = c] /\ host = "keychain"
    BY <1>3, Known DEF ProbeDelete, Carries
  <2> HIDE DEF c
  <2>3. /\ procs' \in [Procs -> Process] /\ procs'[p] = c
        /\ \A q \in Procs : q # p => procs'[q] = procs[q]
    BY <2>1, <2>2, Known
  <2>4. Carries(procs[p])'
    BY <1>3, <2>1, <2>2, <2>3 DEF Carries, ProbeDelete
  <2>5. Flags'
    BY <1>3 DEF ProbeDelete, IInv, Flags
  <2> QED BY <1>3, <2>3, <2>4, <2>5, Known, Moves DEF ProbeDelete
<1> QED BY <1>1, <1>2, <1>3

\* A process takes a token in hand.
LEMMA Takes ==
    ASSUME IInv, NEW p \in Procs, NEW t \in Token,
           NEW at \in {"legacy", "migrate", "save", "ready", "refresh", "signin"},
           NEW known \in BOOLEAN,
           \/ procs' = [procs EXCEPT ![p].at = at, ![p].token = t, ![p].known = known]
           \/ procs' = [procs EXCEPT ![p].at = at, ![p].token = t],
           at \in {"legacy", "migrate"} => host = "keychain",
           at \in {"migrate", "save"} => t # Empty,
           UNCHANGED <<host, reply, stores, saved, overlapped>>, UNCHANGED granted \/ Issue
    PROVE  IInv'
<1>1. PICK c \in Process : /\ procs' = [procs EXCEPT ![p] = c]
                           /\ c.at = at /\ c.token = t /\ c.store = procs[p].store
  <2> DEFINE d == [procs[p] EXCEPT !.at = at, !.token = t, !.known = known]
             e == [procs[p] EXCEPT !.at = at, !.token = t]
  <2>1. /\ d \in Process /\ d.at = at /\ d.token = t /\ d.store = procs[p].store
        /\ e \in Process /\ e.at = at /\ e.token = t /\ e.store = procs[p].store
    BY Known DEF Process, Points
  <2>2. procs' = [procs EXCEPT ![p] = d] \/ procs' = [procs EXCEPT ![p] = e]
    OBVIOUS
  <2> HIDE DEF d, e
  <2> QED BY <2>1, <2>2
<1>2. /\ procs' \in [Procs -> Process] /\ procs'[p] = c
      /\ \A q \in Procs : q # p => procs'[q] = procs[q]
  BY <1>1, Known
<1>3. Carries(procs[p])'
  BY <1>1, <1>2, Known DEF Carries
<1>4. Flags'
  BY DEF IInv, Flags, stores
<1> QED BY <1>2, <1>3, <1>4, Known, Moves DEF stores

LEMMA LoadTokenInv ==
    ASSUME IInv, NEW p \in Procs, LoadToken(p)
    PROVE  IInv'
<1> DEFINE t == IF procs[p].store = "file" THEN file ELSE keyring
           elsewhere == procs[p].store = "keychain" /\ keyring = Empty
           at == IF elsewhere THEN "legacy" ELSE After(t)
<1>1. t \in Token
  BY Known
<1>2. at \in {"legacy", "ready", "refresh", "signin"} /\ (at = "legacy" => host = "keychain")
  BY AfterIsPoint, Known DEF Carries
<1>3. procs' = [procs EXCEPT ![p].at = at, ![p].token = t, ![p].known = saved]
  BY DEF LoadToken
<1>4. saved \in BOOLEAN
  BY DEF IInv, Flags
<1>5. UNCHANGED <<host, reply, stores, granted, saved, overlapped>>
  BY DEF LoadToken
<1> HIDE DEF t, elsewhere, at
<1>6. /\ at \in {"legacy", "migrate", "save", "ready", "refresh", "signin"}
      /\ at \in {"legacy", "migrate"} => host = "keychain"
      /\ at \in {"migrate", "save"} => t # Empty
  BY <1>2
<1> QED BY <1>1, <1>3, <1>4, <1>5, <1>6, Takes

LEMMA ReadLegacyInv ==
    ASSUME IInv, NEW p \in Procs, ReadLegacy(p)
    PROVE  IInv'
<1>1. host = "keychain"
  BY Known DEF ReadLegacy, Carries
<1>2. CASE Migrates(file)
  <2>1. file # Empty
    BY <1>2, Known, TokenFields DEF Migrates
  <2> QED BY <1>1, <1>2, <2>1, Known, Takes DEF ReadLegacy, Hold
<1>3. CASE ~ Migrates(file)
  BY <1>3, AfterIsPoint, Takes DEF ReadLegacy, Hold, Token
<1> QED BY <1>2, <1>3

LEMMA RefreshInv ==
    ASSUME IInv, NEW p \in Procs, Refresh(p)
    PROVE  IInv'
<1> DEFINE t == procs[p].token
<1>1. Flags'
  BY DEF Refresh, IInv, Flags, stores
<1>2. CASE t.refresh > revoked /\ Issue /\ Hold(p, Carried(t, Grant(FALSE)), "save")
  <2>1. t \in Token /\ t.refresh # 0 /\ issued \in Nat /\ issued < MaxTokens
    <3>1. t \in Token /\ revoked \in Nat /\ issued \in Nat
      BY Known, TokenAssumption DEF IInv, Typed
    <3>2. t.refresh \in Nat
      BY <3>1, TokenFields
    <3> QED BY <1>2, <3>1, <3>2 DEF Issue
  <2>2. Carried(t, Grant(FALSE)) \in Token /\ Carried(t, Grant(FALSE)) # Empty
    BY <2>1, GrantIsToken
  <2> QED BY <1>2, <2>2, Takes DEF Refresh, Hold
<1>3. CASE Goto(p, "signin") /\ UNCHANGED granted
  BY <1>1, <1>3, GoesOn DEF Refresh, stores
<1> QED BY <1>2, <1>3 DEF Refresh

LEMMA ConsentInv ==
    ASSUME IInv, NEW p \in Procs, Consent(p)
    PROVE  IInv'
<1>1. issued \in Nat /\ issued < MaxTokens
  BY TokenAssumption DEF IInv, Typed, Consent, Issue
<1>2. Grant(TRUE) \in Token /\ Grant(TRUE) # Empty
  BY <1>1, GrantIsToken
<1> QED BY <1>2, Takes DEF Consent, Hold

\* Files and the keychain.
LEMMA MigrateInv ==
    ASSUME IInv, NEW p \in Procs, Migrate(p)
    PROVE  IInv'
<1>1. procs[p].at = "migrate" /\ procs[p].token # Empty /\ host = "keychain"
  BY Known DEF Migrate, Carries
<1>2. Flags'
  BY DEF Migrate, IInv, Flags
<1>3. CASE keyring' = procs[p].token /\ Goto(p, "remove")
  <2> DEFINE c == [procs[p] EXCEPT !.at = "remove"]
  <2>1. c \in Process /\ c.at = "remove" /\ c.store = procs[p].store
    BY Known DEF Process, Points
  <2>2. procs' = [procs EXCEPT ![p] = c]
    BY <1>3 DEF Goto
  <2> HIDE DEF c
  <2>3. /\ procs' \in [Procs -> Process] /\ procs'[p] = c
        /\ \A q \in Procs : q # p => procs'[q] = procs[q]
    BY <2>1, <2>2, Known
  <2>4. Carries(procs[p])'
    BY <1>1, <1>3, <2>1, <2>3 DEF Carries, Migrate
  <2> QED BY <1>1, <1>2, <1>3, <2>3, <2>4, Known, Moves DEF Migrate
<1>4. CASE Goto(p, After(procs[p].token)) /\ UNCHANGED keyring
  BY <1>2, <1>4, AfterIsPoint, GoesOn DEF Migrate
<1> QED BY <1>3, <1>4 DEF Migrate

LEMMA RemoveFileInv ==
    ASSUME IInv, NEW p \in Procs, RemoveFile(p)
    PROVE  IInv'
<1> DEFINE at == After(procs[p].token)
           c == [procs[p] EXCEPT !.at = at]
<1>1. keyring # Empty /\ Empty \in Token /\ UNCHANGED keyring /\ (file' = Empty \/ file' = file)
  BY Known DEF RemoveFile, Carries, Token
<1>2. at \in {"ready", "refresh", "signin"}
  BY AfterIsPoint
<1>3. procs' = [procs EXCEPT ![p] = c]
  BY DEF RemoveFile, Goto
<1> HIDE DEF at
<1>4. c \in Process /\ c.at = at /\ c.store = procs[p].store
  BY <1>2, Known DEF Process, Points
<1> HIDE DEF c
<1>5. /\ procs' \in [Procs -> Process] /\ procs'[p] = c
      /\ \A q \in Procs : q # p => procs'[q] = procs[q]
  BY <1>3, <1>4, Known
<1>6. Carries(procs[p])'
  BY <1>2, <1>4, <1>5, Known DEF Carries, RemoveFile
<1>7. Flags'
  BY DEF RemoveFile, IInv, Flags
<1> QED BY <1>1, <1>5, <1>6, <1>7, Known, Moves DEF RemoveFile

LEMMA SaveTokenInv ==
    ASSUME IInv, NEW p \in Procs, SaveToken(p)
    PROVE  IInv'
<1>1. procs[p].token # Empty
  BY Known DEF SaveToken, Carries
<1>2. Flags'
  BY DEF SaveToken, IInv, Flags
<1>3. CASE Finish(p) /\ UNCHANGED <<keyring, file, saved>>
  BY <1>3, EndsInv DEF SaveToken, stores
<1>4. CASE /\ IF procs[p].store = "keychain"
              THEN keyring' = procs[p].token /\ UNCHANGED file
              ELSE file' = procs[p].token /\ UNCHANGED keyring
           /\ Goto(p, "ready")
  <2> DEFINE c == [procs[p] EXCEPT !.at = "ready"]
  <2>1. c \in Process /\ c.at = "ready" /\ c.store = procs[p].store
    BY Known DEF Process, Points
  <2>2. procs' = [procs EXCEPT ![p] = c]
    BY <1>4 DEF Goto
  <2> HIDE DEF c
  <2>3. /\ procs' \in [Procs -> Process] /\ procs'[p] = c
        /\ \A q \in Procs : q # p => procs'[q] = procs[q]
    BY <2>1, <2>2, Known
  <2>4. Carries(procs[p])'
    BY <2>1, <2>3, Known DEF Carries, SaveToken
  <2>5. /\ keyring' \in Token /\ file' \in Token /\ (keyring # Empty => keyring' # Empty)
        /\ (file # Empty => file' # Empty) /\ (keyring' # Empty \/ file' # Empty)
    BY <1>1, <1>4, Known
  <2> QED BY <1>2, <2>3, <2>4, <2>5, Known, Moves DEF SaveToken
<1> QED BY <1>3, <1>4 DEF SaveToken

LEMMA RequestInv ==
    ASSUME IInv, NEW p \in Procs, Request(p)
    PROVE  IInv'
<1>1. CASE Finish(p)
  BY <1>1, EndsInv DEF Request
<1>2. CASE procs' = [procs EXCEPT ![p].at = "load", ![p].calls = @ + 1]
  <2> DEFINE c == [procs[p] EXCEPT !.at = "load", !.calls = procs[p].calls + 1]
  <2>1. procs[p].calls + 1 \in Nat
    BY Known DEF Process
  <2>2. c \in Process /\ c.at = "load" /\ c.store = procs[p].store
    BY <2>1, Known DEF Process, Points
  <2>3. procs' = [procs EXCEPT ![p] = c]
    BY <1>2
  <2> HIDE DEF c
  <2>4. /\ procs' \in [Procs -> Process] /\ procs'[p] = c
        /\ \A q \in Procs : q # p => procs'[q] = procs[q]
    BY <2>2, <2>3, Known
  <2>5. Carries(procs[p])'
    BY <2>2, <2>4, Known DEF Carries, Request
  <2>6. Flags'
    BY DEF Request, IInv, Flags, stores
  <2> QED BY <2>4, <2>5, <2>6, Known, Moves DEF Request, stores
<1> QED BY <1>1, <1>2 DEF Request

LEMMA SettledInv ==
    ASSUME IInv, UNCHANGED <<host, reply, stores, procs, saved, overlapped>>,
           issued' = issued, revoked' \in 0..issued, fresh' \subseteq 1..issued
    PROVE  IInv'
<1>1. Typed'
  BY DEF IInv, Typed, stores
<1>2. Flags' /\ SignedInKept'
  BY DEF IInv, Flags, SignedInKept, stores
<1>3. (\A p \in Procs : Carries(procs[p]))'
  BY DEF IInv, Carries, stores
<1> QED BY <1>1, <1>2, <1>3 DEF IInv

LEMMA ProviderInv ==
    ASSUME IInv, Revoke \/ \E t \in fresh : Expire(t)
    PROVE  IInv'
<1>1. issued \in Nat /\ revoked \in 0..issued /\ fresh \subseteq 1..issued
  BY TokenAssumption DEF IInv, Typed
<1>2. CASE Revoke
  BY <1>1, <1>2, SettledInv DEF Revoke
<1>3. CASE \E t \in fresh : Expire(t)
  BY <1>1, <1>3, SettledInv DEF Expire
<1> QED BY <1>2, <1>3

LEMMA WorkInv ==
    ASSUME IInv, NEW p \in Procs, Work(p)
    PROVE  IInv'
<1>1. CASE TimeUp(p)
  BY <1>1, EndsInv DEF TimeUp, Fail
<1> QED BY <1>1, ProbeInv, LoadTokenInv, ReadLegacyInv, MigrateInv, RemoveFileInv,
           RefreshInv, SaveTokenInv, RequestInv DEF Work

LEMMA NextInv == IInv /\ [Next]_vars => IInv'
<1> SUFFICES ASSUME IInv, [Next]_vars PROVE IInv'
  OBVIOUS
<1>1. ASSUME NEW p \in Procs, Start(p) PROVE IInv'
  BY <1>1, StartInv
<1>2. ASSUME NEW p \in Procs, Work(p) PROVE IInv'
  BY <1>2, WorkInv
<1>3. ASSUME NEW p \in Procs, Consent(p) PROVE IInv'
  BY <1>3, ConsentInv
<1>4. ASSUME NEW p \in Procs, Decline(p) PROVE IInv'
  BY <1>4, EndsInv DEF Decline, Fail
<1>5. ASSUME NEW p \in Procs, Crash(p) PROVE IInv'
  BY <1>5, EndsInv DEF Crash
<1>6. CASE Revoke \/ \E t \in fresh : Expire(t)
  BY <1>6, ProviderInv
<1>7. CASE UNCHANGED vars
  <2>1. issued' = issued /\ revoked' \in 0..issued /\ fresh' \subseteq 1..issued
    BY <1>7 DEF vars, granted, IInv, Typed
  <2> QED BY <1>7, <2>1, SettledInv DEF vars
<1> QED BY <1>1, <1>2, <1>3, <1>4, <1>5, <1>6, <1>7 DEF Next

LEMMA Inductive == Spec => []IInv
BY InitInv, NextInv, PTL DEF Spec

-----------------------------------------------------------------------------
(* Who is asked to sign in.                                                *)

\* Nothing has failed, the provider still issues tokens, and no two commands
\* have shared the probe.
Calm ==
    /\ used.mishaps = 0 /\ issued < MaxTokens
    /\ ~ (host = "keychain" /\ overlapped)

\* A process that has come to use the keychain found it, and what it has in
\* hand is what was stored.
Asked(c) ==
    /\ c.known => saved
    /\ host = "keychain" =>
        /\ c.at = "probe" => probe
        /\ c.at = "unprobe" => c.found
        /\ c.at \notin {"idle", "set", "probe", "unprobe"} => c.store = "keychain"
    /\ c.at = "legacy" => keyring = Empty
    /\ c.at \in {"remove", "refresh"} => c.token # Empty
    /\ c.at = "signin" => ~ c.known

\* On a machine with a keychain one command runs at a time.
Alone == \A p, q \in Procs : p # q => procs[p].at = "idle" \/ procs[q].at = "idle"

Counted ==
    /\ used \in [commands : Nat, mishaps : Nat]
    /\ used.mishaps = 0 => revoked = 0
    /\ host = "file" => keyring = Empty

QInv ==
    /\ IInv /\ Counted
    /\ Calm => (host = "keychain" => Alone) /\ \A p \in Procs : Asked(procs[p])

LEMMA InitAsked == Init => QInv
<1> SUFFICES ASSUME Init PROVE QInv
  OBVIOUS
<1>1. IInv
  BY InitInv
<1>2. Counted
  BY DEF Init, Counted
<1>3. procs \in [Procs -> {Idle}]
  BY DEF Init
<1>4. Idle.at = "idle" /\ Idle.known = FALSE
  BY DEF Idle
<1>5. Alone
  BY <1>3, <1>4 DEF Alone
<1>6. \A p \in Procs : Asked(procs[p])
  <2> SUFFICES ASSUME NEW p \in Procs PROVE Asked(procs[p])
    OBVIOUS
  <2>1. procs[p] = Idle
    BY <1>3
  <2> QED BY <1>4, <2>1 DEF Asked
<1> QED BY <1>1, <1>2, <1>5, <1>6 DEF QInv

\* One process takes a step: where there is a keychain the others are idle, and
\* where there is none nothing they know can be taken from them.
LEMMA Turn ==
    ASSUME QInv, IInv', Counted', NEW p \in Procs, NEW c,
           c \in Process, procs' = [procs EXCEPT ![p] = c],
           host' = host, saved => saved', Calm' => Calm,
           Calm' /\ host = "keychain" => \A q \in Procs : q # p => procs[q].at = "idle",
           Calm' => Asked(c)'
    PROVE  QInv'
<1>1. procs'[p] = c /\ \A q \in Procs : q # p => procs'[q] = procs[q]
  BY Known DEF QInv
<1>2. ASSUME Calm', host' = "keychain" PROVE Alone'
  BY <1>1, <1>2 DEF Alone
<1>3. ASSUME Calm', NEW q \in Procs PROVE Asked(procs[q])'
  <2>1. CASE q = p
    BY <1>1, <1>3, <2>1 DEF Asked
  <2>2. CASE q # p
    <3>1. procs'[q] = procs[q] /\ Asked(procs[q]) /\ Carries(procs[q])
      BY <1>1, <1>3, <2>2, Known DEF QInv
    <3>2. CASE host = "keychain"
      <4>1. procs[q].at = "idle"
        BY <1>3, <2>2, <3>2
      <4> QED BY <3>1, <4>1 DEF Asked
    <3>3. CASE host # "keychain"
      <4>1. procs[q].at \notin {"legacy", "remove"}
        BY <3>1, <3>3 DEF Carries
      <4> QED BY <3>1, <3>3, <4>1 DEF Asked
    <3> QED BY <3>2, <3>3
  <2> QED BY <2>1, <2>2
<1> QED BY <1>2, <1>3 DEF QInv

LEMMA MishapCounts ==
    ASSUME Counted, Mishap
    PROVE  used' \in [commands : Nat, mishaps : Nat] /\ used'.mishaps # 0
<1>1. PICK n \in Nat : n = used.mishaps
  BY DEF Counted
<1>2. used' = [used EXCEPT !.mishaps = n + 1] /\ n + 1 \in Nat /\ n + 1 # 0
  BY <1>1 DEF Mishap
<1> QED BY <1>2 DEF Counted

\* A command that is under way takes a step; after a mishap nothing is claimed.
LEMMA Acts ==
    ASSUME QInv, IInv', NEW p \in Procs, procs[p].at # "idle", NEW c,
           c \in Process, procs' = [procs EXCEPT ![p] = c],
           host' = host, saved => saved', UNCHANGED used \/ Mishap,
           UNCHANGED granted \/ Issue, overlapped' = overlapped,
           host = "file" => keyring' = Empty,
           Calm /\ UNCHANGED used /\ Asked(procs[p]) => Asked(c)'
    PROVE  QInv'
<1>1. Counted /\ IInv
  BY DEF QInv
<1>2. issued \in Nat /\ issued' \in Nat /\ issued <= issued' /\ revoked' = revoked /\ MaxTokens \in Nat
  BY <1>1, TokenAssumption DEF granted, Issue, IInv, Typed
<1>3. Counted'
  BY <1>1, <1>2, MishapCounts DEF Counted
<1>4. ASSUME Calm' PROVE Calm /\ UNCHANGED used
  <2>1. UNCHANGED used
    BY <1>1, <1>4, MishapCounts DEF Calm
  <2>2. issued < MaxTokens
    BY <1>2, <1>4 DEF Calm
  <2> QED BY <1>4, <2>1, <2>2 DEF Calm
<1>5. ASSUME Calm', host = "keychain", NEW q \in Procs, q # p PROVE procs[q].at = "idle"
  BY <1>4, <1>5 DEF QInv, Alone
<1>6. ASSUME Calm' PROVE Asked(c)'
  <2>1. Calm /\ UNCHANGED used /\ Asked(procs[p])
    BY <1>4, <1>6 DEF QInv
  <2> QED BY <2>1
<1> QED BY <1>3, <1>4, <1>5, <1>6, Turn

\* What the proofs of the steps below start from.
LEMMA KnownAsked ==
    ASSUME QInv, NEW p \in Procs
    PROVE  /\ IInv /\ Counted /\ procs[p] \in Process /\ Carries(procs[p])
           /\ procs \in [Procs -> Process]
           /\ (host = "file" => keyring = Empty) /\ host \in {"keychain", "file"}
           /\ keyring \in Token /\ file \in Token /\ procs[p].token \in Token
           /\ fresh \subseteq 1..issued /\ issued \in Nat
<1>1. IInv
  BY DEF QInv
<1>2. issued \in Nat /\ fresh \subseteq 1..issued /\ host \in {"keychain", "file"}
  BY <1>1, TokenAssumption DEF IInv, Typed
<1> QED BY <1>1, <1>2, Known DEF QInv, Counted

\* A token that can be refreshed is not a reason to ask.
LEMMA AfterToken ==
    ASSUME QInv, NEW t \in Token
    PROVE  /\ t # Empty => After(t) # "signin"
           /\ After(t) = "refresh" => t # Empty
           /\ After(Empty) = "signin"
<1>1. fresh \subseteq 1..issued /\ issued \in Nat
  BY TokenAssumption DEF QInv, IInv, Typed
<1>2. 0 \notin fresh
  BY <1>1
<1>3. Empty.access = 0 /\ Empty.refresh = 0
  BY DEF Empty
<1> QED BY <1>2, <1>3, TokenFields DEF After

\* A command that ends or fails is idle again.
LEMMA EndsAsked ==
    ASSUME QInv, IInv', NEW p \in Procs, procs[p].at # "idle", Finish(p),
           UNCHANGED used \/ Mishap,
           UNCHANGED <<host, reply, stores, granted, saved, overlapped>>
    PROVE  QInv'
<1>1. procs' = [procs EXCEPT ![p] = Idle] /\ Idle \in Process
  BY IdleIsProcess DEF Finish
<1>2. Asked(Idle)'
  BY DEF Asked, Idle
<1>3. host = "file" => keyring' = Empty
  BY KnownAsked DEF stores
<1> QED BY <1>1, <1>2, <1>3, Acts

LEMMA MovesTo ==
    ASSUME NEW p \in Procs, procs[p] \in Process, NEW at \in Points, Goto(p, at)
    PROVE  \E c \in Process : /\ procs' = [procs EXCEPT ![p] = c] /\ c.at = at
                             /\ c.store = procs[p].store /\ c.known = procs[p].known
<1> DEFINE d == [procs[p] EXCEPT !.at = at]
<1>1. d \in Process /\ d.at = at /\ d.store = procs[p].store /\ d.known = procs[p].known
  BY DEF Process
<1>2. procs' = [procs EXCEPT ![p] = d]
  BY DEF Goto
<1> HIDE DEF d
<1> QED BY <1>1, <1>2

\* A command goes on to where nothing more is claimed of it.
LEMMA GoesOnAsked ==
    ASSUME QInv, IInv', NEW p \in Procs, procs[p].at # "idle", NEW at \in Points,
           Goto(p, at), host' = host, saved => saved', UNCHANGED used \/ Mishap,
           UNCHANGED granted \/ Issue, overlapped' = overlapped,
           host = "file" => keyring' = Empty,
           \/ Mishap
           \/ at = "ready" /\ procs[p].at \in {"remove", "save"}
    PROVE  QInv'
<1>1. PICK c \in Process : /\ procs' = [procs EXCEPT ![p] = c] /\ c.at = at
                           /\ c.store = procs[p].store /\ c.known = procs[p].known
  BY KnownAsked, MovesTo
<1>2. procs' = [procs EXCEPT ![p] = c]
  BY <1>1
<1>3. UNCHANGED used => ~ Mishap
  BY KnownAsked, MishapCounts DEF Mishap, Counted
<1>4. Calm /\ UNCHANGED used /\ Asked(procs[p]) => Asked(c)'
  BY <1>1, <1>3 DEF Asked
<1> QED BY <1>1, <1>2, <1>4, Acts

LEMMA StartAsked ==
    ASSUME QInv, IInv', NEW p \in Procs, Start(p)
    PROVE  QInv'
<1>1. Begin \in Points /\ (host = "keychain" => Begin = "set") /\ Begin \in {"set", "load"}
  BY DEF Begin, Points
<1>0. PICK at \in Points : at = Begin
  BY <1>1
<1>2. PICK c \in Process : /\ procs' = [procs EXCEPT ![p] = c] /\ c.at = at
                           /\ c.store = procs[p].store /\ c.known = procs[p].known
  BY <1>0, KnownAsked, MovesTo DEF Start
<1>3. procs' = [procs EXCEPT ![p] = c]
  BY <1>2
<1>4. /\ UNCHANGED <<host, saved, keyring, revoked, issued>>
      /\ used' = [used EXCEPT !.commands = used.commands + 1]
      /\ overlapped' = (overlapped \/ \E q \in Procs \ {p} : procs[q].at # "idle")
  BY DEF Start, stores, granted
<1>5. used' \in [commands : Nat, mishaps : Nat] /\ used'.mishaps = used.mishaps
  <2>1. PICK n \in Nat : n = used.commands
    BY KnownAsked DEF Counted
  <2>2. n + 1 \in Nat /\ used' = [used EXCEPT !.commands = n + 1]
    BY <1>4, <2>1
  <2> QED BY <2>2, KnownAsked DEF Counted
<1>6. Counted'
  BY <1>4, <1>5, KnownAsked DEF Counted
<1>7. Calm' => Calm
  BY <1>4, <1>5 DEF Calm
<1>8. Calm' /\ host = "keychain" => \A q \in Procs : q # p => procs[q].at = "idle"
  BY <1>4 DEF Calm
<1>9. Calm' => Asked(c)'
  <2>1. Calm' => Asked(procs[p])
    BY <1>7 DEF QInv
  <2> QED BY <1>0, <1>1, <1>2, <1>4, <2>1 DEF Asked
<1> QED BY <1>2, <1>3, <1>4, <1>6, <1>7, <1>8, <1>9, Turn

\* One command alone finds its own probe.
LEMMA ProbeAsked ==
    ASSUME QInv, IInv', NEW p \in Procs, ProbeSet(p) \/ ProbeGet(p) \/ ProbeDelete(p)
    PROVE  QInv'
<1>1. CASE ProbeSet(p)
  <2>0. procs[p].at # "idle" /\ (host = "file" => keyring' = Empty)
    BY <1>1, KnownAsked DEF ProbeSet
  <2>1. CASE Mishap /\ Goto(p, "load")
    BY <1>1, <2>0, <2>1, GoesOnAsked DEF ProbeSet, Points
  <2>2. CASE probe' = TRUE /\ Goto(p, "probe") /\ UNCHANGED used
    <3>1. PICK c \in Process : /\ procs' = [procs EXCEPT ![p] = c] /\ c.at = "probe"
                               /\ c.store = procs[p].store /\ c.known = procs[p].known
      BY <2>2, KnownAsked, MovesTo DEF Points
    <3>2. procs' = [procs EXCEPT ![p] = c]
      BY <3>1
    <3>3. Asked(procs[p]) => Asked(c)'
      BY <1>1, <2>2, <3>1 DEF Asked, ProbeSet
    <3> QED BY <1>1, <2>0, <2>2, <3>1, <3>2, <3>3, Acts DEF ProbeSet
  <2> QED BY <1>1, <2>1, <2>2 DEF ProbeSet
<1>2. CASE ProbeGet(p)
  <2>0. /\ procs[p].at = "probe" /\ host = "keychain" /\ probe \in BOOLEAN
        /\ UNCHANGED <<host, keyring, saved>>
    BY <1>2, KnownAsked DEF ProbeGet, Carries, IInv, Flags, stores
  <2>1. PICK c \in Process : /\ procs' = [procs EXCEPT ![p] = c]
                             /\ c.at = "unprobe" /\ c.found = probe /\ c.known = procs[p].known
    <3> DEFINE d == [procs[p] EXCEPT !.at = "unprobe", !.found = probe]
    <3>1. d \in Process /\ d.at = "unprobe" /\ d.found = probe /\ d.known = procs[p].known
      BY <2>0, KnownAsked DEF Process, Points
    <3>2. procs' = [procs EXCEPT ![p] = d]
      BY <1>2 DEF ProbeGet
    <3> HIDE DEF d
    <3> QED BY <3>1, <3>2
  <2>2. procs' = [procs EXCEPT ![p] = c]
    BY <2>1
  <2>3. Asked(procs[p]) => Asked(c)'
    BY <2>0, <2>1 DEF Asked
  <2>4. (saved => saved') /\ host' = host /\ (host = "file" => keyring' = Empty)
    BY <2>0
  <2>5. procs[p].at # "idle" /\ (UNCHANGED used \/ Mishap)
    BY <1>2, <2>0 DEF ProbeGet
  <2> QED BY <1>2, <2>1, <2>2, <2>3, <2>4, <2>5, Acts DEF ProbeGet
<1>3. CASE ProbeDelete(p)
  <2> DEFINE st == IF procs[p].found THEN "keychain" ELSE "file"
  <2>0. /\ procs[p].at = "unprobe" /\ host = "keychain" /\ UNCHANGED <<host, keyring, saved>>
    BY <1>3, KnownAsked DEF ProbeDelete, Carries
  <2>1. PICK c \in Process : /\ procs' = [procs EXCEPT ![p] = c]
                             /\ c.at = "load" /\ c.store = st /\ c.known = procs[p].known
    <3> DEFINE d == [procs[p] EXCEPT !.at = "load", !.store = st]
    <3>1. d \in Process /\ d.at = "load" /\ d.store = st /\ d.known = procs[p].known
      BY KnownAsked DEF Process, Points
    <3>2. procs' = [procs EXCEPT ![p] = d]
      BY <1>3 DEF ProbeDelete
    <3> HIDE DEF d
    <3> QED BY <3>1, <3>2
  <2>2. procs' = [procs EXCEPT ![p] = c]
    BY <2>1
  <2>3. Asked(procs[p]) => Asked(c)'
    BY <2>0, <2>1 DEF Asked
  <2>4. (saved => saved') /\ host' = host /\ (host = "file" => keyring' = Empty)
    BY <2>0
  <2>5. procs[p].at # "idle" /\ (UNCHANGED used \/ Mishap)
    BY <1>3, <2>0 DEF ProbeDelete
  <2> QED BY <1>3, <2>1, <2>2, <2>3, <2>4, <2>5, Acts DEF ProbeDelete
<1> QED BY <1>1, <1>2, <1>3

\* A command that has a token in hand, or has found none where one would be.
LEMMA TakesAsked ==
    ASSUME QInv, IInv', NEW p \in Procs, procs[p].at # "idle", NEW t \in Token,
           NEW at \in Points, NEW known \in BOOLEAN,
           \/ procs' = [procs EXCEPT ![p].at = at, ![p].token = t, ![p].known = known]
           \/ known = procs[p].known /\ procs' = [procs EXCEPT ![p].at = at, ![p].token = t],
           UNCHANGED <<host, reply, stores, used, saved, overlapped>>,
           UNCHANGED granted \/ Issue,
           procs[p].at \notin {"set", "probe", "unprobe"}, at \notin {"probe", "unprobe"},
           Asked(procs[p]) =>
               /\ known => saved
               /\ at = "legacy" => keyring = Empty
               /\ at \in {"remove", "refresh"} => t # Empty
               /\ Calm /\ at = "signin" => ~ known
    PROVE  QInv'
<1>1. PICK c \in Process : /\ procs' = [procs EXCEPT ![p] = c] /\ c.at = at /\ c.token = t
                           /\ c.store = procs[p].store /\ c.known = known
  <2> DEFINE d == [procs[p] EXCEPT !.at = at, !.token = t, !.known = known]
             e == [procs[p] EXCEPT !.at = at, !.token = t]
  <2>1. /\ d \in Process /\ d.at = at /\ d.token = t /\ d.store = procs[p].store /\ d.known = known
        /\ e \in Process /\ e.at = at /\ e.token = t /\ e.store = procs[p].store
        /\ e.known = procs[p].known
    BY KnownAsked DEF Process
  <2>2. \/ procs' = [procs EXCEPT ![p] = d]
        \/ known = procs[p].known /\ procs' = [procs EXCEPT ![p] = e]
    OBVIOUS
  <2> HIDE DEF d, e
  <2> QED BY <2>1, <2>2
<1>2. UNCHANGED <<keyring, probe>> /\ (host = "file" => keyring' = Empty)
  BY KnownAsked DEF stores
<1>3. Calm /\ UNCHANGED used /\ Asked(procs[p]) => Asked(c)'
  BY <1>1, <1>2 DEF Asked
<1> QED BY <1>1, <1>2, <1>3, Acts

\* Once a sign-in is saved a load finds it, in the store of the machine or in
\* the file of an earlier version.
LEMMA LoadTokenAsked ==
    ASSUME QInv, IInv', NEW p \in Procs, LoadToken(p)
    PROVE  QInv'
<1>1. PICK t \in Token : t = IF procs[p].store = "file" THEN file ELSE keyring
  BY KnownAsked
<1>2. PICK at \in Points :
        at = IF procs[p].store = "keychain" /\ keyring = Empty THEN "legacy" ELSE After(t)
  BY AfterIsPoint DEF Points
<1>3. PICK known \in BOOLEAN : known = saved
  BY DEF QInv, IInv, Flags
<1>4. procs' = [procs EXCEPT ![p].at = at, ![p].token = t, ![p].known = known]
  BY <1>1, <1>2, <1>3 DEF LoadToken
<1>5. procs[p].at = "load" /\ UNCHANGED <<host, reply, stores, used, saved, overlapped>>
      /\ UNCHANGED granted
  BY DEF LoadToken
<1>6. at \in {"legacy", "ready", "refresh", "signin"} /\ (at = "legacy" => keyring = Empty)
  BY <1>2, AfterIsPoint
<1>7. at = "refresh" => t # Empty
  BY <1>2, AfterToken
<1>8. ASSUME Asked(procs[p]), at = "signin" PROVE ~ known
  <2>1. t = Empty /\ ~ (procs[p].store = "keychain" /\ keyring = Empty)
    BY <1>2, <1>8, AfterToken
  <2>2. procs[p].store = "file" /\ file = Empty
    BY <1>1, <2>1, KnownAsked DEF Process
  <2>3. host = "file"
    BY <1>5, <1>8, <2>2, KnownAsked DEF Asked
  <2>4. ~ saved
    BY <2>2, <2>3, KnownAsked DEF IInv, SignedInKept
  <2> QED BY <1>3, <2>4
<1> QED BY <1>3, <1>4, <1>5, <1>6, <1>7, <1>8, TakesAsked

LEMMA ReadLegacyAsked ==
    ASSUME QInv, IInv', NEW p \in Procs, ReadLegacy(p)
    PROVE  QInv'
<1>1. PICK known \in BOOLEAN : known = procs[p].known
  BY KnownAsked DEF Process
<1>2. procs[p].at = "legacy" /\ UNCHANGED <<host, reply, stores, used, saved, overlapped>>
      /\ UNCHANGED granted
  BY DEF ReadLegacy
<1>3. Asked(procs[p]) => (known => saved) /\ keyring = Empty
  BY <1>1, <1>2 DEF Asked
<1>4. CASE Migrates(file)
  <2>1. procs' = [procs EXCEPT ![p].at = "migrate", ![p].token = file]
    BY <1>4 DEF ReadLegacy, Hold
  <2> QED BY <1>1, <1>2, <1>3, <2>1, KnownAsked, TakesAsked DEF Points
<1>5. CASE ~ Migrates(file)
  <2>1. file = Empty
    BY <1>5, KnownAsked, TokenFields DEF Migrates
  <2>2. Empty \in Token /\ "signin" \in Points
    BY DEF Token, Points
  <2>3. procs' = [procs EXCEPT ![p].at = "signin", ![p].token = Empty]
    BY <1>5, <2>2, AfterToken DEF ReadLegacy, Hold
  <2>4. Asked(procs[p]) => ~ known
    BY <1>3, <2>1, KnownAsked DEF IInv, SignedInKept
  <2> QED BY <1>1, <1>2, <1>3, <2>2, <2>3, <2>4, TakesAsked
<1> QED BY <1>4, <1>5

LEMMA MigrateAsked ==
    ASSUME QInv, IInv', NEW p \in Procs, Migrate(p)
    PROVE  QInv'
<1>1. /\ procs[p].at = "migrate" /\ procs[p].token # Empty /\ host = "keychain"
      /\ UNCHANGED <<host, reply, file, probe, granted, saved, overlapped>>
  BY KnownAsked DEF Migrate, Carries
<1>2. CASE Mishap /\ Goto(p, After(procs[p].token)) /\ UNCHANGED keyring
  <2>1. PICK at \in Points : at = After(procs[p].token)
    BY AfterIsPoint DEF Points
  <2> QED BY <1>1, <1>2, <2>1, GoesOnAsked
<1>3. CASE keyring' = procs[p].token /\ Goto(p, "remove") /\ UNCHANGED used
  <2>1. PICK c \in Process :
          /\ procs' = [procs EXCEPT ![p] = c] /\ c.at = "remove"
          /\ c.store = procs[p].store /\ c.known = procs[p].known /\ c.token = procs[p].token
    <3> DEFINE d == [procs[p] EXCEPT !.at = "remove"]
    <3>1. /\ d \in Process /\ d.at = "remove" /\ d.store = procs[p].store
          /\ d.known = procs[p].known /\ d.token = procs[p].token
      BY KnownAsked DEF Process, Points
    <3>2. procs' = [procs EXCEPT ![p] = d]
      BY <1>3 DEF Goto
    <3> HIDE DEF d
    <3> QED BY <3>1, <3>2
  <2>2. Asked(procs[p]) => Asked(c)'
    BY <1>1, <2>1 DEF Asked
  <2> QED BY <1>1, <1>3, <2>1, <2>2, Acts
<1> QED BY <1>2, <1>3 DEF Migrate

\* The token that was moved is still in hand, and can be refreshed.
LEMMA RemoveFileAsked ==
    ASSUME QInv, IInv', NEW p \in Procs, RemoveFile(p)
    PROVE  QInv'
<1>1. /\ procs[p].at = "remove" /\ host = "keychain"
      /\ UNCHANGED <<host, reply, keyring, probe, granted, saved, overlapped>>
      /\ UNCHANGED used \/ Mishap
  BY KnownAsked DEF RemoveFile, Carries
<1>2. PICK c \in Process :
        /\ procs' = [procs EXCEPT ![p] = c] /\ c.at = After(procs[p].token)
        /\ c.store = procs[p].store /\ c.known = procs[p].known /\ c.token = procs[p].token
  <2>0. PICK at \in Points : at = After(procs[p].token)
    BY AfterIsPoint DEF Points
  <2> DEFINE d == [procs[p] EXCEPT !.at = at]
  <2>1. /\ d \in Process /\ d.at = at /\ d.store = procs[p].store
        /\ d.known = procs[p].known /\ d.token = procs[p].token
    BY KnownAsked DEF Process
  <2>2. procs' = [procs EXCEPT ![p] = d]
    BY <2>0 DEF RemoveFile, Goto
  <2> HIDE DEF d
  <2> QED BY <2>0, <2>1, <2>2
<1>3. ASSUME Asked(procs[p]) PROVE Asked(c)'
  <2>1. procs[p].token # Empty
    BY <1>1, <1>3 DEF Asked
  <2>2. c.at \in {"ready", "refresh"}
    BY <1>2, <2>1, KnownAsked, AfterIsPoint, AfterToken
  <2> QED BY <1>1, <1>2, <1>3, <2>1, <2>2 DEF Asked
<1> QED BY <1>1, <1>2, <1>3, Acts

\* While nothing fails no refresh is refused.
LEMMA RefreshAsked ==
    ASSUME QInv, IInv', NEW p \in Procs, Refresh(p)
    PROVE  QInv'
<1> DEFINE t == procs[p].token
<1>0. /\ procs[p].at = "refresh"
      /\ UNCHANGED <<host, reply, keyring, file, probe, saved, overlapped>>
  BY DEF Refresh, stores
<1>1. PICK known \in BOOLEAN : known = procs[p].known
  BY KnownAsked DEF Process
<1>2. Asked(procs[p]) => (known => saved) /\ t # Empty
  BY <1>0, <1>1 DEF Asked
<1>3. CASE t.refresh > revoked /\ Issue /\ Hold(p, Carried(t, Grant(FALSE)), "save") /\ UNCHANGED used
  <2>1. t \in Token /\ t.refresh # 0 /\ issued \in Nat /\ issued < MaxTokens
    <3>1. t \in Token /\ revoked \in Nat /\ issued \in Nat
      BY KnownAsked, TokenAssumption DEF IInv, Typed
    <3>2. t.refresh \in Nat
      BY <3>1, TokenFields
    <3> QED BY <1>3, <3>1, <3>2 DEF Issue
  <2>2. PICK g \in Token : g = Carried(t, Grant(FALSE))
    BY <2>1, GrantIsToken
  <2>3. procs' = [procs EXCEPT ![p].at = "save", ![p].token = g]
    BY <1>3, <2>2 DEF Hold
  <2> QED BY <1>0, <1>1, <1>2, <1>3, <2>3, TakesAsked DEF Points, stores
<1>4. CASE (t.refresh <= revoked \/ issued = MaxTokens) /\ Goto(p, "signin") /\ UNCHANGED <<granted, used>>
  <2>1. ~ (Calm /\ Asked(procs[p]))
    <3> SUFFICES ASSUME Calm, Asked(procs[p]) PROVE FALSE
      OBVIOUS
    <3>1. revoked = 0 /\ issued < MaxTokens /\ issued \in Nat /\ MaxTokens \in Nat
      BY KnownAsked, TokenAssumption DEF Calm, Counted
    <3>2. t \in Token /\ t # Empty
      BY <1>2, KnownAsked
    <3>3. t.refresh \in Nat /\ t.refresh # 0
      BY <3>2, TokenFields
    <3> QED BY <1>4, <3>1, <3>3
  <2>2. PICK c \in Process : procs' = [procs EXCEPT ![p] = c]
    BY <1>4, KnownAsked, MovesTo DEF Points
  <2>3. (saved => saved') /\ (host = "file" => keyring' = Empty)
    BY <1>0, KnownAsked
  <2> QED BY <1>0, <1>4, <2>1, <2>2, <2>3, Acts
<1>5. CASE Mishap /\ Goto(p, "signin") /\ UNCHANGED granted
  <2>1. (saved => saved') /\ (host = "file" => keyring' = Empty) /\ "signin" \in Points
    BY <1>0, KnownAsked DEF Points
  <2> QED BY <1>0, <1>5, <2>1, GoesOnAsked
<1> QED BY <1>3, <1>4, <1>5 DEF Refresh

LEMMA ConsentAsked ==
    ASSUME QInv, IInv', NEW p \in Procs, Consent(p)
    PROVE  QInv'
<1>1. issued \in Nat /\ issued < MaxTokens
  BY KnownAsked DEF Consent, Issue
<1>2. PICK g \in Token : g = Grant(TRUE)
  BY <1>1, GrantIsToken
<1>3. PICK known \in BOOLEAN : known = procs[p].known
  BY KnownAsked DEF Process
<1>4. procs' = [procs EXCEPT ![p].at = "save", ![p].token = g]
  BY <1>2 DEF Consent, Hold
<1>5. Asked(procs[p]) => (known => saved)
  BY <1>3 DEF Asked
<1> QED BY <1>3, <1>4, <1>5, TakesAsked DEF Consent, Points

LEMMA SaveTokenAsked ==
    ASSUME QInv, IInv', NEW p \in Procs, SaveToken(p)
    PROVE  QInv'
<1>1. /\ procs[p].at = "save" /\ UNCHANGED <<host, reply, probe, granted, overlapped>>
      /\ procs[p].store = "keychain" => host = "keychain"
  BY KnownAsked DEF SaveToken, Carries
<1>2. CASE Mishap /\ Finish(p) /\ UNCHANGED <<keyring, file, saved>>
  BY <1>1, <1>2, EndsAsked DEF stores
<1>3. CASE /\ IF procs[p].store = "keychain"
              THEN keyring' = procs[p].token /\ UNCHANGED file
              ELSE file' = procs[p].token /\ UNCHANGED keyring
           /\ saved' = TRUE /\ Goto(p, "ready") /\ UNCHANGED used
  <2>1. host = "file" => keyring' = Empty
    BY <1>1, <1>3, KnownAsked
  <2> QED BY <1>1, <1>3, <2>1, GoesOnAsked DEF Points
<1> QED BY <1>2, <1>3 DEF SaveToken

LEMMA RequestAsked ==
    ASSUME QInv, IInv', NEW p \in Procs, Request(p)
    PROVE  QInv'
<1>1. procs[p].at = "ready" /\ UNCHANGED <<host, reply, stores, granted, used, saved, overlapped>>
  BY DEF Request
<1>2. CASE Finish(p)
  BY <1>1, <1>2, EndsAsked
<1>3. CASE procs' = [procs EXCEPT ![p].at = "load", ![p].calls = @ + 1]
  <2>1. PICK c \in Process :
          /\ procs' = [procs EXCEPT ![p] = c] /\ c.at = "load"
          /\ c.store = procs[p].store /\ c.known = procs[p].known
    <3>1. PICK n \in Nat : n = procs[p].calls + 1
      BY KnownAsked DEF Process
    <3> DEFINE d == [procs[p] EXCEPT !.at = "load", !.calls = n]
    <3>2. d \in Process /\ d.at = "load" /\ d.store = procs[p].store /\ d.known = procs[p].known
      BY KnownAsked DEF Process, Points
    <3>3. procs' = [procs EXCEPT ![p] = d]
      BY <1>3, <3>1
    <3> HIDE DEF d
    <3> QED BY <3>2, <3>3
  <2>2. Asked(procs[p]) => Asked(c)'
    BY <1>1, <2>1 DEF Asked
  <2>3. (saved => saved') /\ (host = "file" => keyring' = Empty)
    BY <1>1, KnownAsked DEF stores
  <2> QED BY <1>1, <2>1, <2>2, <2>3, Acts
<1> QED BY <1>2, <1>3 DEF Request

\* The provider changes nothing that a command has; a consent withdrawn is a
\* mishap.
LEMMA SettledAsked ==
    ASSUME QInv, IInv', UNCHANGED <<host, reply, stores, procs, saved, overlapped, issued>>,
           UNCHANGED <<used, revoked>> \/ Mishap
    PROVE  QInv'
<1>1. Counted'
  BY MishapCounts DEF QInv, Counted, stores
<1>2. Calm' => Calm
  BY MishapCounts DEF QInv, Calm
<1>3. ASSUME Calm PROVE ((host = "keychain" => Alone) /\ \A p \in Procs : Asked(procs[p]))'
  <2>1. (host = "keychain" => Alone) /\ \A p \in Procs : Asked(procs[p])
    BY <1>3 DEF QInv
  <2> QED BY <2>1 DEF Alone, Asked, stores
<1> QED BY <1>1, <1>2, <1>3 DEF QInv

LEMMA NextAsked == QInv /\ IInv' /\ [Next]_vars => QInv'
<1> SUFFICES ASSUME QInv, IInv', [Next]_vars PROVE QInv'
  OBVIOUS
<1>1. ASSUME NEW p \in Procs, Start(p) PROVE QInv'
  BY <1>1, StartAsked
<1>2. ASSUME NEW p \in Procs, Work(p) PROVE QInv'
  <2>1. CASE TimeUp(p)
    BY <2>1, EndsAsked DEF TimeUp, Fail
  <2> QED BY <1>2, <2>1, ProbeAsked, LoadTokenAsked, ReadLegacyAsked, MigrateAsked,
             RemoveFileAsked, RefreshAsked, SaveTokenAsked, RequestAsked DEF Work
<1>3. ASSUME NEW p \in Procs, Consent(p) PROVE QInv'
  BY <1>3, ConsentAsked
<1>4. ASSUME NEW p \in Procs, Decline(p) PROVE QInv'
  BY <1>4, EndsAsked DEF Decline, Fail
<1>5. ASSUME NEW p \in Procs, Crash(p) PROVE QInv'
  BY <1>5, EndsAsked DEF Crash
<1>6. CASE Revoke \/ \E t \in fresh : Expire(t)
  BY <1>6, SettledAsked DEF Revoke, Expire
<1>7. CASE UNCHANGED vars
  BY <1>7, SettledAsked DEF vars, granted
<1> QED BY <1>1, <1>2, <1>3, <1>4, <1>5, <1>6, <1>7 DEF Next

-----------------------------------------------------------------------------
(* The theorems.                                                           *)

\* Every variable keeps to its values; a keychain that cannot be reached is
\* never read, written or probed.
THEOREM TypeCorrect == Spec => []TypeOK
<1>1. IInv => TypeOK
  <2> SUFFICES ASSUME IInv PROVE TypeOK
    OBVIOUS
  <2>1. {probe, saved, overlapped} \subseteq BOOLEAN
    BY Zenon DEF IInv, Flags
  <2>2. \A p \in Procs :
          /\ procs[p].at \in Points
          /\ procs[p].store \in {"keychain", "file"}
          /\ procs[p].token \in Token
          /\ procs[p].at \in {"set", "probe", "unprobe", "legacy", "migrate", "remove"} =>
               host = "keychain"
    BY DEF IInv, Typed, Process, Carries
  <2> QED BY <2>1, <2>2 DEF IInv, Typed, TypeOK
<1> QED BY <1>1, Inductive, PTL

\* Whatever fails, crashes or runs at once while a token moves from the file to
\* the keychain, a sign-in that was saved is in one of the two (keychainStore.Load,
\* NewStore, TokenSource.Token).
THEOREM SignInKept == Spec => []SignedInKept
<1>1. IInv => SignedInKept
  BY DEF IInv
<1> QED BY <1>1, Inductive, PTL

\* Whoever has signed in is not asked again while nothing fails, however the
\* commands and their requests interleave, on a machine without a keychain; and
\* on one with a keychain as long as no two commands run at once, for then one
\* may delete the probe under the other (keychainAvailable, TokenSource.Token).
THEOREM SignInIsAskedOnce == Spec => []AskedOnce
<1>1. Spec => []QInv
  BY Inductive, InitAsked, NextAsked, PTL DEF Spec
<1>2. QInv => AskedOnce
  <2> SUFFICES ASSUME QInv, NEW p \in Procs, procs[p].at = "signin", procs[p].known,
                      ~ (used.mishaps > 0), issued # MaxTokens,
                      ~ (host = "keychain" /\ overlapped)
               PROVE  FALSE
    BY DEF AskedOnce
  <2>1. Calm
    <3>1. used.mishaps \in Nat /\ issued \in Nat /\ MaxTokens \in Nat /\ issued <= MaxTokens
      BY TokenAssumption DEF QInv, Counted, IInv, Typed
    <3> QED BY <3>1 DEF Calm
  <2> QED BY <2>1 DEF QInv, Asked
<1> QED BY <1>1, <1>2, PTL
=============================================================================
