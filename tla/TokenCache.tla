----------------------------- MODULE TokenCache -----------------------------
(***************************************************************************)
(* The sign-in that commands and daemons of one machine share.  Each       *)
(* process picks the store of the machine, and before each request to the  *)
(* calendar loads the token, refreshes it when it has run out, or asks the *)
(* user to sign in.  Nothing is locked: the processes take turns in any    *)
(* order between a load, the provider's reply and a save.                  *)
(*                                                                         *)
(* A token is a pair of numbers the provider gave out; 0 stands for an     *)
(* empty one.                                                              *)
(*                                                                         *)
(* Code: internal/auth, internal/googleauth, cmd/provider.go.              *)
(***************************************************************************)
EXTENDS Integers

CONSTANTS
    Procs,
    Daemons,        \* the processes whose every item is bounded in time
    Hosts,          \* where the machine keeps a token: a keychain, or a file
    Replies,        \* whether a refresh is answered with a new refresh token
    MaxTokens,      \* bound on what the provider issues
    MaxCommands,    \* bound on commands
    MaxCalls,       \* bound on a command's requests
    MaxMishaps      \* bound on lost replies, failed saves, crashes and revocations

ASSUME TokenAssumption ==
    /\ Daemons \subseteq Procs
    /\ Hosts \subseteq {"keychain", "file"}
    /\ Replies \subseteq {"bare", "renewed"}
    /\ {MaxTokens, MaxCommands, MaxCalls, MaxMishaps} \subseteq Nat

VARIABLES
    host,       \* what this machine offers
    reply,      \* Google's has no refresh token; Microsoft's renews it
    keyring,    \* the token in the keychain
    file,       \* the token in a file, sealed or not
    probe,      \* the keychain's probe item is there
    fresh,      \* access tokens that have not run out
    issued,     \* tokens issued so far
    revoked,    \* refresh tokens up to this one are not accepted any more
    procs,
    used,       \* how much of each bound is used
    saved,      \* history: a sign-in was saved
    overlapped  \* history: two commands ran at once

granted == <<fresh, issued, revoked>>
stores == <<keyring, file, probe>>
vars == <<host, reply, stores, granted, procs, used, saved, overlapped>>

Empty == [access |-> 0, refresh |-> 0]

Idle == [at |-> "idle", store |-> "file", token |-> Empty,
         found |-> FALSE, known |-> FALSE, calls |-> 0]

Goto(p, point) == procs' = [procs EXCEPT ![p].at = point]
Hold(p, token, point) == procs' = [procs EXCEPT ![p].at = point, ![p].token = token]
Finish(p) == procs' = [procs EXCEPT ![p] = Idle]

\* A lost reply, a failed save, a crash, a withdrawn consent.
Mishap ==
    /\ used.mishaps < MaxMishaps
    /\ used' = [used EXCEPT !.mishaps = @ + 1]

-----------------------------------------------------------------------------
(* The provider. *)

\* What a reply grants; only a sign-in is sure to come with a refresh token.
Grant(signIn) ==
    [access |-> issued + 1,
     refresh |-> IF signIn \/ reply = "renewed" THEN issued + 1 ELSE 0]

\* Mutant: the refresh token is what the reply says.
CarriedNot(t, g) == g

\* A refresh token that the reply leaves out is carried forward.
Carried(t, g) == IF g.refresh = 0 THEN [g EXCEPT !.refresh = t.refresh] ELSE g

Issue ==
    /\ issued < MaxTokens
    /\ issued' = issued + 1
    /\ fresh' = fresh \cup {issued'}
    /\ UNCHANGED revoked

Revoke ==
    /\ revoked < issued
    /\ revoked' = issued
    /\ Mishap
    /\ UNCHANGED <<host, reply, stores, fresh, issued, procs, saved, overlapped>>

Expire(t) ==
    /\ t \in fresh
    /\ fresh' = fresh \ {t}
    /\ UNCHANGED <<host, reply, stores, issued, revoked, procs, used, saved, overlapped>>

-----------------------------------------------------------------------------
(* The choice of a store (NewStore, keychainAvailable). *)

Begin == IF host = "keychain" THEN "set" ELSE "load"

Start(p) ==
    /\ procs[p].at = "idle"
    /\ used.commands < MaxCommands
    /\ used' = [used EXCEPT !.commands = @ + 1]
    /\ Goto(p, Begin)
    /\ overlapped' = (overlapped \/ \E q \in Procs \ {p} : procs[q].at # "idle")
    /\ UNCHANGED <<host, reply, stores, granted, saved>>

\* Every process writes, reads and deletes the same item.
ProbeSet(p) ==
    /\ procs[p].at = "set"
    /\ \/ probe' = TRUE /\ Goto(p, "probe") /\ UNCHANGED used
       \/ Mishap /\ Goto(p, "load") /\ UNCHANGED probe
    /\ UNCHANGED <<host, reply, keyring, file, granted, saved, overlapped>>

ProbeGet(p) ==
    /\ procs[p].at = "probe"
    /\ procs' = [procs EXCEPT ![p].at = "unprobe", ![p].found = probe]
    /\ UNCHANGED <<host, reply, stores, granted, used, saved, overlapped>>

ProbeDelete(p) ==
    /\ procs[p].at = "unprobe"
    /\ probe' = FALSE
    /\ procs' = [procs EXCEPT ![p].at = "load",
                              ![p].store = IF procs[p].found THEN "keychain" ELSE "file"]
    /\ UNCHANGED <<host, reply, keyring, file, granted, used, saved, overlapped>>

-----------------------------------------------------------------------------
(* Load, with the move of an earlier file to the keychain. *)

\* What Token does with the token it has loaded.
After(t) ==
    IF t.access \in fresh THEN "ready"
    ELSE IF t.refresh # 0 THEN "refresh"
    ELSE "signin"

LoadToken(p) ==
    LET t == IF procs[p].store = "file" THEN file ELSE keyring
        elsewhere == procs[p].store = "keychain" /\ keyring = Empty
    IN
    /\ procs[p].at = "load"
    /\ procs' = [procs EXCEPT ![p].at = IF elsewhere THEN "legacy" ELSE After(t),
                              ![p].token = t, ![p].known = saved]
    /\ UNCHANGED <<host, reply, stores, granted, used, saved, overlapped>>

\* Mutant of Migrates: a file of an earlier version is not looked at.
MigratesNot(t) == FALSE

Migrates(t) == t.access # 0

ReadLegacy(p) ==
    /\ procs[p].at = "legacy"
    /\ IF Migrates(file) THEN Hold(p, file, "migrate") ELSE Hold(p, Empty, After(Empty))
    /\ UNCHANGED <<host, reply, stores, granted, used, saved, overlapped>>

\* Mutant of Migrate: the file goes whether or not the keychain has the token.
MigrateCareless(p) ==
    /\ procs[p].at = "migrate"
    /\ Goto(p, "remove")
    /\ \/ keyring' = procs[p].token /\ UNCHANGED used
       \/ Mishap /\ UNCHANGED keyring
    /\ UNCHANGED <<host, reply, file, probe, granted, saved, overlapped>>

Migrate(p) ==
    /\ procs[p].at = "migrate"
    /\ \/ keyring' = procs[p].token /\ Goto(p, "remove") /\ UNCHANGED used
       \/ Mishap /\ Goto(p, After(procs[p].token)) /\ UNCHANGED keyring
    /\ UNCHANGED <<host, reply, file, probe, granted, saved, overlapped>>

\* A file that cannot be removed is left.
RemoveFile(p) ==
    /\ procs[p].at = "remove"
    /\ \/ file' = Empty /\ UNCHANGED used
       \/ Mishap /\ UNCHANGED file
    /\ Goto(p, After(procs[p].token))
    /\ UNCHANGED <<host, reply, keyring, probe, granted, saved, overlapped>>

-----------------------------------------------------------------------------
(* Refresh, sign in, save. *)

\* A refresh that is refused, or whose reply is lost, falls through to the
\* interactive flow.
Refresh(p) ==
    LET t == procs[p].token IN
    /\ procs[p].at = "refresh"
    /\ \/ /\ t.refresh > revoked
          /\ Issue
          /\ Hold(p, Carried(t, Grant(FALSE)), "save")
          /\ UNCHANGED used
       \/ /\ t.refresh <= revoked \/ issued = MaxTokens
          /\ Goto(p, "signin")
          /\ UNCHANGED <<granted, used>>
       \/ Mishap /\ Goto(p, "signin") /\ UNCHANGED granted
    /\ UNCHANGED <<host, reply, stores, saved, overlapped>>

\* The user consents, in the browser or with the device code.
Consent(p) ==
    /\ procs[p].at = "signin"
    /\ Issue
    /\ Hold(p, Grant(TRUE), "save")
    /\ UNCHANGED <<host, reply, stores, used, saved, overlapped>>

Fail(p) ==
    /\ Finish(p)
    /\ UNCHANGED <<host, reply, stores, granted, used, saved, overlapped>>

Decline(p) == procs[p].at = "signin" /\ Fail(p)

\* Mutant of IsBounded: only a device code runs out.
DeviceOnly(p) == reply = "renewed"

\* A device code runs out, a daemon's item is cut off; a browser is waited for.
IsBounded(p) == p \in Daemons \/ reply = "renewed"

TimeUp(p) == procs[p].at = "signin" /\ IsBounded(p) /\ Fail(p)

SaveToken(p) ==
    LET t == procs[p].token IN
    /\ procs[p].at = "save"
    /\ \/ /\ IF procs[p].store = "keychain"
             THEN keyring' = t /\ UNCHANGED file
             ELSE file' = t /\ UNCHANGED keyring
          /\ saved' = TRUE
          /\ Goto(p, "ready")
          /\ UNCHANGED used
       \/ Mishap /\ Finish(p) /\ UNCHANGED <<keyring, file, saved>>
    /\ UNCHANGED <<host, reply, probe, granted, overlapped>>

\* A request made; the next one asks for the token again.
Request(p) ==
    /\ procs[p].at = "ready"
    /\ \/ Finish(p)
       \/ /\ procs[p].calls < MaxCalls
          /\ procs' = [procs EXCEPT ![p].at = "load", ![p].calls = @ + 1]
    /\ UNCHANGED <<host, reply, stores, granted, used, saved, overlapped>>

Crash(p) ==
    /\ procs[p].at # "idle"
    /\ Finish(p)
    /\ Mishap
    /\ UNCHANGED <<host, reply, stores, granted, saved, overlapped>>

\* The file may be an earlier version's, with a token that still works.
Init ==
    /\ host \in Hosts
    /\ reply \in Replies
    /\ keyring = Empty
    /\ issued \in {0, 1} /\ issued <= MaxTokens
    /\ file = [access |-> issued, refresh |-> issued]
    /\ probe = FALSE
    /\ fresh = 1..issued
    /\ revoked = 0
    /\ procs = [p \in Procs |-> Idle]
    /\ used = [commands |-> 0, mishaps |-> 0]
    /\ saved = (issued = 1)
    /\ overlapped = FALSE

\* What a process does by itself.
Work(p) ==
    \/ ProbeSet(p) \/ ProbeGet(p) \/ ProbeDelete(p)
    \/ LoadToken(p) \/ ReadLegacy(p) \/ Migrate(p) \/ RemoveFile(p)
    \/ Refresh(p) \/ SaveToken(p) \/ Request(p) \/ TimeUp(p)

Next ==
    \/ \E p \in Procs : Start(p) \/ Work(p) \/ Consent(p) \/ Decline(p) \/ Crash(p)
    \/ \E t \in fresh : Expire(t)
    \/ Revoke

Spec == Init /\ [][Next]_vars

\* A process goes on by itself; nobody has to answer a prompt.
FairSpec == Spec /\ \A p \in Procs : WF_vars(Work(p))

-----------------------------------------------------------------------------
(* Properties. *)

\* A token stored or in hand is either empty or can be refreshed: a reply
\* without a refresh token never wipes the one before it (Carried).
Token == {Empty} \cup [access : 1..MaxTokens, refresh : 1..MaxTokens]

Points == {"idle", "set", "probe", "unprobe", "load", "legacy", "migrate", "remove",
           "refresh", "signin", "save", "ready"}

\* Every variable has its values; a keychain nobody can reach is not used.
TypeOK ==
    /\ host \in Hosts /\ reply \in Replies
    /\ keyring \in Token /\ file \in Token
    /\ {probe, saved, overlapped} \subseteq BOOLEAN
    /\ issued \in 0..MaxTokens /\ revoked \in 0..issued /\ fresh \subseteq 1..issued
    /\ \A p \in Procs :
        /\ procs[p].at \in Points
        /\ procs[p].store \in {"keychain", "file"}
        /\ procs[p].token \in Token
        /\ procs[p].at \in {"set", "probe", "unprobe", "legacy", "migrate", "remove"} =>
               host = "keychain"

\* Once somebody has signed in, a stored token is never gone from everywhere,
\* whatever fails while it moves to the keychain (keychainStore.Load).
SignedInKept == saved => keyring # Empty \/ file # Empty

\* A user who has signed in is not asked again while nothing fails, unless two
\* commands run at once and share the keychain's probe (Token, NewStore).
AskedOnce ==
    \A p \in Procs :
        procs[p].at = "signin" /\ procs[p].known =>
            \/ used.mishaps > 0 \/ issued = MaxTokens
            \/ host = "keychain" /\ overlapped

\* A daemon's item, and any command that waits for a device code, ends though
\* nobody answers the prompt (pollToken, pollItemTimeout).
CommandsEnd ==
    \A p \in Procs :
        procs[p].at # "idle" /\ (p \in Daemons \/ reply = "renewed") ~> procs[p].at = "idle"

\* What docs/commands.md says of tokens: they are in "the OS keychain when it is
\* reachable" (NewStore, and the probe item all commands share).
KeychainWhenReachable ==
    host = "keychain" => \A p \in Procs : procs[p].at = "save" => procs[p].store = "keychain"
=============================================================================
