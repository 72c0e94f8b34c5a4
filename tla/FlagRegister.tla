---------------------------- MODULE FlagRegister ----------------------------
(***************************************************************************)
(* What the service promises about the flag sets it serves, without Redis  *)
(* keys, handlers or failures: a register per tenant and environment, and  *)
(* one published copy of it that is outdated for a bounded time.           *)
(*                                                                         *)
(* A request is answered from the register itself or from the copy of its  *)
(* own scope.  Only what a request has just read may become the copy.      *)
(***************************************************************************)
EXTENDS Naturals

CONSTANTS
    Tenants, Environments,
    Requests,   \* evaluation requests
    None,
    Bound       \* the longest time a copy may be outdated

VARIABLES
    version,    \* version[s]: the number of changes of scope s
    copy,       \* copy[s]: the published copy, or None
    answer      \* answer[r]: what request r was given, or None

vars == <<version, copy, answer>>

Scope == Tenants \X Environments

Copy == [version : Nat, staleFor : Nat]

Answer == [scope : Scope, version : Nat, final : BOOLEAN, staleFor : Nat]

Init ==
    /\ version = [s \in Scope |-> 0]
    /\ copy = [s \in Scope |-> None]
    /\ answer = [r \in Requests |-> None]

(* One tenant changes some of its environments.                            *)
Change(t, E) ==
    /\ version' = [s \in Scope |-> IF s[1] = t /\ s[2] \in E THEN version[s] + 1 ELSE version[s]]
    /\ UNCHANGED <<copy, answer>>

Given(s, v, final) == [scope |-> s, version |-> v, final |-> final, staleFor |-> 0]

(* A request reads the register; unless final, it may publish what it read.*)
Read(r, s, final) ==
    /\ answer[r] = None
    /\ answer' = [answer EXCEPT ![r] = Given(s, version[s], final)]
    /\ UNCHANGED <<version, copy>>

ReadCopy(r, s) ==
    /\ answer[r] = None
    /\ copy[s] # None
    /\ answer' = [answer EXCEPT ![r] = Given(s, copy[s].version, TRUE)]
    /\ UNCHANGED <<version, copy>>

Settle(r) ==
    /\ answer[r] # None
    /\ ~answer[r].final
    /\ answer' = [answer EXCEPT ![r] = Given(answer[r].scope, answer[r].version, TRUE)]

Publish(r) ==
    /\ Settle(r)
    /\ copy' = [copy EXCEPT ![answer[r].scope] =
            [version |-> answer[r].version, staleFor |-> answer[r].staleFor]]
    /\ UNCHANGED version

Keep(r) == Settle(r) /\ UNCHANGED <<version, copy>>

Done(r) ==
    /\ answer[r] # None
    /\ answer' = [answer EXCEPT ![r] = None]
    /\ UNCHANGED <<version, copy>>

Withdraw(S) ==
    /\ copy' = [s \in Scope |-> IF s \in S THEN None ELSE copy[s]]
    /\ UNCHANGED <<version, answer>>

(* Time since the register moved on from x, a copy or an answer of scope s.*)
Outdated(s, x) == IF x.version < version[s] THEN x.staleFor + 1 ELSE x.staleFor

(* One unit of time.  A copy may go at any time and goes at the bound.     *)
Pass ==
    /\ \E gone \in SUBSET Scope :
        copy' = [s \in Scope |->
            IF copy[s] = None \/ s \in gone THEN None
            ELSE [version |-> copy[s].version, staleFor |-> Outdated(s, copy[s])]]
    /\ \A s \in Scope : copy'[s] # None => copy'[s].staleFor <= Bound
    /\ answer' = [r \in Requests |->
            IF answer[r] = None \/ answer[r].final THEN answer[r]
            ELSE [scope |-> answer[r].scope, version |-> answer[r].version, final |-> FALSE,
                  staleFor |-> Outdated(answer[r].scope, answer[r])]]
    /\ UNCHANGED version

Next ==
    \/ \E t \in Tenants, E \in SUBSET Environments : Change(t, E)
    \/ \E r \in Requests, s \in Scope, final \in BOOLEAN : Read(r, s, final)
    \/ \E r \in Requests, s \in Scope : ReadCopy(r, s)
    \/ \E r \in Requests : Publish(r) \/ Keep(r) \/ Done(r)
    \/ \E S \in SUBSET Scope : Withdraw(S)
    \/ Pass

Spec == Init /\ [][Next]_vars
=============================================================================
