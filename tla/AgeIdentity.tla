---------------------------- MODULE AgeIdentity ----------------------------
(***************************************************************************)
(* Providers that need other providers: a field of a provider may be a     *)
(* secret (crates/fnox-core/src/providers/resolver.rs), and the identity   *)
(* that decrypts age values may be kept by another provider (age.rs).      *)
(* Both lead from provider to provider.  Within one request the decrypts   *)
(* of a ciphertext are shared: the first opens it, others wait for it      *)
(* (DECRYPT_SCOPE).  Tasks of one request run concurrently; each is a      *)
(* stack of unfinished calls.                                              *)
(***************************************************************************)
EXTENDS Naturals, Sequences, FiniteSets

CONSTANTS
    AgeProvider, \* names of providers
    Age,        \* those of type age
    Text,       \* values of secrets in the config
    KeyOf,      \* KeyOf[v]: the ciphertext that age opens for v, the wrapped key of a
                \* value that was encrypted in a batch, and v itself otherwise
    FieldSecret, \* secrets used as fields of providers
    AgeTask,    \* concurrent tasks of a request
    AgeConfigs, \* configs: [identity, token, secret, wanted]
    Nowhere     \* no place, no secret, no guard

Place == [provider : AgeProvider, value : Text]

ASSUME AgeIdentityAssumption ==
    /\ Age \subseteq AgeProvider /\ AgeConfigs # {} /\ KeyOf \in [Text -> Text]
    /\ \A c \in AgeConfigs :
        /\ c.identity \in [Age -> Place \union {Nowhere}]      \* where the identity is kept
        /\ c.token \in [AgeProvider -> FieldSecret \union {Nowhere}]   \* a field that is a secret
        /\ c.secret \in [FieldSecret -> Place]
        /\ c.wanted \in [AgeTask -> Place]

VARIABLES
    config,
    stack,      \* [AgeTask -> sequence of frames, the innermost call last]
    answer,     \* [AgeTask -> what the innermost call has returned, "none" while it runs]
    cells,      \* [Text -> "empty", "busy" or "set"]: DECRYPT_SCOPE
    opened      \* history: how often each ciphertext was decrypted

ageVars == <<config, stack, answer, cells, opened>>

\* A provider instance is given a guard or none.
Guards == [resolving : SUBSET AgeProvider, decrypting : SUBSET Text]
NoGuard == Nowhere

\* A call: resolve the config of a provider within ctx, build it, get a value from it.
Call(place, ctx, guard) ==
    [at |-> "config", provider |-> place.provider, value |-> place.value,
     ctx |-> ctx, guard |-> guard, holds |-> FALSE]

AgeInit ==
    /\ config \in AgeConfigs
    /\ stack = [t \in AgeTask |-> <<Call(config.wanted[t], {}, NoGuard)>>]
    /\ answer = [t \in AgeTask |-> "none"]
    /\ cells = [v \in Text |-> "empty"]
    /\ opened = [v \in Text |-> 0]

\* Nothing is decrypted.
AgeIdle ==
    /\ config = CHOOSE c \in AgeConfigs : TRUE
    /\ stack = [t \in AgeTask |-> <<>>] /\ answer = [t \in AgeTask |-> "ok"]
    /\ cells = [v \in Text |-> "empty"] /\ opened = [v \in Text |-> 0]

Top(t) == stack[t][Len(stack[t])]
WrappedKey(f) == KeyOf[f.value]

\* The innermost call of t is at l and still runs.
CallAt(t, l) == stack[t] # <<>> /\ answer[t] = "none" /\ Top(t).at = l

GoTo(t, l) == [stack EXCEPT ![t][Len(stack[t])].at = l]
Push(t, l, call) == [stack EXCEPT ![t] = Append([@ EXCEPT ![Len(@)].at = l], call)]

AnswerWith(t, r) == answer' = [answer EXCEPT ![t] = r]

----------------------------------------------------------------------------
(* Resolving the config of a provider. *)

\* resolve_provider_config_with_context.  A field that is a secret is fetched from its
\* provider, within the same context; that provider is built without a guard.
ResolveConfig(t) ==
    LET f == Top(t)  s == config.token[f.provider]
    IN  /\ CallAt(t, "config")
        /\ \/ f.provider \in f.ctx /\ AnswerWith(t, "cycle") /\ UNCHANGED stack
           \/ /\ f.provider \notin f.ctx /\ s = Nowhere
              /\ stack' = GoTo(t, "get") /\ UNCHANGED answer
           \/ /\ f.provider \notin f.ctx /\ s # Nowhere
              /\ stack' = Push(t, "token", Call(config.secret[s], f.ctx \union {f.provider}, NoGuard))
              /\ UNCHANGED answer
        /\ UNCHANGED <<config, cells, opened>>

\* get_secret of a provider other than age, which may fail.
GetOther(t) ==
    /\ CallAt(t, "get") /\ Top(t).provider \notin Age
    /\ \E r \in {"ok", "failed"} : AnswerWith(t, r)
    /\ UNCHANGED <<config, stack, cells, opened>>

----------------------------------------------------------------------------
(* age. *)

\* Mutant: a call that is re-entered waits like any other.
NeverReentrant(f) == FALSE

\* The call comes from the identity lookup of the same provider or ciphertext.
IsReentrant(f) ==
    /\ f.guard # NoGuard
    /\ f.provider \in f.guard.resolving \/ WrappedKey(f) \in f.guard.decrypting

\* Mutant: overlapping decrypts of one ciphertext do not wait for each other.
DecryptEach(t) ==
    LET f == Top(t)
    IN  /\ CallAt(t, "get") /\ f.provider \in Age
        /\ \/ cells[WrappedKey(f)] = "set" /\ AnswerWith(t, "ok") /\ UNCHANGED <<stack, cells>>
           \/ /\ cells[WrappedKey(f)] # "set" /\ UNCHANGED <<answer, cells>>
              /\ stack' = GoTo(t, "decrypt")
        /\ UNCHANGED <<config, opened>>

\* decrypt_age_value and decrypt_once: the task opens the ciphertext itself, has the
\* text of an earlier decrypt, or waits until the task that opens it is done.
DecryptOnce(t) ==
    LET f == Top(t)  c == WrappedKey(f)
    IN  /\ CallAt(t, "get") /\ f.provider \in Age
        /\ \/ IsReentrant(f) /\ stack' = GoTo(t, "decrypt") /\ UNCHANGED <<answer, cells>>
           \/ ~IsReentrant(f) /\ cells[c] = "set" /\ AnswerWith(t, "ok") /\ UNCHANGED <<stack, cells>>
           \/ /\ ~IsReentrant(f) /\ cells[c] = "empty"
              /\ cells' = [cells EXCEPT ![c] = "busy"]
              /\ stack' = [GoTo(t, "decrypt") EXCEPT ![t][Len(stack[t])].holds = TRUE]
              /\ UNCHANGED answer
        /\ UNCHANGED <<config, opened>>

\* enter and mark_decrypting.
Entered(f) ==
    LET g == IF f.guard = NoGuard THEN [resolving |-> {}, decrypting |-> {}] ELSE f.guard
    IN  [resolving |-> g.resolving \union {f.provider}, decrypting |-> g.decrypting \union {WrappedKey(f)}]

\* The identity comes from another provider: a new context, and the guard goes with it.
ResolveProviderIdentity(t) ==
    LET f == Top(t)  i == config.identity[f.provider]
    IN  /\ CallAt(t, "decrypt") /\ i # Nowhere
        /\ IF i.provider = f.provider \/ (f.guard # NoGuard /\ f.provider \in f.guard.resolving)
           THEN AnswerWith(t, "cycle") /\ UNCHANGED stack
           ELSE stack' = Push(t, "identity", Call(i, {}, Entered(f))) /\ UNCHANGED answer
        /\ UNCHANGED <<config, cells, opened>>

\* With the identity, or the key file, the value is opened; it may be the wrong one.
Decrypt(t) ==
    /\ \/ CallAt(t, "decrypt") /\ config.identity[Top(t).provider] = Nowhere
       \/ CallAt(t, "open")
    /\ \E r \in {"ok", "failed"} :
        /\ AnswerWith(t, r)
        /\ opened' = [opened EXCEPT ![WrappedKey(Top(t))] = @ + (IF r = "ok" THEN 1 ELSE 0)]
    /\ UNCHANGED <<config, stack, cells>>

\* A call ends: its cell is set, or free again after an error; its caller goes on with
\* the result or fails too.
Return(t) ==
    LET f == Top(t)  rest == SubSeq(stack[t], 1, Len(stack[t]) - 1)
    IN  /\ stack[t] # <<>> /\ answer[t] # "none"
        /\ cells' = IF f.holds
                    THEN [cells EXCEPT ![WrappedKey(f)] = IF answer[t] = "ok" THEN "set" ELSE "empty"]
                    ELSE cells
        /\ IF Len(rest) > 0 /\ answer[t] = "ok"
           THEN /\ stack' = [stack EXCEPT ![t] =
                        [rest EXCEPT ![Len(rest)].at = IF @ = "token" THEN "get" ELSE "open"]]
                /\ AnswerWith(t, "none")
           ELSE stack' = [stack EXCEPT ![t] = rest] /\ UNCHANGED answer
        /\ UNCHANGED <<config, opened>>

CallStep(t) ==
    \/ ResolveConfig(t) \/ GetOther(t) \/ DecryptOnce(t) \/ ResolveProviderIdentity(t)
    \/ Decrypt(t) \/ Return(t)

Ended(t) == stack[t] = <<>>

AgeNext == \E t \in AgeTask : CallStep(t)

\* The runtime polls every task that can go on.
AgeFair == \A t \in AgeTask : WF_ageVars(CallStep(t))

----------------------------------------------------------------------------
(* Properties. *)

\* The providers that a provider needs.
Needs(p) ==
    (IF config.token[p] # Nowhere THEN {config.secret[config.token[p]].provider} ELSE {})
        \union (IF p \in Age /\ config.identity[p] # Nowhere THEN {config.identity[p].provider} ELSE {})

\* Of any providers one needs none of the others, nor itself.
Acyclic == \A S \in SUBSET AgeProvider : S # {} => \E p \in S : Needs(p) \cap S = {}

\* A ciphertext of the config is a value of one provider.
Places ==
    {config.wanted[t] : t \in AgeTask}
        \union {config.secret[s] : s \in FieldSecret}
        \union ({config.identity[p] : p \in Age} \ {Nowhere})
OwnTexts == \A a, b \in Places : KeyOf[a.value] = KeyOf[b.value] => a.provider = b.provider

\* Types; and callers wait for the call above them, which the innermost one never does.
AgeTypeOK ==
    /\ config \in AgeConfigs
    /\ \A t \in AgeTask : \A i \in DOMAIN stack[t] :
        LET f == stack[t][i]
        IN  /\ f.at \in {"config", "token", "get", "decrypt", "identity", "open"}
            /\ f.provider \in AgeProvider /\ f.value \in Text /\ f.holds \in BOOLEAN
            /\ f.ctx \subseteq AgeProvider /\ f.guard \in Guards \union {NoGuard}
            /\ (i < Len(stack[t])) => f.at \in {"token", "identity"}
            /\ (i = Len(stack[t]) /\ answer[t] = "none") => f.at \notin {"token", "identity"}
    /\ answer \in [AgeTask -> {"none", "ok", "failed", "cycle"}]
    /\ cells \in [Text -> {"empty", "busy", "set"}] /\ opened \in [Text -> Nat]

\* A cell is taken exactly while one unfinished call opens its ciphertext, so that
\* nobody waits for a decrypt that is not under way.
CellsOwned ==
    \A v \in Text :
        LET owners == {o \in UNION {{<<t, i>> : i \in DOMAIN stack[t]} : t \in AgeTask} :
                          stack[o[1]][o[2]].holds /\ WrappedKey(stack[o[1]][o[2]]) = v}
        IN  (cells[v] = "busy") = (Cardinality(owners) = 1) /\ Cardinality(owners) <= 1

\* Tasks of one request decrypt a ciphertext once, so that an identity behind a PIN
\* asks once.  A ciphertext that two providers have, one of them for the identity of the
\* other, is opened by each (is_reentrant).
OpenedOnce == Acyclic /\ OwnTexts => \A v \in Text : opened[v] <= 1

\* The tasks of a request enter at one provider, and no field of a provider is a secret.
IdentitiesOnly ==
    /\ \A p \in AgeProvider : config.token[p] = Nowhere
    /\ \A t, u \in AgeTask : config.wanted[t].provider = config.wanted[u].provider

\* Without a cycle among the providers every task gets its value or an error, although
\* tasks wait for each other's decrypts.  A cycle of identities alone is an error too,
\* where all tasks enter it at one provider.
AgeAnswered == (Acyclic \/ IdentitiesOnly) => <>(\A t \in AgeTask : Ended(t))

=============================================================================
