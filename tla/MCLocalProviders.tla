-------------------------- MODULE MCLocalProviders --------------------------
(* Instances of LocalProviders for TLC.  In AgeIdentity's part ageP and ageQ *)
(* are age providers, safe keeps values of its own; tx and tx2 are values of *)
(* ageP encrypted in one batch, ty one of ageQ.                              *)
EXTENDS LocalProviders

CONSTANTS t1, t2, fido, finger, yk1, yk2, enp, kp, file, plugin, aws, gcp, azure, work, home,
          v1, v2, v3, fa, fb, fc, fd, fe, ff, ageP, ageQ, safe, tok, tx, ty, tx2, tw, p1, p2, p3, here, there, tag

Where(at, u) == [provider |-> at, value |-> u]

OneKey == [u \in Text |-> IF u = tx2 THEN tx ELSE u]
Kept == {Where(ageP, tx), Where(ageQ, ty), Where(safe, tw)}
AllConfigs ==
    [identity : [Age -> Kept \union {Nowhere}],
     token : {g \in [AgeProvider -> FieldSecret \union {Nowhere}] : g[ageP] = Nowhere},
     secret : [FieldSecret -> Kept],
     wanted : {g \in [AgeTask -> Kept \union {Where(ageP, tx2)}] : g[t1] = Where(ageP, tx)}]

----------------------------------------------------------------------------

Providers == {fido, finger, yk1, yk2, enp, kp, file, plugin, aws, gcp, azure}
Together == {{fido, finger}, {yk1, yk2}, {enp, kp}, {file, plugin}, {aws, gcp, azure}}
Kinds == (fido :> "fido2") @@ (finger :> "fido2") @@ (yk1 :> "yubikey") @@ (yk2 :> "yubikey") @@ (enp :> "enpass")
    @@ (kp :> "keepass") @@ (file :> "plain") @@ (plugin :> "lua") @@ (aws :> "aws") @@ (gcp :> "gcp") @@ (azure :> "azure")
ProviderNames == (finger :> home) @@ (yk2 :> home) @@ [p \in Providers |-> work]
Vaults == (enp :> v1) @@ (kp :> v2) @@ [p \in Providers |-> v3]
NoneConfigured == [p \in Providers |-> None]
Modes == (fido :> "pin") @@ (finger :> "biometric") @@ [p \in Providers |-> None]
Frames == (yk1 :> <<1, 0, 2>>) @@ (yk2 :> <<0, 3, 0>>) @@ [p \in Providers |-> <<>>]

\* A field that names another twice, chains, nothing to resolve, and a cycle.
SomeDatabases == {(fa :> <<fb, fb>>) @@ (fb :> <<fc>>) @@ (fc :> <<>>) @@ (fd :> <<fe>>) @@ (fe :> <<fb>>) @@ (ff :> <<ff>>)}

----------------------------------------------------------------------------
(* Two remotes; the default branch of each has an entry file, and so has the  *)
(* tag of the first.                                                          *)

From(u, r) == [url |-> u, ref |-> r]
Entries == {From(here, Nothing), From(here, tag), From(there, Nothing)}

Do(op, s, forced) == [op |-> op, source |-> s, force |-> forced]
Three(r1, r2, r3) == (p1 :> r1) @@ (p2 :> r2) @@ (p3 :> r3)

UseHere == Do("use", From(here, Nothing), FALSE)
UseThere == Do("use", From(there, Nothing), FALSE)
Installs(forced) == {Do("install", s, forced) : s \in {From(here, tag), From(there, Nothing), From(there, tag)}}
Links(forced) == {Do("link", Nothing, forced)}
Updates == {Do("update", s, FALSE) : s \in {Nothing, From(here, tag), From(there, Nothing), From(there, tag)}}

\* Two projects that use the plugin while it is installed or linked; forced installs and links;
\* and an update or a removal while it is installed and used.
Plans ==
    {Three(UseHere, u, r) : u \in {UseHere, UseThere, Do("use", Nothing, FALSE)}, r \in Installs(FALSE) \union Links(FALSE)}
    \union {Three(i, r, s) : i \in Installs(FALSE) \union {UseHere}, r \in Installs(TRUE) \union Links(TRUE),
                             s \in Installs(TRUE) \union Links(TRUE)}
    \union {Three(UseHere, u, r) : u \in {UseThere} \union Links(FALSE), r \in Updates \union {Do("uninstall", Nothing, FALSE)}}
=============================================================================
