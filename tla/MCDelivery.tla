------------------------------- MODULE MCDelivery -------------------------------
(* Instances for Delivery.  In the proxy's part the characters a, b and c stand *)
(* only in values of secrets, p and q only in placeholders.                     *)
EXTENDS Delivery

CONSTANTS S1, S2, S3

Plain(s) == [home |-> FALSE, abs |-> FALSE, path |-> s]

MCCredentialPaths == {<<"aws">>, <<"ssh">>}

Home == <<"home">>

Proj == <<"home", "proj">>

(* ~/aws is a link, the local config is not there yet, and a key is under /run. *)
World ==
  [cwd |-> Proj, home |-> Home,
   dirs |-> {<<>>, <<"tmp">>, <<"run">>, <<"mnt">>, <<"mnt", "aws">>, Home, Proj,
             Home \o <<"ssh">>, Home \o <<"fnox">>, Proj \o <<"git">>},
   plain |-> {Home \o <<"fnox", "age">>, Proj \o <<"fnox">>, <<"run", "key">>, Proj \o <<"git", "config">>},
   links |-> [l \in {Home \o <<"aws">>} |-> <<"mnt", "aws">>],
   fnoxDirs |-> {Home \o <<"fnox">>}, fnoxFiles |-> {Proj \o <<"fnox">>, Proj \o <<"local">>},
   keyFiles |-> {Home \o <<"fnox", "age">>, Proj \o <<"keys", "k">>}, environment |-> {<<"run", "key">>},
   literalKeys |-> TRUE, allowRead |-> {}, denyRead |-> {}, allowWrite |-> {}, linux |-> TRUE,
   later |-> {Proj \o <<"local">>}]

Rule(s, domain, place, name, methods, paths) ==
  [secret |-> s, domain |-> domain, target |-> [in |-> place, name |-> name], methods |-> methods,
   paths |-> paths, placeholder |-> <<>>, env |-> s, valid |-> TRUE]

Host(h) == [wild |-> FALSE, host |-> h]

Rules ==
  << Rule(S1, Host(<<"api", "x">>), "header", "auth", {}, {"v1"}),
     Rule(S1, Host(<<"api", "x">>), "header", "key", {"POST"}, {}),
     Rule(S2, [wild |-> TRUE, host |-> <<"x">>], "query", "key", {"GET"}, {}),
     Rule(S2, Host(<<"lan">>), "header", "auth", {}, {}) >>

MCGenerated == [s \in {S1, S2, S3} |-> IF s = S1 THEN <<"p">> ELSE <<"q">>]

Session ==
  [rules |-> Rules, domainsValid |-> TRUE, secrets |-> {S1, S2, S3},
   value |-> [s \in {S1, S2, S3} |-> IF s = S1 THEN <<"a", "b">> ELSE IF s = S2 THEN <<"a", "b", "c">>
                                     ELSE <<"d", "d">>],
   deps |-> [s \in {S1, S2, S3} |-> IF s = S2 THEN {S3, "VAULT_TOKEN"} ELSE {}],
   env |-> [v \in {S1, S3, "VAULT_TOKEN", "FNOX_AGE_KEY", "PATH"} |->
              CASE v = S1 -> <<"a", "b">> [] v = S3 -> <<"d", "d">> [] v = "VAULT_TOKEN" -> <<"e", "e">>
                [] v = "FNOX_AGE_KEY" -> <<"f", "f">> [] v = "PATH" -> <<"x">>],
   ambient |-> {"FNOX_AGE_KEY"}, unset |-> {"SSH_AUTH_SOCK"}, settings |-> {"HTTPS_PROXY"},
   private |-> {<<"a", "b">>, <<"a", "b", "c">>, <<"d", "d">>, <<"e", "e">>, <<"f", "f">>},
   sandbox |-> TRUE, world |-> World, permissive |-> FALSE,
   allowDomains |-> {Host(<<"www", "y">>)},
   allowPrivate |-> {[net |-> "lan", form |-> "v4"]}]

MCProxyInputs ==
  <<Session,
   [Session EXCEPT !.sandbox = FALSE, !.permissive = TRUE],
   [Session EXCEPT !.world.linux = FALSE, !.world.dirs = @ \cup {<<"var">>},
                   !.world.plain = @ \cup {<<"var", "key">>},
                   !.world.environment = @ \cup {<<"var", "key">>}, !.allowDomains = {}],
   [Session EXCEPT !.world.cwd = <<"tmp">>, !.world.allowRead = {Plain(<<"home", "ssh">>), [home |-> TRUE, abs |-> FALSE, path |-> <<"ssh">>]},
                   !.world.allowWrite = {[home |-> TRUE, abs |-> FALSE, path |-> <<>>]},
                   !.world.denyRead = {[home |-> FALSE, abs |-> TRUE, path |-> <<"mnt">>]}],
   [Session EXCEPT !.world.literalKeys = FALSE],
   [Session EXCEPT !.rules = <<>>],
   [Session EXCEPT !.rules[1].placeholder = <<"q", "a">>],
   [Session EXCEPT !.value[S1] = <<>>],
   [Session EXCEPT !.secrets = {S1}]>>

MCTargets ==
  LET t(ok, d, port, lit) == [ok |-> ok, domain |-> d, port |-> port, literal |-> lit]
  IN  {t(TRUE, <<"api", "x">>, 443, None), t(TRUE, <<"api", "x">>, 80, None),
       t(TRUE, <<"m", "x">>, 443, None), t(TRUE, <<"www", "y">>, 443, None),
       t(FALSE, <<>>, 0, None), t(TRUE, <<"lan">>, 443, [net |-> "lan", form |-> "v4"])}

MCAnswers ==
  LET a(net, form) == [net |-> net, form |-> form]
  IN  {{}, {a("public", "v4"), a("own", "v4")}, {a("own", "mapped")}, {a("own", "embedded")},
       {a("lan", "mapped")}, {a("lan", "embedded")}, {a("public", "v6"), a("public", "embedded")}}

MCRequests ==
  LET h(n, v) == [name |-> n, value |-> v]
      q(n, t, v) == [name |-> n, text |-> t, value |-> v]
      r(form, m, p, text, hs, qs) ==
        [form |-> form, method |-> m, path |-> p, text |-> text, headers |-> hs, query |-> qs]
      auth == h("auth", <<"-", "p">>)
      key == q("key", <<"k">>, <<"q">>)
  IN  {r("ok", "GET", "v1", <<>>, <<h("connection", <<"-">>), auth>>, <<>>),
       r("ok", "GET", "v1", <<>>, <<auth>>, <<key>>),
       r("ok", "POST", "v2", <<>>, <<h("key", <<"p">>)>>, <<>>),
       r("ok", "GET", "v2", <<>>, <<h("key", <<"p">>)>>, <<>>),
       r("ok", "GET", "v2", <<>>, <<>>, <<key, q("n", <<"n">>, <<"-">>)>>),
       r("ok", "GET", "v1", <<>>, <<auth, auth>>, <<>>),
       r("ok", "GET", "v1", <<>>, <<auth, h("accept-encoding", <<"-">>)>>, <<>>),
       r("ok", "GET", "v1", <<"p">>, <<>>, <<>>),
       r("ok", "GET", "v1", <<>>, <<>>, <<q("key", <<"k">>, <<"p">>)>>),
       r("ok", "GET", "v1", <<>>, <<>>, <<q("q", <<"q">>, <<"-">>)>>),
       r("ok", "GET", "v1", <<>>, <<h("auth", <<"q">>)>>, <<>>),
       r("ok", "DELETE", "v3", <<>>, <<>>, <<>>)}
      \cup {r(form, "GET", "v1", <<>>, <<auth>>, <<>>) :
              form \in {"malformed", "noUrl", "ambiguous", "otherHost", "noMethod"}}

--------------------------------------------------------------------------------

Secret(mode, file, value) == [mode |-> mode, file |-> file, value |-> value]

(* BASE is only for leases, TOKEN has a blank before it and is also given by a lease, *)
(* CERT is a file.                                                                    *)
ExecSecrets ==
  [k \in {"BASE", "TOKEN", "CERT"} |->
     CASE k = "BASE" -> Secret("none", FALSE, <<"b", "b">>)
       [] k = "TOKEN" -> Secret("all", FALSE, <<" ", "a", "b">>)
       [] k = "CERT" -> Secret("exec", TRUE, <<"a", "b", "a">>)]

Lease(name, produces, consumes, known) ==
  [name |-> name, produces |-> produces, consumes |-> consumes, known |-> known, cached |-> FALSE]

Exec ==
  [secrets |-> ExecSecrets,
   leases |-> <<Lease("L1", {"TOKEN", "EXTRA"}, {"BASE"}, TRUE), Lease("L2", {"EXTRA", "BASE"}, {"CERT"}, TRUE)>>,
   deps |-> [k \in DOMAIN ExecSecrets |-> IF k = "TOKEN" THEN {"CERT"} ELSE {}],
   defaultDeps |-> {}, scope |-> "exec",
   roots |-> [kind |-> "scope", keys |-> {}, only |-> {}, except |-> {}],
   env |-> [v \in {"BASE", "FNOX_AGE_KEY", "PATH"} |-> IF v = "BASE" THEN <<"b", "b">> ELSE <<"x">>],
   replace |-> FALSE, redact |-> FALSE, streams |-> Streams, mayLack |-> {"BASE", "TOKEN"}]

Name(k) == [glob |-> FALSE, names |-> {k}]

MCExecInputs ==
  <<Exec,
   [Exec EXCEPT !.leases = <<>>, !.redact = TRUE, !.mayLack = {}],
   [Exec EXCEPT !.roots.kind = "keys", !.roots.keys = {"EXTRA"}],
   [Exec EXCEPT !.roots.kind = "keys", !.roots.keys = {"TOKEN", "CERT"}, !.leases[1].known = FALSE],
   [Exec EXCEPT !.roots.kind = "keys", !.roots.keys = {"BASE"}, !.leases = <<>>],
   [Exec EXCEPT !.roots.kind = "filter", !.roots.only = {Name("TOKEN")}],
   [Exec EXCEPT !.roots.kind = "filter", !.roots.except = {Name("CERT"), [glob |-> TRUE, names |-> {}]}],
   [Exec EXCEPT !.roots.kind = "filter", !.roots.except = {Name("TOKEN")}, !.leases[2].known = FALSE],
   [Exec EXCEPT !.roots.kind = "filter", !.roots.only = {Name("BASE")}, !.leases = <<>>],
   [Exec EXCEPT !.replace = TRUE],
   [Exec EXCEPT !.replace = TRUE, !.leases = <<>>],
   [Exec EXCEPT !.replace = TRUE, !.leases = <<>>, !.secrets["CERT"].file = FALSE]>>

--------------------------------------------------------------------------------

MCMcpSecrets ==
  [k \in {"A", "N", "F", "U"} |->
     [mode |-> IF k = "N" THEN "none" ELSE "all", file |-> k = "F", listed |-> k # "U"]]

(* g is the file of a profile, which is set at the start. *)
MCVisible ==
  [d \in Dirs |-> [v \in {0, 1} |-> IF d = "down" /\ v = 0 THEN {"f", "g"} ELSE {"f"}]]

MCConfigured ==
  [f \in {"f", "g"} |-> [m \in 1..MaxEdits |-> [v \in {0, 1} |->
     IF f = "f" THEN IF m = 1 /\ v = 0 THEN {"F"} ELSE {"A"}
     ELSE IF m = 1 THEN {"B"} ELSE {"B", "F", "X"}]]]

MCHookSecrets ==
  [k \in {"A", "B", "F", "X"} |->
     [mode |-> IF k = "X" THEN "exec" ELSE "all", file |-> k \in {"B", "F"}]]

--------------------------------------------------------------------------------

(* The dashboard starts in a stack of profiles; the only one it can switch to has *)
(* fewer secrets.                                                                 *)
MCProfiles == <<"broken", "default">>

MCProfileSecrets == [p \in {"default", "stack"} |-> IF p = "stack" THEN <<1, 2>> ELSE <<1>>]

MCProfileProviders == [p \in {"default", "stack"} |-> 1]
================================================================================
