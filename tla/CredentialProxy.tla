---------------------------- MODULE CredentialProxy ----------------------------
(***************************************************************************)
(* `fnox proxy run` (src/commands/proxy.rs, src/proxy.rs, src/sandbox.rs): *)
(* a child gets placeholders for secrets, and a proxy on this machine puts *)
(* the real values into the requests that a rule allows.                   *)
(*                                                                         *)
(* A rule is [secret, domain, target, methods, paths, placeholder, env]:   *)
(* domain is [wild, host] with host a sequence of labels, target is [in,   *)
(* name], an empty set of methods or paths means any, placeholder is a     *)
(* sequence of characters or <<>> for a generated one.  A session input i  *)
(* has the proxy's settings, the values, the parent's environment and the  *)
(* world of SandboxPolicy.                                                 *)
(***************************************************************************)
EXTENDS Redaction, SandboxPolicy, SequencesExt, TLC

CONSTANTS ProxyInputs,        \* the sessions that may be started, a sequence
          Conns,              \* connections of the child to the proxy
          Targets,            \* CONNECT targets [ok, domain, port, literal]
          Requests,           \* requests [form, method, path, text, headers, query]
          Answers,            \* answers of the DNS: sets of addresses
          None,               \* no value
          Generated           \* the placeholder made for a secret

Address == [net : {"public", "own", "lan"}, form : {"v4", "v6", "mapped", "embedded"}]

IsSequence(s) == s \in Seq(Range(s))

(* The settings that lead the child to the proxy. *)
ProxyUrl == <<"url">>

(* Private values stand in the variables of secrets, of what these depend on and of *)
(* fnox's own credentials, and in no placeholder. *)
PrivateKnown(i) ==
  \A w \in i.private :
    /\ \A v \in DOMAIN i.env :
         Occurs(i.env[v], w) => v \in i.secrets \cup i.ambient \cup UNION {i.deps[s] : s \in DOMAIN i.deps}
    /\ \A r \in Range(i.rules) : ~Occurs(r.placeholder, w) /\ ~Occurs(Generated[r.secret], w)
    /\ ~Occurs(ProxyUrl, w)

(* What the child may ask for, and addresses; allow_private lists them in their plain form. *)
ASSUME ProxyAssumption ==
  /\ \A r \in Requests :
       /\ DOMAIN r = {"form", "method", "path", "text", "headers", "query"}
       /\ r.form \in {"ok", "malformed", "noUrl", "ambiguous", "otherHost", "noMethod"}
       /\ \A f \in Range(r.headers) : DOMAIN f = {"name", "value"} /\ IsSequence(f.value)
       /\ \A f \in Range(r.query) : DOMAIN f = {"name", "text", "value"} /\ IsSequence(f.value)
  /\ \A answer \in Answers : answer \subseteq Address
  /\ \A t \in Targets : t.literal \in Address \cup {None}
  /\ \A n \in DOMAIN ProxyInputs :
       /\ IsSequence(ProxyInputs[n].rules)
       /\ Machine(ProxyInputs[n].world) /\ PrivateKnown(ProxyInputs[n])
       /\ ProxyInputs[n].allowPrivate \subseteq {a \in Address : a.form \in {"v4", "v6"}}
       /\ \A r \in Range(ProxyInputs[n].rules) :
            /\ IsSequence(r.placeholder) /\ IsSequence(ProxyInputs[n].value[r.secret])
            /\ IsSequence(Generated[r.secret]) /\ Generated[r.secret] # <<>> /\ r.secret # None

VARIABLES proxy,              \* the session: its step, plan, child and policy
          conn,               \* every connection
          disk                \* files of the session on disk, with their contents

proxyVars == <<proxy, conn, disk>>

MAX_AUTH_ATTEMPTS == 3

--------------------------------------------------------------------------------
(* Rules, destinations and redactions: the plan. *)

domain_matches(pattern, d) ==
  IF pattern.wild THEN d # <<>> /\ Tail(d) = pattern.host ELSE d = pattern.host

(* An address is [net, form]; an IPv4-mapped one is read as IPv4. *)
Canonical(a) == IF a.form = "mapped" THEN [a EXCEPT !.form = "v4"] ELSE a

(* The IPv4 address inside a NAT64 or 6to4 address. *)
embedded_ipv4(a) == IF a.form = "embedded" THEN [a EXCEPT !.form = "v4"] ELSE a

is_public(a) ==
  LET ip == embedded_ipv4(Canonical(a)) IN ~(ip.form # "embedded" /\ ip.net # "public")

permits(i, a) == is_public(a) \/ Canonical(a) \in i.allowPrivate

(* DestinationPolicy::resolve. *)
Permitted(i, answer) == {a \in answer : permits(i, a)}

PlaceholderOf(rules, s) ==
  LET first == rules[Min({k \in DOMAIN rules : rules[k].secret = s})]
  IN  IF first.placeholder = <<>> THEN Generated[s] ELSE first.placeholder

(* is_valid_domain_pattern, validate_rule, compile_paths: what a rule may look like. *)
validate_config(i) ==
  /\ i.rules # <<>>
  /\ \A r \in Range(i.rules) : r.valid
  /\ i.domainsValid

EnvName(r) == r.env

(* The conditions under which ProxyPlan::new makes a plan. *)
PlanOk(i, values) ==
  LET rs == Range(i.rules)
      secrets == {r.secret : r \in rs}
      ph(s) == PlaceholderOf(i.rules, s)
  IN  /\ \A s \in secrets : values[s] # <<>> /\ ph(s) # values[s]
      /\ \A r \in rs : r.placeholder \in {<<>>, ph(r.secret)}
      /\ \A s, t \in secrets : s # t => ~Occurs(ph(s), ph(t))
      /\ \A q, r \in rs : EnvName(q) = EnvName(r) => q.secret = r.secret
      /\ \A s, t \in secrets : ~Occurs(values[s], ph(t))

(* Mutant of ByLength: redactions in the order of the rules. *)
ByRule(a, b) == FALSE

(* Longer values come first. *)
ByLength(a, b) == Len(a.value) > Len(b.value)

(* One redaction per value; it is lenient when any rule puts the value in a query. *)
Redactions(i, values) ==
  LET rs == Range(i.rules)
      firsts == SelectSeq([k \in DOMAIN i.rules |-> k],
                  LAMBDA k : ~\E j \in 1..k - 1 : values[i.rules[j].secret] = values[i.rules[k].secret])
      redaction(k) ==
        LET s == i.rules[k].secret
        IN  [value |-> values[s], placeholder |-> PlaceholderOf(i.rules, s),
             lenient |-> \E r \in rs : values[r.secret] = values[s] /\ r.target.in = "query"]
  IN  SortSeq([k \in DOMAIN firsts |-> redaction(firsts[k])], ByLength)

ProxyPlan(i, values) ==
  [rules |-> [k \in DOMAIN i.rules |->
                [secret |-> i.rules[k].secret, domain |-> i.rules[k].domain,
                 target |-> i.rules[k].target, methods |-> i.rules[k].methods,
                 paths |-> i.rules[k].paths, value |-> values[i.rules[k].secret],
                 placeholder |-> PlaceholderOf(i.rules, i.rules[k].secret)]],
   redactions |-> Redactions(i, values),
   childEnv |-> [n \in {EnvName(r) : r \in Range(i.rules)} |->
                   LET r == CHOOSE r \in Range(i.rules) : EnvName(r) = n
                   IN  PlaceholderOf(i.rules, r.secret)]]

--------------------------------------------------------------------------------
(* authorize: which placeholders of a request are replaced. *)

route_matches(r, req) ==
  (r.methods = {} \/ req.method \in r.methods) /\ (r.paths = {} \/ req.path \in r.paths)

(* A character of a request as it is passed on; history: the secret that it was put there *)
(* for, and None if the child wrote it.                                                    *)
Marked(s, secret) == [k \in DOMAIN s |-> [c |-> s[k], of |-> secret]]

Chars(text) == [k \in DOMAIN text |-> text[k].c]

Own(req) ==
  LET own(fields) == [k \in DOMAIN fields |-> [fields[k] EXCEPT !.value = Marked(@, None)]]
  IN  [req EXCEPT !.headers = own(@), !.query = own(@)]

(* Where a placeholder may stand: QuerySegments::occurrences counts names of parameters too. *)
Places(req) ==
  {[in |-> "path", k |-> 0]} \cup [in : {"header"}, k : DOMAIN req.headers]
    \cup [in : {"name", "query"}, k : DOMAIN req.query]

TextAt(req, x) ==
  CASE x.in = "path" -> req.text
    [] x.in = "header" -> Chars(req.headers[x.k].value)
    [] x.in = "name" -> req.query[x.k].text
    [] x.in = "query" -> Chars(req.query[x.k].value)

FieldOf(req, x) == IF x.in = "header" THEN req.headers[x.k] ELSE req.query[x.k]

(* p occurs in s twice, without overlaps. *)
Twice(s, p) == \E i, j \in 1..Len(s) : i + Len(p) <= j /\ At(s, i, p) /\ At(s, j, p)

(* Its first occurrence is replaced. *)
Filled(text, r) ==
  LET at == Min({j \in 1..Len(text) : At(Chars(text), j, r.placeholder)})
  IN  SubSeq(text, 1, at - 1) \o Marked(r.value, r.secret)
        \o SubSeq(text, at + Len(r.placeholder), Len(text))

ReplaceIn(req, x, r) ==
  IF x.in = "header" THEN [req EXCEPT !.headers[x.k].value = Filled(@, r)]
  ELSE [req EXCEPT !.query[x.k].value = Filled(@, r)]

(* Mutant of Allows: the route of the rule is not looked at again. *)
AllowsAnyRoute(rs, req, p, x) ==
  \E r \in rs : r.placeholder = p /\ r.target = [in |-> x.in, name |-> FieldOf(req, x).name]

(* A rule of this secret allows it here. *)
Allows(rs, req, p, x) ==
  \E r \in rs : /\ r.placeholder = p
                /\ route_matches(r, req)
                /\ r.target = [in |-> x.in, name |-> FieldOf(req, x).name]

(* The placeholder of a rule: looked at once, refused when it is there more than once, in the *)
(* path or in a name, or where no rule allows it.                                             *)
Inject(rs, acc, r) ==
  LET p == r.placeholder
      found == {x \in Places(acc.req) : Occurs(TextAt(acc.req, x), p)}
      x == CHOOSE y \in found : TRUE
      fits == /\ found = {x} /\ ~Twice(TextAt(acc.req, x), p)
              /\ x.in \in {"header", "query"} /\ Allows(rs, acc.req, p, x)
  IN  IF ~acc.ok \/ p \in acc.checked THEN acc
      ELSE IF found = {} THEN [acc EXCEPT !.checked = @ \cup {p}]
      ELSE IF fits THEN [acc EXCEPT !.req = ReplaceIn(@, x, r), !.checked = @ \cup {p}]
      ELSE [acc EXCEPT !.ok = FALSE]

authorize(plan, domain, req) ==
  LET rs == {r \in Range(plan.rules) : domain_matches(r.domain, domain)}
      upTo[n \in 0..Len(plan.rules)] ==
        IF n = 0
        THEN [ok |-> \E r \in rs : route_matches(r, req), req |-> Own(req), checked |-> {}]
        ELSE IF plan.rules[n] \in rs THEN Inject(rs, upTo[n - 1], plan.rules[n]) ELSE upTo[n - 1]
  IN  upTo[Len(plan.rules)]

--------------------------------------------------------------------------------
(* The session: ProxyRunCommand::run, from its checks to its clean-up. *)

IdleConn == [st |-> "idle", tries |-> 0, target |-> None, sent |-> None, at |-> None,
             got |-> <<>>]

ProxyInit ==
  /\ proxy \in [pc : {"validate"}, in : DOMAIN ProxyInputs, world : {None}, policy : {None},
                requested : {{}}, plan : {None}, env : {<<>>}, child : {"none"}]
  /\ conn = [c \in Conns |-> IdleConn]
  /\ disk = [own |-> {}, at |-> <<>>, written |-> {}]

(* The session does not run: the state of a program that does something else. *)
ProxyIdle ==
  /\ proxy = [pc |-> "off"]
  /\ conn = [c \in Conns |-> IdleConn]
  /\ disk = [own |-> {}, at |-> <<>>, written |-> {}]

in == ProxyInputs[proxy.in]

(* Every error of run drops what was made so far. *)
Fail ==
  /\ proxy' = [proxy EXCEPT !.pc = "ended"]
  /\ disk' = [disk EXCEPT !.own = {}]
  /\ UNCHANGED conn

(* The checks, and Sandbox::prepare with its own error when bwrap cannot run. *)
Prepare ==
  /\ proxy.pc = "validate"
  /\ \/ /\ ~validate_config(in) \/ (in.sandbox /\ ~in.world.literalKeys)
        /\ Fail
     \/ in.sandbox /\ Fail
     \/ /\ validate_config(in)
        /\ in.sandbox => in.world.literalKeys
        /\ proxy' = [proxy EXCEPT !.pc = "resolve", !.world = in.world,
                                  !.policy = IF in.sandbox THEN build(in.world) ELSE None]
        /\ disk' = [disk EXCEPT !.own = IF in.sandbox /\ in.world.linux THEN {"sockdir"} ELSE {}]
        /\ UNCHANGED conn

(* The secrets of the rules with every secret a provider of theirs depends on. *)
collect_requested_secrets(i) ==
  LET more[n \in 0..Cardinality(i.secrets)] ==
        IF n = 0 THEN {r.secret : r \in Range(i.rules)}
        ELSE more[n - 1] \cup (UNION {i.deps[s] : s \in more[n - 1]} \cap i.secrets)
  IN  more[Cardinality(i.secrets)]

(* The batch resolves every requested secret or fails: a rule needs its value. *)
ResolveRules ==
  /\ proxy.pc = "resolve"
  /\ LET requested == collect_requested_secrets(in)
     IN  \/ Fail
         \/ /\ \A r \in Range(in.rules) : r.secret \in in.secrets
            /\ proxy' = [proxy EXCEPT !.pc = "plan", !.requested = requested]
            /\ UNCHANGED <<conn, disk>>

MakePlan ==
  /\ proxy.pc = "plan"
  /\ IF PlanOk(in, in.value)
     THEN /\ proxy' = [proxy EXCEPT !.pc = "listen", !.plan = ProxyPlan(in, in.value)]
          /\ UNCHANGED <<conn, disk>>
     ELSE Fail

(* RunningProxy::start: the CA file, then the socket or the port. *)
Listen ==
  /\ proxy.pc = "listen"
  /\ \/ Fail
     \/ /\ proxy' = [proxy EXCEPT !.pc = "spawn"]
        /\ disk' = [disk EXCEPT !.own = @ \cup {"ca"} \cup
                      (IF in.sandbox /\ in.world.linux THEN {"socket"} ELSE {})]
        /\ UNCHANGED conn

(* What is taken out of the environment before the placeholders go in. *)
RemovedVars(i) ==
  i.secrets \cup i.ambient \cup UNION {i.deps[s] : s \in DOMAIN i.deps}
    \cup (IF i.sandbox THEN i.unset ELSE {})

(* The child's environment: the proxy's own settings before the placeholders, and *)
(* these before what the parent has in variables that are not removed.            *)
ProxyEnv(i, plan) ==
  LET kept == DOMAIN i.env \ RemovedVars(i)
  IN  [v \in i.settings \cup DOMAIN plan.childEnv \cup kept |->
         IF v \in i.settings THEN ProxyUrl
         ELSE IF v \in DOMAIN plan.childEnv THEN plan.childEnv[v] ELSE i.env[v]]

(* The child starts, in the sandbox if there is one; bwrap makes its mount points. *)
Spawn ==
  /\ proxy.pc = "spawn"
  /\ LET mounts == IF in.sandbox /\ in.world.linux
                   THEN pending_mount_points(proxy.world, proxy.policy) ELSE {}
     IN  \/ /\ proxy' = [proxy EXCEPT !.pc = "run", !.child = "running",
                                      !.env = ProxyEnv(in, proxy.plan)]
            /\ disk' = [disk EXCEPT !.at = [p \in mounts |-> "empty"]]
         \/ /\ proxy' = [proxy EXCEPT !.pc = "cleanup"]
            /\ UNCHANGED disk
  /\ UNCHANGED conn

(* Another program makes a file, between the checks of the policy and the mounts. *)
OtherCreates ==
  /\ proxy.pc \in {"resolve", "plan", "listen", "spawn"} /\ in.sandbox
  /\ \E p \in in.world.later \ proxy.world.plain :
       proxy' = [proxy EXCEPT !.world.plain = @ \cup {p}]
  /\ UNCHANGED <<conn, disk>>

(* Another program writes into a mount point while the child runs. *)
OtherWrites ==
  /\ proxy.pc = "run"
  /\ \E p \in DOMAIN disk.at \ disk.written :
       disk' = [disk EXCEPT !.at[p] = "user", !.written = @ \cup {p}]
  /\ UNCHANGED <<proxy, conn>>

(* The child ends, or run_until_interrupted stops it on a signal. *)
ChildEnds ==
  /\ proxy.pc = "run"
  /\ proxy' = [proxy EXCEPT !.pc = "cleanup", !.child = "stopped"]
  /\ UNCHANGED <<conn, disk>>

(* Without a sandbox nothing handles a signal, and SIGKILL cannot be handled: fnox *)
(* ends as it is.  Only bwrap is told to die with its parent. *)
KillProxy ==
  /\ proxy.pc \in {"listen", "spawn", "run", "cleanup"}
  /\ proxy' = [proxy EXCEPT !.pc = "killed",
                 !.child = IF @ = "running" /\ in.sandbox /\ in.world.linux THEN "stopped" ELSE @]
  /\ UNCHANGED <<conn, disk>>

(* Mutant of remove_mount_points: whatever is there goes. *)
RemoveAllMountPoints(at) == <<>>

(* Only regular files that are still empty are removed. *)
remove_mount_points(at) ==
  [p \in {q \in DOMAIN at : at[q] # "empty"} |-> at[p]]

(* The order after the child: mount points, the listener, the CA file, the sandbox. *)
Cleanup ==
  /\ proxy.pc = "cleanup"
  /\ proxy' = [proxy EXCEPT !.pc = "ended"]
  /\ disk' = [disk EXCEPT !.own = {}, !.at = remove_mount_points(disk.at)]
  /\ UNCHANGED conn

--------------------------------------------------------------------------------
(* handle_connection and proxy_http_request. *)

To(c, st) == conn' = [conn EXCEPT ![c].st = st]

(* The head of a request to the proxy, with credentials or without. *)
ReadHead(c) ==
  /\ conn[c].st = "idle"
  /\ \/ \* the session's token, which ends the loop of challenges
        \E t \in Targets :
          \/ conn' = [conn EXCEPT ![c].st = "connect", ![c].target = t]
          \/ To(c, "refused")       \* not a CONNECT: 400
     \/ To(c, "refused")            \* other credentials: 407
     \/ IF conn[c].tries + 1 >= MAX_AUTH_ATTEMPTS  \* none: 407, three times
        THEN To(c, "refused")
        ELSE conn' = [conn EXCEPT ![c].tries = @ + 1]
     \/ To(c, "closed")                            \* the client closes

(* Looking up a literal address gives that address. *)
Lookup(t) == IF t.literal = None THEN Answers ELSE {{t.literal}}

has_domain(plan, d) == \E r \in Range(plan.rules) : domain_matches(r.domain, d)

allows_tunnel(i, d) ==
  i.permissive \/ \E p \in i.allowDomains : domain_matches(p, d)

(* A domain without a rule: a tunnel to one of the permitted addresses, or nothing. *)
Tunnel(c) ==
  /\ conn[c].st = "connect" /\ conn[c].target.ok
  /\ ~has_domain(proxy.plan, conn[c].target.domain)
  /\ IF ~allows_tunnel(in, conn[c].target.domain) THEN To(c, "refused")
     ELSE \E answer \in Lookup(conn[c].target) :
            LET addresses == Permitted(in, answer)
            IN  IF answer = {} THEN To(c, "failed")
                ELSE IF addresses = {} THEN To(c, "refused")
                ELSE \/ \E a \in addresses : conn' = [conn EXCEPT ![c].st = "tunnel", ![c].at = a]
                     \/ To(c, "failed")

(* parse_connect_target fails: the connection just ends. *)
BadTarget(c) ==
  conn[c].st = "connect" /\ ~conn[c].target.ok /\ To(c, "closed")

(* A domain with a rule: the address is checked before the child's TLS is answered. *)
Intercept(c) ==
  /\ conn[c].st = "connect" /\ conn[c].target.ok
  /\ has_domain(proxy.plan, conn[c].target.domain)
  /\ IF conn[c].target.port # 443 THEN To(c, "refused")
     ELSE \E answer \in Lookup(conn[c].target) :
            IF answer = {} THEN To(c, "failed")
            ELSE IF Permitted(in, answer) = {} THEN To(c, "refused")
            ELSE To(c, "request") \/ To(c, "closed")

(* DestinationResolver: the client's own lookup is checked again. *)
UpstreamAddresses(i, t, answer) == IF t.literal = None THEN Permitted(i, answer) ELSE answer

(* Headers that are not passed on. *)
is_hop_by_hop_header(name) ==
  name \in {"connection", "keep-alive", "proxy-authenticate", "proxy-authorization",
            "proxy-connection", "te", "trailer", "transfer-encoding", "upgrade", "host",
            "content-length"}

(* Nor is the child's accept-encoding: fnox asks for an answer that is not encoded. *)
PassedOn(headers) ==
  [k \in {j \in DOMAIN headers : /\ ~is_hop_by_hop_header(headers[j].name)
                                 /\ headers[j].name # "accept-encoding"} |-> headers[k]]

(* One request inside the TLS connection. *)
Request(c) ==
  /\ conn[c].st = "request"
  /\ \E req \in Requests :
       LET auth == authorize(proxy.plan, conn[c].target.domain, req)
           out == [auth.req EXCEPT !.headers = PassedOn(@)]
       IN  CASE req.form \in {"malformed", "noUrl"} -> To(c, "failed")
             [] req.form \in {"ambiguous", "otherHost"} -> To(c, "refused")
             [] req.form \in {"ok", "noMethod"} /\ ~auth.ok -> To(c, "refused")
             [] req.form = "noMethod" /\ auth.ok -> To(c, "failed")
             [] req.form = "ok" /\ auth.ok ->
                  \E answer \in Lookup(conn[c].target) :
                    LET addresses == UpstreamAddresses(in, conn[c].target, answer)
                    IN  IF addresses = {} THEN To(c, "failed")
                        ELSE \E a \in addresses :
                               conn' = [conn EXCEPT ![c].st = "upstream", ![c].at = a,
                                          ![c].sent = out]

(* The text a server may send back: what it got, as it was or encoded. *)
Echo(req, esc) ==
  LET text(fields) == FoldLeft(LAMBDA s, k : s \o Chars(fields[k].value), <<>>,
                               SetToSortSeq(DOMAIN fields, <))
      s == text(req.headers) \o text(req.query)
  IN  [k \in DOMAIN s |-> [c |-> s[k], esc |-> esc]]

(* The response: failed, encoded or too large, or redacted and passed on. *)
Respond(c) ==
  /\ conn[c].st = "upstream"
  /\ \/ To(c, "failed")
     \/ \E esc \in BOOLEAN :
          conn' = [conn EXCEPT ![c].st = "answered",
                     ![c].got = redact_bytes(proxy.plan.redactions, Echo(conn[c].sent, esc))]

Serve(c) ==
  /\ proxy.pc = "run"
  /\ ReadHead(c) \/ BadTarget(c) \/ Tunnel(c) \/ Intercept(c) \/ Request(c) \/ Respond(c)
  /\ UNCHANGED <<proxy, disk>>

ProxyNext ==
  \/ Prepare \/ ResolveRules \/ MakePlan \/ Listen \/ Spawn \/ ChildEnds \/ KillProxy \/ Cleanup
  \/ OtherCreates \/ OtherWrites
  \/ \E c \in Conns : Serve(c)

--------------------------------------------------------------------------------
(* Properties. *)

On == proxy.pc # "off"

(* A real value leaves fnox only for a domain, a route and a place that some rule of *)
(* that secret allows, in one place of the request, and only over port 443, whatever *)
(* the child put into its request, whatever other rules the domain has and whatever  *)
(* one value makes of the text around it (authorize).                                *)
Authorised(plan, req, to) ==
  LET fields == {x \in Places(req) : x.in \in {"header", "query"}}
      secrets(x) == {FieldOf(req, x).value[j].of : j \in DOMAIN FieldOf(req, x).value} \ {None}
  IN  \A x \in fields : \A s \in secrets(x) :
        /\ \E r \in Range(plan.rules) :
             /\ r.secret = s /\ domain_matches(r.domain, to.domain) /\ route_matches(r, req)
             /\ r.target = [in |-> x.in, name |-> FieldOf(req, x).name]
        /\ \A y \in fields : s \in secrets(y) => y = x
        /\ to.port = 443

SentAuthorised ==
  On => \A c \in Conns :
    conn[c].sent # None => Authorised(proxy.plan, conn[c].sent, conn[c].target)

(* Every connection that the proxy makes goes to a public address, or to one that    *)
(* allow_private names, although the DNS may answer differently each time it is      *)
(* asked and addresses hide others in them (DestinationPolicy, DestinationResolver). *)
ConnectedPermitted ==
  On => \A c \in Conns : conn[c].at # None =>
    \/ conn[c].at.net = "public"
    \/ \E a \in in.allowPrivate : a.net = conn[c].at.net /\ conn[c].at.form \in {"v4", "v6", "mapped"}

(* A response never shows the child a value that was put into its request, nor a part *)
(* of one that is left when another value is found inside it; what a query may hold    *)
(* is not shown encoded either (redact_bytes), if the characters of values are nowhere *)
(* in the child's own text and no value is a part of two others side by side.          *)
NothingEchoed ==
  On => \A c \in Conns : conn[c].st = "answered" =>
    \A r \in Range(proxy.plan.rules), k \in DOMAIN conn[c].got :
      /\ ~conn[c].got[k].esc => conn[c].got[k].c \notin Range(r.value)
      /\ r.target.in = "query" => ~match_lenient(r.value, conn[c].got, k)

(* The child's environment holds no value of a secret of the profile and none of the *)
(* credentials fnox itself uses, though the parent's environment may hold them all.  *)
ChildBlind ==
  On => (proxy.child # "none" =>
    \A v \in DOMAIN proxy.env : \A w \in in.private : ~Occurs(proxy.env[v], w))

(* A directory that /tmp or /run already hides gets no mount of its own: what is hidden *)
(* there and what may be written must be apart.  On macOS the directories for temporary *)
(* files are writable: what holds credentials there must be hidden or in a directory of *)
(* the policy.                                                                          *)
Separate(w) ==
  LET pol == build(w)
  IN  IF w.linux
      THEN \A h \in pol.hide : hidden_by_tmpfs(pol, h) =>
             \A b \in pol.writable \cup pol.readOnly : ~Under(b, h)
      ELSE \A q \in from_environment(w) : LET p == canonicalize_lossy(w, q) IN
             UnderAny(p, MacTemp) => UnderAny(p, pol.writable \cup pol.hide)

(* In the sandbox nothing that holds credentials and was there at the start can be   *)
(* read, and nothing of the kind can be made or changed by the child, not even what  *)
(* sandbox_allow_read shows it (SandboxPolicy::build, bwrap_args, seatbelt_profile). *)
(* Nothing can be made below what is no directory and cannot be made one.            *)
SandboxHolds ==
  On /\ proxy.child = "running" /\ in.sandbox /\ Separate(in.world) =>
    LET w == in.world
        shown == {expand(w, e) : e \in w.allowRead}
        view(p) == View(proxy.world, proxy.policy, p)
    IN  \A p \in {canonicalize_lossy(w, q) : q \in from_environment(w)} :
          /\ view(p) = "rw" => \E n \in 0..Len(p) - 1 : SubSeq(p, 1, n) \notin w.dirs /\ view(SubSeq(p, 1, n)) # "rw"
          /\ Exists(w, p) /\ ~UnderAny(p, shown) => view(p) \in {"null", "tmpfs"}

(* When fnox ends by itself, also after a failure or a signal, nothing of the session *)
(* is left on disk, and what others wrote into a mount point is still there.          *)
ProxyCleaned ==
  On /\ proxy.pc = "ended" => disk.own = {} /\ DOMAIN disk.at = disk.written

\* The proxy sends a value only where a rule allows it, and connects only where it may.
ProxySound == SentAuthorised /\ ConnectedPermitted

\* The child of the proxy finds no credential in its environment and in no file.
BlindChild == ChildBlind /\ SandboxHolds
================================================================================
