--------------------------- MODULE MCAppServerConfig ---------------------------
(* Instances of AppServerConfig for model checking.                            *)
EXTENDS AppServerConfig

Provider(t, s, k) == [type |-> t, secret |-> s, key |-> k, project |-> TRUE]
Plain ==
    [providers |-> <<Provider("openai", "s1", "")>>, tls |-> "",
     gate |-> TRUE, mcp |-> <<>>, introspection |-> TRUE, byokOnly |-> FALSE,
     feedback |-> FALSE, transcripts |-> FALSE, rag |-> <<>>, pullSecrets |-> <<>>,
     prompt |-> FALSE, proxy |-> [name |-> "", key |-> ""], userCA |-> "none", pod |-> 0]

Token == [apitoken |-> "text"]
Cluster ==
    [secret |-> [s1 |-> Token, s2 |-> Token], cmap |-> [c1 |-> [x |-> "good"]], pull |-> "off"]

\* Every kind of provider with every kind of Secret.
ProviderSpecs ==
    {[Plain EXCEPT !.providers = <<Provider(t, "s1", k)>>] :
        t \in {"openai", "azure", "vertex", "bedrock"}, k \in {"", "own_key"}}
    \cup {[Plain EXCEPT !.providers = <<[Provider("vertex", "s1", "") EXCEPT !.project = FALSE]>>]}
SecretClusters ==
    {[Cluster EXCEPT !.secret = s] :
        s \in {[s1 |-> d] : d \in
                  {Token, [own_key |-> "text"], [access_key |-> "text"],
                   [client_id |-> "text", tenant_id |-> "text", client_secret |-> "text"],
                   [access_key |-> "text", secret_key |-> "text"],
                   [access_key |-> "blank", secret_key |-> "text", apitoken |-> "text"],
                   [apitoken |-> "blank", access_key |-> "blank"]}}
              \cup {[s2 |-> Token]}}

\* Two providers, MCP servers and the TLS configuration over few Secrets.
Header(t, s) == [type |-> t, secret |-> s]
SharingSpecs ==
    {[Plain EXCEPT !.providers = <<Provider("openai", "s1", ""), Provider("openai", p, "")>>,
                   !.mcp = m, !.gate = g, !.tls = t] :
        p \in {"s1", "s2", "tls"}, g \in BOOLEAN, t \in {"", "s2"},
        m \in {<< >>, << <<Header("secret", "s1")>> >>,
               << <<Header("client", ""), Header("secret", "s1")>>, <<Header("secret", "s2")>> >>,
               << <<Header("secret", "s1"), Header("secret", "s1")>> >>}}
SharingClusters ==
    {[Cluster EXCEPT !.secret = [s1 |-> Token, s2 |-> d, tls |-> Token]] :
        d \in {Token, ("apitoken" :> "text") @@ ("tls.crt" :> "text"),
               ("apitoken" :> "text") @@ ("tls.crt" :> "text") @@ ("tls.key" :> "text")}}

\* The proxy's and the user's certificates.
CASpecs ==
    {[Plain EXCEPT !.proxy = p, !.userCA = u, !.introspection = (u = "c1")] :
        p \in {[name |-> "", key |-> "y"], [name |-> "c1", key |-> ""], [name |-> "c1", key |-> "y"]},
        u \in {"none", "c1"}}
    \cup {[Plain EXCEPT !.userCA = ""]}
CAClusters ==
    {[Cluster EXCEPT !.cmap = c] :
        c \in {[c0 |-> [x |-> "good"]], [c1 |-> "proxy-ca.crt" :> "good"],
               [c1 |-> ("proxy-ca.crt" :> "good") @@ ("y" :> "good")],
               [c1 |-> ("proxy-ca.crt" :> "new") @@ ("y" :> "good")],
               [c1 |-> [y |-> "bad"]], [c1 |-> [y |-> "good"]]}}

\* Data collection, RAG and the rest of the pod.
CollectSpecs ==
    {[Plain EXCEPT !.feedback = f, !.transcripts = t, !.prompt = f, !.byokOnly = t, !.pod = 1] :
        f \in BOOLEAN, t \in BOOLEAN}
    \cup {[Plain EXCEPT !.rag = <<"a">>, !.feedback = TRUE, !.pullSecrets = s] :
             s \in {<<>>, <<"p">>}}
CollectClusters == {[Cluster EXCEPT !.pull = p] : p \in {"none", "off", "on", "broken"}}

MCCases == {"providers", "sharing", "certificates", "collector"}
MCSpecs ==
    [providers |-> ProviderSpecs, sharing |-> SharingSpecs,
     certificates |-> CASpecs, collector |-> CollectSpecs]
MCClusters ==
    [providers |-> SecretClusters, sharing |-> SharingClusters,
     certificates |-> CAClusters, collector |-> CollectClusters]
MCMaxEvents == [providers |-> 2, sharing |-> 1, certificates |-> 2, collector |-> 2]
=============================================================================
