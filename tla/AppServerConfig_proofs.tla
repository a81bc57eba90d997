----------------------- MODULE AppServerConfig_proofs -----------------------
(***************************************************************************)
(* Proofs about AppServerConfig, for every CR and every cluster: the type  *)
(* invariant, and that the API server takes the Deployment of a CR whose   *)
(* Secrets are distinct.                                                   *)
(***************************************************************************)
EXTENDS AppServerConfig, TLAPS

----------------------------------------------------------------------------
(* Lists of volumes with names and paths of their own.                     *)

NamesOf(q) == {q[i].name : i \in DOMAIN q}
PathsOf(q) == {q[i].path : i \in DOMAIN q}

Apart(q) ==
    \A i, j \in DOMAIN q : i # j => q[i].name # q[j].name /\ q[i].path # q[j].path

\* A list of volumes that have no name and no path in common, with names in N and
\* paths in P.
Part(q, N, P) ==
    /\ q \in Seq(ToSet(q))
    /\ Apart(q) /\ NamesOf(q) \subseteq N /\ PathsOf(q) \subseteq P

LEMMA NoPart ==
    ASSUME NEW N, NEW P
    PROVE  Part(<<>>, N, P)
BY DEF Part, Apart, NamesOf, PathsOf, ToSet

LEMMA OnePart ==
    ASSUME NEW v
    PROVE  Part(<<v>>, {v.name}, {v.path})
BY DEF Part, Apart, NamesOf, PathsOf, ToSet

LEMMA PartIf ==
    ASSUME NEW b, NEW q, NEW N, NEW P, Part(q, N, P)
    PROVE  Part(SeqIf(b, q), N, P)
BY NoPart DEF SeqIf

\* Lists that share nothing can be joined.
LEMMA JoinParts ==
    ASSUME NEW a, NEW b, NEW N, NEW P, NEW M, NEW Q, Part(a, N, P), Part(b, M, Q),
           N \cap M = {}, P \cap Q = {}
    PROVE  Part(a \o b, N \cup M, P \cup Q)
<1> DEFINE S == ToSet(a) \cup ToSet(b)
           q == a \o b
<1>1. a \in Seq(S) /\ b \in Seq(S)
  BY DEF Part
<1> HIDE DEF S
<1>2. q \in Seq(S) /\ Len(q) = Len(a) + Len(b) /\ Len(a) \in Nat /\ Len(b) \in Nat
  BY <1>1
<1>3. DOMAIN a = 1..Len(a) /\ DOMAIN b = 1..Len(b) /\ DOMAIN q = 1..(Len(a) + Len(b))
  BY <1>1, <1>2
<1>4. \A i \in DOMAIN q : \/ i \in DOMAIN a /\ q[i] = a[i]
                          \/ i - Len(a) \in DOMAIN b /\ q[i] = b[i - Len(a)]
  BY <1>1, <1>2, <1>3
<1> HIDE DEF q
<1>5. q \in Seq(ToSet(q))
  <2>1. \A i \in 1..Len(q) : q[i] \in ToSet(q)
    BY <1>2, <1>3 DEF ToSet
  <2> QED
    BY <1>2, <2>1
<1>6. /\ \A i \in DOMAIN a : a[i].name \in N /\ a[i].path \in P
      /\ \A i \in DOMAIN b : b[i].name \in M /\ b[i].path \in Q
  BY DEF Part, NamesOf, PathsOf
<1>7. NamesOf(q) \subseteq N \cup M /\ PathsOf(q) \subseteq P \cup Q
  BY <1>4, <1>6 DEF NamesOf, PathsOf
<1>8. Apart(q)
  <2> SUFFICES ASSUME NEW i \in DOMAIN q, NEW j \in DOMAIN q, i # j
               PROVE  q[i].name # q[j].name /\ q[i].path # q[j].path
    BY DEF Apart
  <2>1. CASE i \in DOMAIN a /\ q[i] = a[i] /\ j \in DOMAIN a /\ q[j] = a[j]
    BY <2>1 DEF Part, Apart
  <2>2. CASE /\ i - Len(a) \in DOMAIN b /\ q[i] = b[i - Len(a)]
             /\ j - Len(a) \in DOMAIN b /\ q[j] = b[j - Len(a)]
    <3>1. i - Len(a) # j - Len(a)
      BY <1>2, <1>3
    <3> QED
      BY <2>2, <3>1 DEF Part, Apart
  <2>3. CASE /\ i \in DOMAIN a /\ q[i] = a[i]
             /\ j - Len(a) \in DOMAIN b /\ q[j] = b[j - Len(a)]
    BY <1>6, <2>3
  <2>4. CASE /\ j \in DOMAIN a /\ q[j] = a[j]
             /\ i - Len(a) \in DOMAIN b /\ q[i] = b[i - Len(a)]
    BY <1>6, <2>4
  <2> QED
    BY <1>4, <2>1, <2>2, <2>3, <2>4
<1> QED
  BY <1>5, <1>7, <1>8 DEF Part, q

\* The volumes of Secrets whose names are distinct.
LEMMA SecretParts ==
    ASSUME NEW secrets \in Seq(STRING), IsInjective(secrets), NEW prefix, NEW root
    PROVE  Part(SecretVolumes(prefix, root, secrets),
                {<<prefix, s>> : s \in ToSet(secrets)}, {<<root, s>> : s \in ToSet(secrets)})
<1> DEFINE q == SecretVolumes(prefix, root, secrets)
<1>1. DOMAIN secrets = 1..Len(secrets) /\ Len(secrets) \in Nat
  OBVIOUS
<1>2. /\ q = [i \in 1..Len(secrets) |->
                 Volume(<<prefix, secrets[i]>>, <<root, secrets[i]>>, "secret", secrets[i], {})]
      /\ DOMAIN q = DOMAIN secrets
  BY <1>1 DEF SecretVolumes
<1>3. \A i \in DOMAIN secrets : /\ q[i].name = <<prefix, secrets[i]>>
                                /\ q[i].path = <<root, secrets[i]>>
  BY <1>1, <1>2 DEF Volume
<1> HIDE DEF q
<1>4. q \in Seq(ToSet(q))
  <2>1. \A i \in 1..Len(secrets) : q[i] \in ToSet(q)
    BY <1>1, <1>2 DEF ToSet
  <2>2. q \in [1..Len(secrets) -> ToSet(q)]
    BY <1>2, <2>1
  <2> QED
    BY <1>1, <2>2
<1>5. Apart(q)
  <2>1. \A i, j \in DOMAIN secrets : secrets[i] = secrets[j] => i = j
    BY DEF IsInjective
  <2>2. \A r, s, t : <<r, s>> = <<r, t>> => s = t
    OBVIOUS
  <2> SUFFICES ASSUME NEW i \in DOMAIN secrets, NEW j \in DOMAIN secrets, i # j
               PROVE  q[i].name # q[j].name /\ q[i].path # q[j].path
    <3>1. DOMAIN q = DOMAIN secrets
      BY <1>2
    <3> QED
      BY <3>1, Zenon DEF Apart
  <2>3. secrets[i] # secrets[j]
    BY <2>1
  <2> QED
    BY <1>3, <2>2, <2>3, Zenon
<1>6. /\ NamesOf(q) \subseteq {<<prefix, s>> : s \in ToSet(secrets)}
      /\ PathsOf(q) \subseteq {<<root, s>> : s \in ToSet(secrets)}
  <2>1. \A i \in DOMAIN q : secrets[i] \in ToSet(secrets)
    BY <1>2 DEF ToSet
  <2>2. ASSUME NEW i \in DOMAIN q
        PROVE  /\ q[i].name \in {<<prefix, s>> : s \in ToSet(secrets)}
               /\ q[i].path \in {<<root, s>> : s \in ToSet(secrets)}
    BY <1>2, <1>3, <2>1, <2>2, Zenon
  <2> QED
    BY <2>2, Zenon DEF NamesOf, PathsOf
<1> QED
  BY <1>4, <1>5, <1>6 DEF Part, q

----------------------------------------------------------------------------
(* The volumes of the Deployment.                                          *)

\* The parts of the list, in order.
Own(spec) ==
    <<Volume(<<"secret", "postgres">>, <<"credentials">>, "own", "postgres", {"password"}),
      IF spec.tls # ""
      THEN Volume(<<"secret", "tls">>, <<"certs", "tls">>, "secret", spec.tls, {})
      ELSE Volume(<<"secret", "tls">>, <<"certs", "tls">>, "own", "tls",
                  {"tls.crt", "tls.key"}),
      Volume(<<"config">>, <<"ols">>, "olsconfig", "olsconfig", {}),
      Volume(<<"bundle">>, <<"certs", "bundle">>, "empty", "", {}),
      Volume(<<"tmp">>, <<"tmp">>, "empty", "", {})>>

OwnNames == {<<"secret", "postgres">>, <<"secret", "tls">>, <<"config">>, <<"bundle">>, <<"tmp">>}
OwnPaths == {<<"credentials">>, <<"certs", "tls">>, <<"ols">>, <<"certs", "bundle">>, <<"tmp">>}

\* Names and paths of different lengths, or with different parts, are different.
LEMMA Different ==
    /\ \A a, b, c, d : <<a, b>> = <<c, d>> => a = c /\ b = d
    /\ \A a, b : <<a>> = <<b>> => a = b
    /\ \A a, b, c : <<a>> # <<b, c>>
OBVIOUS

LEMMA OwnPart ==
    ASSUME NEW spec
    PROVE  Part(Own(spec), OwnNames, OwnPaths)
<1> DEFINE q == Own(spec)
           t == IF spec.tls # ""
                THEN Volume(<<"secret", "tls">>, <<"certs", "tls">>, "secret", spec.tls, {})
                ELSE Volume(<<"secret", "tls">>, <<"certs", "tls">>, "own", "tls",
                            {"tls.crt", "tls.key"})
           v1 == Volume(<<"secret", "postgres">>, <<"credentials">>, "own", "postgres",
                        {"password"})
           v3 == Volume(<<"config">>, <<"ols">>, "olsconfig", "olsconfig", {})
           v4 == Volume(<<"bundle">>, <<"certs", "bundle">>, "empty", "", {})
           v5 == Volume(<<"tmp">>, <<"tmp">>, "empty", "", {})
<1>1. t.name = <<"secret", "tls">> /\ t.path = <<"certs", "tls">>
  BY DEF Volume
<1>2. /\ v1.name = <<"secret", "postgres">> /\ v1.path = <<"credentials">>
      /\ v3.name = <<"config">> /\ v3.path = <<"ols">>
      /\ v4.name = <<"bundle">> /\ v4.path = <<"certs", "bundle">>
      /\ v5.name = <<"tmp">> /\ v5.path = <<"tmp">>
  BY DEF Volume
<1>3. q = <<v1, t, v3, v4, v5>>
  BY DEF Own
<1> HIDE DEF q, t, v1, v3, v4, v5
<1>4. /\ DOMAIN q = 1..5 /\ q \in Seq({v1, t, v3, v4, v5})
      /\ q[1] = v1 /\ q[2] = t /\ q[3] = v3 /\ q[4] = v4 /\ q[5] = v5
  BY <1>3
<1>5. q \in Seq(ToSet(q))
  <2>1. {v1, t, v3, v4, v5} \subseteq ToSet(q)
    BY <1>4 DEF ToSet
  <2> QED
    BY <1>4, <2>1
<1>6. \A i \in DOMAIN q : i \in {1, 2, 3, 4, 5}
  BY <1>4
<1>7. \A i \in DOMAIN q : q[i].name \in OwnNames /\ q[i].path \in OwnPaths
  BY <1>1, <1>2, <1>4, <1>6, Zenon DEF OwnNames, OwnPaths
<1>8. NamesOf(q) \subseteq OwnNames /\ PathsOf(q) \subseteq OwnPaths
  BY <1>7, Zenon DEF NamesOf, PathsOf
<1>9. Apart(q)
  BY <1>1, <1>2, <1>4, <1>6, Different DEF Apart
<1> QED
  BY <1>5, <1>8, <1>9 DEF Part, q

\* The certificates, each in a directory of its own.
CertDirs == {"root", "postgres", "otel", "mcp", "rhokp", "user", "proxy"}
DirNames(D) == {<<d>> : d \in D}
DirPaths(D) == {<<"certs", d>> : d \in D}

LEMMA AddCert ==
    ASSUME NEW q, NEW r, NEW N, NEW P, NEW D \in SUBSET CertDirs, NEW d \in CertDirs \ D,
           \A c \in CertDirs : <<c>> \notin N /\ <<"certs", c>> \notin P,
           Part(q, N \cup DirNames(D), P \cup DirPaths(D)),
           Part(r, {<<d>>}, {<<"certs", d>>})
    PROVE  Part(q \o r, N \cup DirNames(D \cup {d}), P \cup DirPaths(D \cup {d}))
<1>1. <<d>> \notin DirNames(D) /\ <<"certs", d>> \notin DirPaths(D)
  <2>1. \A c \in D : <<d>> # <<c>> /\ <<"certs", d>> # <<"certs", c>>
    BY Different
  <2> QED
    BY <2>1, Zenon DEF DirNames, DirPaths
<1>2. /\ (N \cup DirNames(D)) \cap {<<d>>} = {}
      /\ (P \cup DirPaths(D)) \cap {<<"certs", d>>} = {}
  BY <1>1
<1>3. Part(q \o r, (N \cup DirNames(D)) \cup {<<d>>}, (P \cup DirPaths(D)) \cup {<<"certs", d>>})
  BY <1>2, JoinParts
<1>4. /\ (N \cup DirNames(D)) \cup {<<d>>} = N \cup DirNames(D \cup {d})
      /\ (P \cup DirPaths(D)) \cup {<<"certs", d>>} = P \cup DirPaths(D \cup {d})
  BY Zenon DEF DirNames, DirPaths
<1> QED
  BY <1>3, <1>4, Zenon

LEMMA CertPart ==
    ASSUME NEW d, NEW kind, NEW source, NEW keys
    PROVE  Part(<<Volume(<<d>>, <<"certs", d>>, kind, source, keys)>>, {<<d>>}, {<<"certs", d>>})
<1> DEFINE v == Volume(<<d>>, <<"certs", d>>, kind, source, keys)
<1>1. v.name = <<d>> /\ v.path = <<"certs", d>>
  BY DEF Volume
<1> HIDE DEF v
<1>2. Part(<<v>>, {v.name}, {v.path})
  BY OnePart
<1>3. Part(<<v>>, {<<d>>}, {<<"certs", d>>})
  BY <1>1, <1>2, Zenon
<1> QED
  BY <1>3 DEF v

\* A volume in the root directory, which is named like its path.
LEMMA PlainPart ==
    ASSUME NEW d, NEW kind, NEW source, NEW keys
    PROVE  Part(<<Volume(<<d>>, <<d>>, kind, source, keys)>>, {<<d>>}, {<<d>>})
<1> DEFINE v == Volume(<<d>>, <<d>>, kind, source, keys)
<1>1. v.name = <<d>> /\ v.path = <<d>>
  BY DEF Volume
<1> HIDE DEF v
<1>2. Part(<<v>>, {v.name}, {v.path})
  BY OnePart
<1>3. Part(<<v>>, {<<d>>}, {<<d>>})
  BY <1>1, <1>2, Zenon
<1> QED
  BY <1>3 DEF v

Collector == <<Volume(<<"user-data">>, <<"user-data">>, "empty", "", {}),
               Volume(<<"exporter">>, <<"exporter">>, "exporter", "exporter", {})>>

LEMMA CollectorPart ==
    Part(Collector, {<<"user-data">>, <<"exporter">>}, {<<"user-data">>, <<"exporter">>})
<1> DEFINE q == Collector
           v == Volume(<<"user-data">>, <<"user-data">>, "empty", "", {})
           w == Volume(<<"exporter">>, <<"exporter">>, "exporter", "exporter", {})
           X == {<<"user-data">>, <<"exporter">>}
<1>1. /\ v.name = <<"user-data">> /\ v.path = <<"user-data">>
      /\ w.name = <<"exporter">> /\ w.path = <<"exporter">>
  BY DEF Volume
<1>2. q = <<v, w>>
  BY Zenon DEF Collector
<1> HIDE DEF q, v, w
<1>3. DOMAIN q = 1..2 /\ q \in Seq({v, w}) /\ q[1] = v /\ q[2] = w
  BY <1>2
<1>4. q \in Seq(ToSet(q))
  <2>1. {v, w} \subseteq ToSet(q)
    BY <1>3 DEF ToSet
  <2> QED
    BY <1>3, <2>1
<1>5. \A i \in DOMAIN q : i \in {1, 2}
  BY <1>3
<1>6. \A i \in DOMAIN q : q[i].name \in X /\ q[i].path \in X
  BY <1>1, <1>3, <1>5, Zenon
<1>7. NamesOf(q) \subseteq X /\ PathsOf(q) \subseteq X
  BY <1>6, Zenon DEF NamesOf, PathsOf
<1>8. Apart(q)
  BY <1>1, <1>3, <1>5, Different DEF Apart
<1> QED
  BY <1>4, <1>7, <1>8 DEF Part, q

LEMMA VolumesAsParts ==
    ASSUME NEW spec
    PROVE  Volumes(spec) =
              SecretVolumes("secret", "apikeys", ProviderSecrets(spec)) \o Own(spec)
              \o SeqIf(DataCollectorEnabled(spec), Collector)
              \o CAVolume("root") \o CAVolume("postgres") \o CAVolume("otel")
              \o SeqIf(spec.introspection, CAVolume("mcp"))
              \o SeqIf(~spec.byokOnly, CAVolume("rhokp"))
              \o SeqIf(spec.userCA \notin {"none", ""},
                       <<Volume(<<"user">>, <<"certs", "user">>, "cmap", spec.userCA, {})>>)
              \o SeqIf(HasProxyCA(spec),
                       <<Volume(<<"proxy">>, <<"certs", "proxy">>, "cmap", spec.proxy.name,
                                {CertKey(spec.proxy)})>>)
              \o SeqIf(spec.rag # <<>>, <<Volume(<<"rag">>, <<"rag">>, "empty", "", {})>>)
              \o SecretVolumes("header", "headers", HeaderSecrets(spec))
BY Zenon DEF Volumes, Own, Collector, HeaderVolumes

\* The volumes of the pods share no name and no path when the Secrets are distinct.
LEMMA VolumesApart ==
    ASSUME NEW spec, SecretsDistinct(spec),
           ProviderSecrets(spec) \in Seq(STRING), HeaderSecrets(spec) \in Seq(STRING)
    PROVE  Apart(Volumes(spec))
<1> DEFINE ps == ToSet(ProviderSecrets(spec))
           hs == ToSet(HeaderSecrets(spec))
           N1 == {<<"secret", s>> : s \in ps}
           P1 == {<<"apikeys", s>> : s \in ps}
           X == {<<"user-data">>, <<"exporter">>}
           N3 == (N1 \cup OwnNames) \cup X
           P3 == (P1 \cup OwnPaths) \cup X
           NH == {<<"header", s>> : s \in hs}
           PH == {<<"headers", s>> : s \in hs}
           q1 == SecretVolumes("secret", "apikeys", ProviderSecrets(spec))
           q2 == q1 \o Own(spec)
           r3 == SeqIf(DataCollectorEnabled(spec), Collector)
           q3 == q2 \o r3
           q4 == q3 \o CAVolume("root")
           q5 == q4 \o CAVolume("postgres")
           q6 == q5 \o CAVolume("otel")
           r7 == SeqIf(spec.introspection, CAVolume("mcp"))
           q7 == q6 \o r7
           r8 == SeqIf(~spec.byokOnly, CAVolume("rhokp"))
           q8 == q7 \o r8
           r9 == SeqIf(spec.userCA \notin {"none", ""},
                       <<Volume(<<"user">>, <<"certs", "user">>, "cmap", spec.userCA, {})>>)
           q9 == q8 \o r9
           r10 == SeqIf(HasProxyCA(spec),
                        <<Volume(<<"proxy">>, <<"certs", "proxy">>, "cmap", spec.proxy.name,
                                 {CertKey(spec.proxy)})>>)
           q10 == q9 \o r10
           r11 == SeqIf(spec.rag # <<>>, <<Volume(<<"rag">>, <<"rag">>, "empty", "", {})>>)
           q11 == q10 \o r11
           r12 == SecretVolumes("header", "headers", HeaderSecrets(spec))
           q12 == q11 \o r12
<1>1. Volumes(spec) = q12
  BY VolumesAsParts, Zenon
<1>2. /\ Part(q1, N1, P1) /\ Part(r12, NH, PH)
      /\ ps \cap {"postgres", "tls"} = {}
  BY SecretParts DEF SecretsDistinct
<1>3. Part(r3, X, X)
  BY CollectorPart, PartIf
<1>4. \A d : Part(CAVolume(d), {<<d>>}, {<<"certs", d>>})
  BY CertPart, Zenon DEF CAVolume
<1>5. Part(r7, {<<"mcp">>}, {<<"certs", "mcp">>}) /\ Part(r8, {<<"rhokp">>}, {<<"certs", "rhokp">>})
  BY <1>4, PartIf
<1>6. /\ Part(r9, {<<"user">>}, {<<"certs", "user">>})
      /\ Part(r10, {<<"proxy">>}, {<<"certs", "proxy">>})
  BY CertPart, PartIf
<1>7. Part(r11, {<<"rag">>}, {<<"rag">>})
  BY PlainPart, PartIf
<1>8. N1 \cap OwnNames = {} /\ P1 \cap OwnPaths = {}
  <2>1. \A s \in ps : <<"secret", s>> \notin OwnNames /\ <<"apikeys", s>> \notin OwnPaths
    BY <1>2, Different DEF OwnNames, OwnPaths
  <2> QED
    BY <2>1, Zenon
<1>9. (N1 \cup OwnNames) \cap X = {} /\ (P1 \cup OwnPaths) \cap X = {}
  <2>1. \A s \in ps : <<"secret", s>> \notin X /\ <<"apikeys", s>> \notin X
    BY Different
  <2>2. OwnNames \cap X = {} /\ OwnPaths \cap X = {}
    BY Different DEF OwnNames, OwnPaths
  <2> QED
    BY <2>1, <2>2, Zenon
<1>10. \A c \in CertDirs : <<c>> \notin N3 /\ <<"certs", c>> \notin P3
  <2> TAKE c \in CertDirs
  <2>1. <<c>> \notin N1 /\ <<"certs", c>> \notin P1
    BY Different
  <2>2. <<c>> \notin OwnNames /\ <<"certs", c>> \notin OwnPaths
    BY Different DEF OwnNames, OwnPaths, CertDirs
  <2>3. <<c>> \notin X /\ <<"certs", c>> \notin X
    BY Different DEF CertDirs
  <2> QED
    BY <2>1, <2>2, <2>3, Zenon
<1>11. <<"rag">> \notin N3 \cup DirNames(CertDirs) /\ <<"rag">> \notin P3 \cup DirPaths(CertDirs)
  <2>1. <<"rag">> \notin N1 /\ <<"rag">> \notin P1
    BY Different
  <2>2. <<"rag">> \notin OwnNames /\ <<"rag">> \notin OwnPaths /\ <<"rag">> \notin X
    BY Different DEF OwnNames, OwnPaths
  <2>3. <<"rag">> \notin DirNames(CertDirs) /\ <<"rag">> \notin DirPaths(CertDirs)
    BY Different DEF DirNames, DirPaths, CertDirs
  <2> QED
    BY <2>1, <2>2, <2>3, Zenon
<1>12. /\ ((N3 \cup DirNames(CertDirs)) \cup {<<"rag">>}) \cap NH = {}
       /\ ((P3 \cup DirPaths(CertDirs)) \cup {<<"rag">>}) \cap PH = {}
  <2> SUFFICES ASSUME NEW s \in hs
               PROVE  /\ <<"header", s>> \notin N3 \cup DirNames(CertDirs) \cup {<<"rag">>}
                      /\ <<"headers", s>> \notin P3 \cup DirPaths(CertDirs) \cup {<<"rag">>}
    BY Zenon
  <2>1. <<"header", s>> \notin N1 /\ <<"headers", s>> \notin P1
    BY Different
  <2>2. /\ <<"header", s>> \notin OwnNames /\ <<"headers", s>> \notin OwnPaths
        /\ <<"header", s>> \notin X /\ <<"headers", s>> \notin X
        /\ <<"header", s>> # <<"rag">> /\ <<"headers", s>> # <<"rag">>
    BY Different DEF OwnNames, OwnPaths
  <2>3. <<"header", s>> \notin DirNames(CertDirs) /\ <<"headers", s>> \notin DirPaths(CertDirs)
    BY Different DEF DirNames, DirPaths
  <2> QED
    BY <2>1, <2>2, <2>3, Zenon
<1>13. Part(q3, N3, P3)
  <2> HIDE DEF q1, r3, N1, P1, X
  <2>1. Part(q2, N1 \cup OwnNames, P1 \cup OwnPaths)
    BY <1>2, <1>8, OwnPart, JoinParts
  <2> QED
    BY <1>3, <1>9, <2>1, JoinParts
<1> HIDE DEF N3, P3, NH, PH, r7, r8, r9, r10, r11, r12
<1>14. Part(q6, N3 \cup DirNames({"root", "postgres", "otel"}),
            P3 \cup DirPaths({"root", "postgres", "otel"}))
  <2> HIDE DEF q3
  <2>1. Part(q3, N3 \cup DirNames({}), P3 \cup DirPaths({}))
    <3>1. DirNames({}) = {} /\ DirPaths({}) = {}
      BY Zenon DEF DirNames, DirPaths
    <3>2. N3 \cup DirNames({}) = N3 /\ P3 \cup DirPaths({}) = P3
      BY <3>1, Zenon
    <3> QED
      BY <1>13, <3>2, Zenon
  <2>2. Part(q4, N3 \cup DirNames({} \cup {"root"}), P3 \cup DirPaths({} \cup {"root"}))
    BY <1>4, <1>10, <2>1, AddCert DEF CertDirs
  <2> DEFINE D4 == {} \cup {"root"}
             D5 == D4 \cup {"postgres"}
             D6 == D5 \cup {"otel"}
  <2>3. Part(q5, N3 \cup DirNames(D5), P3 \cup DirPaths(D5))
    BY <1>4, <1>10, <2>2, AddCert DEF CertDirs
  <2>4. Part(q6, N3 \cup DirNames(D6), P3 \cup DirPaths(D6))
    BY <1>4, <1>10, <2>3, AddCert DEF CertDirs
  <2>5. D6 = {"root", "postgres", "otel"}
    OBVIOUS
  <2> QED
    BY <2>4, <2>5, Zenon
<1>15. Part(q10, N3 \cup DirNames(CertDirs), P3 \cup DirPaths(CertDirs))
  <2> HIDE DEF q6
  <2> DEFINE D6 == {"root", "postgres", "otel"}
             D7 == D6 \cup {"mcp"}
             D8 == D7 \cup {"rhokp"}
             D9 == D8 \cup {"user"}
             D10 == D9 \cup {"proxy"}
  <2>1. Part(q7, N3 \cup DirNames(D7), P3 \cup DirPaths(D7))
    BY <1>5, <1>10, <1>14, AddCert DEF CertDirs
  <2>2. Part(q8, N3 \cup DirNames(D8), P3 \cup DirPaths(D8))
    BY <1>5, <1>10, <2>1, AddCert DEF CertDirs
  <2>3. Part(q9, N3 \cup DirNames(D9), P3 \cup DirPaths(D9))
    BY <1>6, <1>10, <2>2, AddCert DEF CertDirs
  <2>4. Part(q10, N3 \cup DirNames(D10), P3 \cup DirPaths(D10))
    BY <1>6, <1>10, <2>3, AddCert DEF CertDirs
  <2>5. D10 = CertDirs
    BY DEF CertDirs
  <2> QED
    BY <2>4, <2>5, Zenon
<1>16. Part(q12, ((N3 \cup DirNames(CertDirs)) \cup {<<"rag">>}) \cup NH,
            ((P3 \cup DirPaths(CertDirs)) \cup {<<"rag">>}) \cup PH)
  <2> HIDE DEF q10
  <2> DEFINE A == N3 \cup DirNames(CertDirs)
             B == P3 \cup DirPaths(CertDirs)
  <2>1. A \cap {<<"rag">>} = {} /\ B \cap {<<"rag">>} = {}
    BY <1>11
  <2> HIDE DEF A, B
  <2>2. Part(q11, A \cup {<<"rag">>}, B \cup {<<"rag">>})
    BY <1>7, <1>15, <2>1, JoinParts DEF A, B
  <2> HIDE DEF q11
  <2> QED
    BY <1>2, <1>12, <2>2, JoinParts DEF A, B
<1> HIDE DEF q12
<1> QED
  BY <1>1, <1>16 DEF Part

----------------------------------------------------------------------------
(* The theorems.                                                           *)

\* Past the task of the ConfigMap, and while there is a Deployment, the ConfigMap is there.
ConfigInv ==
    /\ TypeOK
    /\ pc \in {"exporter", "deploy"} => config.there

LEMMA InitInv == Init => ConfigInv
<1> SUFFICES ASSUME Init PROVE ConfigInv
  OBVIOUS
<1>1. budget \in 0..MaxEvents[case]
  <2>1. MaxEvents[case] \in Nat /\ budget = MaxEvents[case]
    BY ConfigBounds DEF Init
  <2> QED
    BY <2>1
<1>2. dep.there = FALSE /\ config.there = FALSE
  BY DEF Init
<1> QED
  BY <1>1, <1>2 DEF Init, ConfigInv, TypeOK

LEMMA SpendTyped ==
    ASSUME TypeOK, Spend
    PROVE  budget' \in 0..MaxEvents[case]
BY ConfigBounds DEF TypeOK, Spend

LEMMA StepInv == ConfigInv /\ [Next]_vars => ConfigInv'
<1> SUFFICES ASSUME ConfigInv, [Next]_vars PROVE ConfigInv'
  OBVIOUS
<1>1. TypeOK /\ (pc \in {"exporter", "deploy"} => config.there)
  BY DEF ConfigInv
<1>2. CASE StartReconcile
  BY <1>1, <1>2 DEF StartReconcile, inputs, ConfigInv, TypeOK
<1>3. CASE Validate
  BY <1>1, <1>3 DEF Validate, Fail, inputs, ConfigInv, TypeOK
<1>4. CASE ReconcileOLSConfigMap
  <2>1. config'.there = TRUE \/ config' = config
    BY <1>4 DEF ReconcileOLSConfigMap, GenerateOLSConfigMap
  <2>2. queued' \in BOOLEAN
    BY <1>4, Zenon DEF ReconcileOLSConfigMap, Fail, Written
  <2>3. /\ pc' \in {"idle", "exporter"} /\ failed' \in BOOLEAN
        /\ pc' = "exporter" => config'.there = TRUE
    <3>1. failed \in BOOLEAN
      BY <1>1 DEF TypeOK
    <3>2. CASE ConfigFails(read)
      BY <1>4, <3>2 DEF ReconcileOLSConfigMap, Fail
    <3>3. CASE ~ConfigFails(read)
      <4>1. config' \in GenerateOLSConfigMap(read) /\ pc' = "exporter" /\ failed' = failed
        BY <1>4, <3>3, Zenon DEF ReconcileOLSConfigMap
      <4>2. config'.there = TRUE
        BY <4>1 DEF GenerateOLSConfigMap
      <4> QED
        BY <3>1, <4>1, <4>2
    <3> QED
      BY <3>2, <3>3
  <2> QED
    BY <1>1, <1>4, <2>1, <2>2, <2>3 DEF ReconcileOLSConfigMap, inputs, ConfigInv, TypeOK
<1>5. CASE ReconcileExporterConfigMap
  <2>1. queued' \in BOOLEAN
    BY <1>5, Zenon DEF ReconcileExporterConfigMap, Fail, Written
  <2>2. exporter' \in BOOLEAN
    <3>1. exporter \in BOOLEAN /\ DataCollectorEnabled(read) \in BOOLEAN
      BY <1>1, Zenon DEF TypeOK, DataCollectorEnabled
    <3> QED
      BY <1>5, <3>1, Zenon DEF ReconcileExporterConfigMap
  <2>3. pc' \in {"idle", "deploy"} /\ failed' \in BOOLEAN
    BY <1>1, <1>5 DEF ReconcileExporterConfigMap, Fail, TypeOK
  <2> QED
    BY <1>1, <1>5, <2>1, <2>2, <2>3 DEF ReconcileExporterConfigMap, inputs, ConfigInv, TypeOK
<1>6. CASE ReconcileDeployment
  <2>1. dep' = dep \/ dep'.there = TRUE
    BY <1>6 DEF ReconcileDeployment, GenerateOLSDeployment
  <2>2. pc' = "idle" /\ failed' \in BOOLEAN /\ queued' \in BOOLEAN
    BY <1>1, <1>6, Zenon DEF ReconcileDeployment, Fail, TypeOK
  <2> QED
    BY <1>1, <1>6, <2>1, <2>2 DEF ReconcileDeployment, inputs, ConfigInv, TypeOK
<1>7. CASE HandleEvent
  <2>1. queued' \in BOOLEAN
    BY <1>7, Zenon DEF HandleEvent
  <2> QED
    BY <1>1, <1>7, <2>1 DEF HandleEvent, ConfigInv, TypeOK
<1>8. CASE EditCR
  BY <1>1, <1>8, SpendTyped DEF EditCR, ConfigInv, TypeOK
<1>9. CASE ChangeCluster
  BY <1>1, <1>9, SpendTyped DEF ChangeCluster, ConfigInv, TypeOK
<1>10. CASE UNCHANGED vars
  BY <1>1, <1>10 DEF vars, ConfigInv, TypeOK
<1> QED
  BY <1>2, <1>3, <1>4, <1>5, <1>6, <1>7, <1>8, <1>9, <1>10 DEF Next, Worker

\* The invariant holds in every state that the reconciler can reach.
THEOREM ConfigInvariant == Spec => []ConfigInv
BY InitInv, StepInv, PTL DEF Spec

\* For every CR and cluster the variables keep their types, and no Deployment of the
\* application server exists before the ConfigMap that it mounts.
THEOREM ConfigTyped == Spec => []TypeOK
<1>1. ConfigInv => TypeOK
  BY DEF ConfigInv
<1> QED
  BY <1>1, ConfigInvariant, PTL

\* For every CR whose Secrets are distinct and every state of the cluster, the volumes
\* and mounts that GenerateOLSDeployment puts together from its twelve sources have
\* names and paths of their own, so the API server takes the Deployment.
THEOREM DistinctIsAccepted == Spec => []AcceptedWhenDistinct
<1>1. TypeOK => AcceptedWhenDistinct
  <2> SUFFICES ASSUME TypeOK, SecretsDistinct(read)
               PROVE  Acceptable(GenerateOLSDeployment(read))
    BY DEF AcceptedWhenDistinct
  <2>1. ProviderSecrets(read) \in Seq(STRING) /\ HeaderSecrets(read) \in Seq(STRING)
    BY SecretLists DEF TypeOK
  <2>2. Apart(Volumes(read))
    BY <2>1, VolumesApart
  <2>3. GenerateOLSDeployment(read).volumes = Volumes(read)
    BY DEF GenerateOLSDeployment
  <2> QED
    BY <2>2, <2>3, Zenon DEF Acceptable, Apart
<1> QED
  BY <1>1, ConfigTyped, PTL

=============================================================================
