--------------------------- MODULE OpenBaoProofs ---------------------------
(* What `douglas start` guarantees of OpenBao for any number of starts at    *)
(* once, any earlier setups, any failures, deaths and restarts.              *)
EXTENDS OpenBao, TLAPS

Contexts == [phase : {"idle", "observing", "running", "ok", "failed"}, plan : Seq(ToSteps),
             available : BOOLEAN, has_codes : BOOLEAN, unseal_codes : {"none", "stale", "ours"},
             admin_token : {"none", "root", "douglas"}, minted : BOOLEAN]

\* A start that does not run holds nothing.
ContextsTyped ==
    /\ start \in [Starts -> Contexts]
    /\ \A s \in Starts :
         /\ start[s].minted => start[s].admin_token = "root"
         /\ start[s].phase # "running" =>
                /\ start[s].plan = <<>> /\ start[s].unseal_codes = "none"
                /\ start[s].admin_token = "none"

Typed ==
    /\ seal \in {"uninitialized", "sealed", "unsealed"}
    /\ installed \subseteq Pieces /\ policy \subseteq Pieces
    /\ root_token \in {"none", "live", "revoked"}
    /\ files \in [File -> Contents]
    /\ faults \in 0..MaxFaults /\ restarts \in 0..MaxRestarts
    /\ ContextsTyped

\* Which command comes after which: no plan tears apart the unsealing and recording of the
\* codes, or the storing of the login.
Follows(a, b) ==
    /\ a \in {"initialize", "load"} => b = "unseal"
    /\ a = "unseal" => b = "delete_codes"
    /\ a = "delete_codes" => b = "write_codes"
    /\ a = "delete_role_id" => b = "write_role_id"
    /\ a = "write_role_id" => b = "delete_secret_id"
    /\ a = "delete_secret_id" => b = "write_secret_id"
    /\ a = "write_secret_id" => b = "revoke"
    /\ a # "revoke" /\ b \notin {"initialize", "load", "login"}
NotLast == {"initialize", "load", "unseal", "delete_codes", "delete_role_id", "write_role_id",
            "delete_secret_id", "write_secret_id"}

Ordered(plan) ==
    /\ \A i \in 1..Len(plan) - 1 : Follows(plan[i], plan[i + 1])
    /\ plan # <<>> => plan[Len(plan)] \notin NotLast
    /\ plan # <<>> /\ plan[1] = "initialize" =>
           {"write_role_id", "write_secret_id", "revoke"} \subseteq Range(plan)
    /\ plan # <<>> /\ plan[1] = "login" => "mint" \notin Range(plan)

\* What a plan finds missing it brings.
PlansInHand ==
    \A s \in Starts :
        /\ Ordered(start[s].plan)
        /\ start[s].phase = "running" => Installed \subseteq installed \cup Range(start[s].plan)

\* Who administers OpenBao: with the root token the one start that initialised it, which is
\* to store the login unless it has; with the stored login the others.
Administers(s) ==
    /\ start[s].admin_token = "none" =>
           \/ start[s].plan # <<>> /\ start[s].plan[1] = "login"
           \/ "revoke" \in Range(start[s].plan)
    /\ start[s].plan # <<>> /\ start[s].plan[1] = "login" => start[s].admin_token = "none"
    /\ start[s].admin_token = "douglas" =>
           "mint" \notin Range(start[s].plan) /\ \A f \in Credentials : files[f] = "ours"
    /\ start[s].admin_token = "root" =>
           /\ seal # "uninitialized"
           /\ files["role_id"] = "ours" \/ "write_role_id" \in Range(start[s].plan)
           /\ files["secret_id"] = "ours" \/ "write_secret_id" \in Range(start[s].plan)
           /\ "write_secret_id" \in Range(start[s].plan) => files["secret_id"] # "ours"
           /\ \A t \in Starts : start[t].admin_token = "root" => t = s

LoginInHand ==
    /\ seal = "uninitialized" => files["secret_id"] # "ours"
    /\ \A s \in Starts : start[s].phase = "running" => Administers(s)

Inv == Typed /\ PlansInHand /\ LoginInHand

-----------------------------------------------------------------------------
(* Plans *)

\* The elements of a sequence, and of two of them, one after the other.
LEMMA Elements ==
    ASSUME NEW C, NEW p \in Seq(C)
    PROVE  /\ Range(p) = {p[i] : i \in 1..Len(p)} /\ Range(p) \subseteq C
           /\ p # <<>> => Len(p) > 0 /\ p[1] \in Range(p) /\ Head(p) = p[1]
  BY DEF Range

LEMMA Joined ==
    ASSUME NEW C, NEW a \in Seq(C), NEW b \in Seq(C)
    PROVE  /\ a \o b \in Seq(C) /\ Len(a \o b) = Len(a) + Len(b)
           /\ \A i \in 1..Len(a) + Len(b) :
                  (a \o b)[i] = IF i <= Len(a) THEN a[i] ELSE b[i - Len(a)]
           /\ a \o b = <<>> => a = <<>> /\ b = <<>>
  OBVIOUS

LEMMA JoinedElements ==
    ASSUME NEW C, NEW a \in Seq(C), NEW b \in Seq(C)
    PROVE  Range(a \o b) = Range(a) \cup Range(b)
<1> DEFINE c == a \o b
<1>1. Len(a) \in Nat /\ Len(b) \in Nat /\ c \in Seq(C) /\ Len(c) = Len(a) + Len(b)
      /\ \A i \in 1..Len(c) : c[i] = IF i <= Len(a) THEN a[i] ELSE b[i - Len(a)]
  BY Joined
<1>e. /\ Range(a) = {a[i] : i \in 1..Len(a)} /\ Range(b) = {b[i] : i \in 1..Len(b)}
      /\ Range(c) = {c[i] : i \in 1..Len(c)}
  BY <1>1, Elements
<1> HIDE DEF c
<1>2. ASSUME NEW x \in Range(c) PROVE x \in Range(a) \cup Range(b)
  <2>1. PICK i \in 1..Len(c) : x = c[i]
    BY <1>e
  <2>2. CASE i <= Len(a)
    BY <1>1, <1>e, <2>1, <2>2
  <2>3. CASE ~(i <= Len(a))
    <3>1. i - Len(a) \in 1..Len(b) /\ x = b[i - Len(a)]
      BY <1>1, <2>1, <2>3
    <3> QED
      BY <1>e, <3>1
  <2> QED
    BY <2>2, <2>3
<1>3. ASSUME NEW x \in Range(a) PROVE x \in Range(c)
  <2>1. PICK i \in 1..Len(a) : x = a[i]
    BY <1>e
  <2>2. i \in 1..Len(c) /\ c[i] = x
    BY <1>1, <2>1
  <2> QED
    BY <1>e, <2>2
<1>4. ASSUME NEW x \in Range(b) PROVE x \in Range(c)
  <2>1. PICK i \in 1..Len(b) : x = b[i]
    BY <1>e
  <2> DEFINE j == Len(a) + i
  <2>2. j \in 1..Len(c) /\ ~(j <= Len(a)) /\ j - Len(a) = i
    BY <1>1, <2>1
  <2> HIDE DEF j
  <2>3. c[j] = x
    BY <1>1, <2>1, <2>2
  <2> QED
    BY <1>e, <2>2, <2>3
<1> QED
  BY <1>2, <1>3, <1>4 DEF c

\* What is left of a plan when its first command is done.
LEMMA Rest ==
    ASSUME NEW p \in Seq(ToSteps), p # <<>>, Ordered(p)
    PROVE  /\ Tail(p) \in Seq(ToSteps) /\ Ordered(Tail(p))
           /\ Head(p) = p[1] /\ Head(p) \in ToSteps
           /\ Range(p) = {Head(p)} \cup Range(Tail(p))
           /\ Tail(p) # <<>> => Follows(Head(p), Tail(p)[1])
           /\ Head(p) \in NotLast => Tail(p) # <<>>
<1>1. /\ Len(p) \in Nat /\ Len(p) > 0 /\ Tail(p) \in Seq(ToSteps) /\ Len(Tail(p)) = Len(p) - 1
      /\ \A i \in 1..Len(p) - 1 : Tail(p)[i] = p[i + 1]
      /\ Head(p) = p[1] /\ Head(p) \in ToSteps
  OBVIOUS
<1>e. Range(p) = {p[i] : i \in 1..Len(p)} /\ Range(Tail(p)) = {Tail(p)[i] : i \in 1..Len(p) - 1}
  BY <1>1, Elements
<1>2. Range(p) = {Head(p)} \cup Range(Tail(p))
  <2>1. ASSUME NEW x \in Range(p) PROVE x = Head(p) \/ x \in Range(Tail(p))
    <3>1. PICK i \in 1..Len(p) : x = p[i]
      BY <1>e
    <3>2. CASE i # 1
      <4> DEFINE j == i - 1
      <4>1. j \in 1..Len(p) - 1 /\ Tail(p)[j] = x
        BY <1>1, <3>1, <3>2
      <4> HIDE DEF j
      <4> QED
        BY <1>e, <4>1
    <3> QED
      BY <1>1, <3>1, <3>2
  <2>2. ASSUME NEW x \in Range(Tail(p)) PROVE x \in Range(p)
    <3>1. PICK i \in 1..Len(p) - 1 : x = Tail(p)[i]
      BY <1>e
    <3>2. i + 1 \in 1..Len(p) /\ x = p[i + 1]
      BY <1>1, <3>1
    <3> QED
      BY <1>e, <3>2
  <2>3. Head(p) \in Range(p)
    BY <1>1, <1>e
  <2> QED
    BY <2>1, <2>2, <2>3
<1>3. Tail(p) # <<>> => Len(p) > 1 /\ Tail(p)[1] = p[2] /\ Follows(Head(p), Tail(p)[1])
  BY <1>1 DEF Ordered
<1>4. Head(p) \in NotLast => Tail(p) # <<>>
  <2>1. Len(p) # 1 => Tail(p) # <<>>
    BY <1>1
  <2> QED
    BY <1>1, <2>1 DEF Ordered
<1>5. \A i \in 1..Len(Tail(p)) - 1 : Follows(Tail(p)[i], Tail(p)[i + 1])
  <2> SUFFICES ASSUME NEW i \in 1..Len(Tail(p)) - 1 PROVE Follows(Tail(p)[i], Tail(p)[i + 1])
    OBVIOUS
  <2> DEFINE j == i + 1
  <2>1. j \in 1..Len(p) - 1 /\ Tail(p)[i] = p[j] /\ Tail(p)[i + 1] = p[j + 1]
    BY <1>1
  <2> HIDE DEF j
  <2> QED
    BY <2>1 DEF Ordered
<1>6. Tail(p) # <<>> => Tail(p)[Len(Tail(p))] \notin NotLast
  BY <1>1 DEF Ordered
<1>7. Tail(p) # <<>> => Tail(p)[1] \notin {"initialize", "login"}
  BY <1>3 DEF Follows
<1> QED
  BY <1>1, <1>2, <1>3, <1>4, <1>5, <1>6, <1>7 DEF Ordered

\* What Douglas adds by its own login.
Adds == (Installed \cup {"issuing_crl", "cluster_path"})

LEMMA TopUpIs ==
    ASSUME NEW found
    PROVE  /\ TopUp(found) \in Seq(ToSteps) /\ Ordered(TopUp(found))
           /\ TopUp(found) # <<>> => TopUp(found)[1] = "login"
           /\ Installed \subseteq found \cup Range(TopUp(found))
<1> DEFINE Where(missing, steps) == IF missing THEN steps ELSE <<>>
           Missing(p) == Where(p \notin found, <<p>>)
           kv == Missing("kv")
           managed == Missing("managed_secrets")
           configured == Where(Unconfigured(found), <<"managed_configured">>)
           pki == Missing("pki")
           ca == Where("ca" \notin found, <<"ca", "issuing_crl", "cluster_path">>)
           acme == Missing("acme")
           role == Missing("acme_role")
           auth == Missing("app_role")
           two == kv \o managed
           three == two \o configured
           four == three \o pki
           five == four \o ca
           six == five \o acme
           seven == six \o role
           steps == seven \o auth
           login == <<"login">>
           plan == login \o steps
<1>1. /\ Adds \subseteq ToSteps /\ "login" \in ToSteps
      /\ {"kv", "managed_secrets", "managed_configured", "pki", "ca", "issuing_crl",
          "cluster_path", "acme", "acme_role", "app_role"} = Adds
  <2>1. /\ {"kv", "managed_secrets", "managed_configured", "pki", "ca", "issuing_crl",
            "cluster_path", "acme", "acme_role", "app_role"} = Adds
    BY DEF Adds, Installed, Pieces, Mounts
  <2>2. {"kv", "managed_secrets", "managed_configured", "pki", "ca", "issuing_crl",
         "cluster_path", "acme", "acme_role", "app_role"} \subseteq Range(SetUp)
    BY DEF Range, SetUp
  <2> QED
    BY <2>1, <2>2 DEF ToSteps
<1>2. /\ kv \in Seq(Adds) /\ managed \in Seq(Adds) /\ configured \in Seq(Adds)
      /\ pki \in Seq(Adds) /\ ca \in Seq(Adds) /\ acme \in Seq(Adds)
      /\ role \in Seq(Adds) /\ auth \in Seq(Adds)
  BY <1>1
<1>3. /\ "kv" \notin found => "kv" \in Range(kv)
      /\ "managed_secrets" \notin found => "managed_secrets" \in Range(managed)
      /\ "managed_configured" \notin found => "managed_configured" \in Range(configured)
      /\ "pki" \notin found => "pki" \in Range(pki)
      /\ "ca" \notin found => "ca" \in Range(ca)
      /\ "acme" \notin found => "acme" \in Range(acme)
      /\ "acme_role" \notin found => "acme_role" \in Range(role)
      /\ "app_role" \notin found => "app_role" \in Range(auth)
  BY DEF Range, Unconfigured
<1> HIDE DEF kv, managed, configured, pki, ca, acme, role, auth
<1>4. two \in Seq(Adds) /\ Range(two) = Range(kv) \cup Range(managed)
  BY <1>2, Joined, JoinedElements
<1> HIDE DEF two
<1>5. three \in Seq(Adds) /\ Range(three) = Range(two) \cup Range(configured)
  BY <1>2, <1>4, Joined, JoinedElements
<1> HIDE DEF three
<1>6. four \in Seq(Adds) /\ Range(four) = Range(three) \cup Range(pki)
  BY <1>2, <1>5, Joined, JoinedElements
<1> HIDE DEF four
<1>7. five \in Seq(Adds) /\ Range(five) = Range(four) \cup Range(ca)
  BY <1>2, <1>6, Joined, JoinedElements
<1> HIDE DEF five
<1>8. six \in Seq(Adds) /\ Range(six) = Range(five) \cup Range(acme)
  BY <1>2, <1>7, Joined, JoinedElements
<1> HIDE DEF six
<1>9. seven \in Seq(Adds) /\ Range(seven) = Range(six) \cup Range(role)
  BY <1>2, <1>8, Joined, JoinedElements
<1> HIDE DEF seven
<1>10. steps \in Seq(Adds) /\ Range(steps) = Range(seven) \cup Range(auth)
  BY <1>2, <1>9, Joined, JoinedElements
<1>11. TopUp(found) = IF steps = <<>> THEN <<>> ELSE plan
  BY DEF TopUp, kv, managed, configured, pki, ca, acme, role, auth, two, three, four, five, six, seven
<1> HIDE DEF steps
<1>12. Installed \subseteq found \cup Range(steps)
  <2>1. Installed = {"kv", "managed_secrets", "managed_configured", "pki", "ca", "acme", "acme_role",
                     "app_role"}
    BY DEF Installed, Pieces, Mounts
  <2> QED
    BY <2>1, <1>3, <1>4, <1>5, <1>6, <1>7, <1>8, <1>9, <1>10
<1>13. login \in Seq(ToSteps) /\ Len(login) = 1 /\ login[1] = "login" /\ Range(<<>>) = {}
       /\ steps \in Seq(ToSteps)
  BY <1>1, <1>10 DEF Range
<1> HIDE DEF login
<1>14. /\ plan \in Seq(ToSteps) /\ Len(plan) = 1 + Len(steps) /\ plan[1] = "login"
       /\ \A i \in 1..Len(steps) : plan[i + 1] = steps[i]
       /\ Range(plan) = Range(login) \cup Range(steps)
  <2>1. /\ plan \in Seq(ToSteps) /\ Len(plan) = 1 + Len(steps)
        /\ \A i \in 1..1 + Len(steps) : plan[i] = IF i <= 1 THEN login[i] ELSE steps[i - 1]
    <3>1. /\ plan \in Seq(ToSteps) /\ Len(plan) = Len(login) + Len(steps)
          /\ \A i \in 1..Len(login) + Len(steps) :
                 plan[i] = IF i <= Len(login) THEN login[i] ELSE steps[i - Len(login)]
      BY ZenonT(30), <1>13, Joined
    <3> HIDE DEF plan
    <3> QED
      BY <1>13, <3>1
  <2>2. Range(plan) = Range(login) \cup Range(steps)
    BY <1>13, JoinedElements
  <2>3. Len(steps) \in Nat
    BY <1>10
  <2> HIDE DEF plan
  <2>4. plan[1] = "login"
    BY <1>13, <2>1, <2>3
  <2>5. ASSUME NEW i \in 1..Len(steps) PROVE plan[i + 1] = steps[i]
    BY <2>1, <2>3
  <2> QED
    BY <2>1, <2>2, <2>4, <2>5
<1> HIDE DEF plan
<1>15. \A a, b \in Adds : Follows(a, b) /\ Follows("login", b) /\ b \notin NotLast
  BY <1>1 DEF Follows, NotLast
<1>16. CASE steps = <<>>
  <2>1. TopUp(found) = <<>> /\ Ordered(<<>>) /\ <<>> \in Seq(ToSteps)
    BY <1>11, <1>16 DEF Ordered
  <2> QED
    BY <1>12, <1>13, <1>16, <2>1
<1>17. CASE steps # <<>>
  <2>1. Len(steps) \in Nat /\ Len(steps) > 0 /\ \A i \in 1..Len(steps) : steps[i] \in Adds
    BY <1>10, <1>17
  <2>2. \A i \in 1..Len(plan) - 1 : Follows(plan[i], plan[i + 1])
    <3>1. Follows(plan[1], plan[1 + 1])
      BY <1>14, <1>15, <2>1
    <3>2. ASSUME NEW i \in 1..Len(plan) - 1, i # 1 PROVE Follows(plan[i], plan[i + 1])
      <4> DEFINE j == i - 1
      <4>1. j \in 1..Len(steps) /\ i \in 1..Len(steps) /\ i = j + 1
        BY <1>14, <2>1, <3>2
      <4>2. plan[i] = steps[j] /\ plan[i + 1] = steps[i]
        BY <1>14, <4>1
      <4> QED
        BY <1>15, <2>1, <4>1, <4>2
    <3> QED
      BY <3>1, <3>2
  <2>3. plan[Len(plan)] = steps[Len(steps)]
    BY <1>14, <2>1
  <2>4. "mint" \notin Range(plan)
    <3>1. Range(steps) \subseteq Adds /\ Range(login) = {"login"}
      BY <1>10, <1>13, Elements DEF login, Range
    <3> QED
      BY <1>1, <1>14, <3>1
  <2>5. Ordered(plan)
    BY <1>14, <1>15, <2>1, <2>2, <2>3, <2>4 DEF Ordered
  <2> QED
    BY <1>11, <1>12, <1>14, <1>17, <2>5
<1> QED
  BY <1>16, <1>17

\* The whole chain, for an OpenBao that is new or sealed.
LEMMA ChainIs ==
    ASSUME NEW first \in {"initialize", "load"}
    PROVE  LET chain == <<first, "unseal">> \o RecordSecrets \o SetUp
           IN  /\ chain \in Seq(ToSteps) /\ Ordered(chain) /\ chain # <<>>
               /\ chain[1] = first
               /\ {"write_role_id", "write_secret_id", "revoke"} \cup Installed \subseteq Range(chain)
<1> DEFINE open == <<first, "unseal">>
           front == open \o RecordSecrets
           chain == front \o SetUp
<1>1. /\ open \in Seq(ToSteps) /\ Len(open) = 2 /\ open[1] = first /\ open[2] = "unseal"
      /\ RecordSecrets \in Seq(ToSteps) /\ Len(RecordSecrets) = 2
      /\ RecordSecrets[1] = "delete_codes" /\ RecordSecrets[2] = "write_codes"
  <2>1. Range(RecordSecrets) \subseteq ToSteps /\ {first, "unseal"} \subseteq ToSteps
    BY DEF ToSteps
  <2>2. {"delete_codes", "write_codes"} \subseteq Range(RecordSecrets)
    BY DEF RecordSecrets, Range
  <2> QED
    BY <2>1, <2>2 DEF RecordSecrets
<1>2. /\ Len(SetUp) = 18
      /\ SetUp[1] = "kv" /\ SetUp[2] = "managed_secrets" /\ SetUp[3] = "managed_configured"
      /\ SetUp[4] = "pki" /\ SetUp[5] = "ca" /\ SetUp[6] = "issuing_crl"
      /\ SetUp[7] = "cluster_path" /\ SetUp[8] = "acme" /\ SetUp[9] = "acme_role"
      /\ SetUp[10] = "app_role" /\ SetUp[11] = "douglas_policy" /\ SetUp[12] = "douglas_role"
      /\ SetUp[13] = "mint" /\ SetUp[14] = "delete_role_id" /\ SetUp[15] = "write_role_id"
      /\ SetUp[16] = "delete_secret_id" /\ SetUp[17] = "write_secret_id" /\ SetUp[18] = "revoke"
  BY DEF SetUp
<1>3. SetUp \in Seq(ToSteps)
  <2>1. SetUp \in Seq(Range(SetUp))
    BY DEF SetUp, Range
  <2>2. Range(SetUp) \subseteq ToSteps
    BY DEF ToSteps
  <2> QED
    BY <2>1, <2>2
<1> HIDE DEF open
<1>4. /\ front \in Seq(ToSteps) /\ Len(front) = 4 /\ front[1] = first /\ front[2] = "unseal"
      /\ front[3] = "delete_codes" /\ front[4] = "write_codes"
  <2>1. /\ front \in Seq(ToSteps) /\ Len(front) = Len(open) + Len(RecordSecrets)
        /\ \A i \in 1..Len(open) + Len(RecordSecrets) :
               front[i] = IF i <= Len(open) THEN open[i] ELSE RecordSecrets[i - Len(open)]
    BY <1>1, Joined
  <2> HIDE DEF front
  <2>2. Len(front) = 4 /\ \A i \in 1..4 : front[i] = IF i <= 2 THEN open[i] ELSE RecordSecrets[i - 2]
    BY <1>1, <2>1
  <2> QED
    BY <1>1, <2>1, <2>2
<1> HIDE DEF front
<1>5. /\ chain \in Seq(ToSteps) /\ Len(chain) = Len(front) + Len(SetUp)
      /\ \A i \in 1..Len(front) + Len(SetUp) :
             chain[i] = IF i <= Len(front) THEN front[i] ELSE SetUp[i - Len(front)]
  <2>1. front \in Seq(ToSteps)
    BY <1>4
  <2> QED
    BY <1>3, <2>1, Joined
<1>e. Range(chain) = Range(front) \cup Range(SetUp)
  BY <1>3, <1>4, JoinedElements
<1> HIDE DEF chain
<1>6. /\ Len(chain) = 22 /\ \A i \in 1..4 : chain[i] = front[i]
      /\ \A i \in 5..22 : chain[i] = SetUp[i - 4]
  BY <1>2, <1>4, <1>5
<1>7. /\ chain[1] = first /\ chain[2] = "unseal" /\ chain[3] = "delete_codes"
      /\ chain[4] = "write_codes" /\ chain[5] = "kv" /\ chain[6] = "managed_secrets"
      /\ chain[7] = "managed_configured" /\ chain[8] = "pki" /\ chain[9] = "ca"
      /\ chain[10] = "issuing_crl" /\ chain[11] = "cluster_path" /\ chain[12] = "acme"
      /\ chain[13] = "acme_role" /\ chain[14] = "app_role" /\ chain[15] = "douglas_policy"
      /\ chain[16] = "douglas_role" /\ chain[17] = "mint" /\ chain[18] = "delete_role_id"
      /\ chain[19] = "write_role_id" /\ chain[20] = "delete_secret_id"
      /\ chain[21] = "write_secret_id" /\ chain[22] = "revoke"
  BY <1>2, <1>4, <1>6
<1>8. \A i \in 1..Len(chain) - 1 : Follows(chain[i], chain[i + 1])
  <2> SUFFICES ASSUME NEW i \in 1..21 PROVE Follows(chain[i], chain[i + 1])
    BY <1>6
  <2>1. CASE i \in 1..4
    BY <1>7, <2>1 DEF Follows
  <2>2. CASE i \in 5..10
    BY <1>7, <2>2 DEF Follows
  <2>3. CASE i \in 11..16
    BY <1>7, <2>3 DEF Follows
  <2>4. CASE i \in 17..21
    BY <1>7, <2>4 DEF Follows
  <2> QED
    BY <2>1, <2>2, <2>3, <2>4
<1>9. {"write_role_id", "write_secret_id", "revoke"} \cup Installed \subseteq Range(chain)
  <2>1. \A i \in 1..18 : SetUp[i] \in Range(SetUp)
    <3>1. Range(SetUp) = {SetUp[i] : i \in 1..Len(SetUp)}
      BY <1>3, Elements
    <3> QED
      BY <1>2, <3>1
  <2>2. Installed = {"kv", "managed_secrets", "managed_configured", "pki", "ca", "acme", "acme_role",
                     "app_role"}
    BY DEF Installed, Pieces, Mounts
  <2> QED
    BY <1>2, <1>e, <2>1, <2>2
<1>10. Ordered(chain) /\ chain # <<>>
  <2>1. chain # <<>>
    BY <1>5, <1>6
  <2>2. chain[Len(chain)] \notin NotLast
    BY <1>6, <1>7 DEF NotLast
  <2> QED
    BY <1>7, <1>8, <1>9, <2>1, <2>2 DEF Ordered
<1> QED
  BY <1>5, <1>7, <1>9, <1>10 DEF chain, front, open

-----------------------------------------------------------------------------
(* Types *)

\* What the types say.
LEMMA TypedFacts ==
    ASSUME Typed
    PROVE  /\ TypeOK
           /\ \A s \in Starts :
                /\ start[s] \in Contexts
                /\ start[s].plan \in Seq(ToSteps)
                /\ start[s].phase # "running" => ~Running(s)
           /\ \A s \in Starts : Running(s) =>
                /\ start[s].plan # <<>> /\ start[s].phase = "running"
                /\ Step(s) \in Contexts /\ Step(s).plan = Tail(start[s].plan)
                /\ Step(s).phase = "running"
                /\ Step(s).unseal_codes = start[s].unseal_codes
                /\ Step(s).admin_token = start[s].admin_token
                /\ Step(s).minted = start[s].minted
<1>1. \A s \in Starts : start[s] \in Contexts /\ start[s].plan \in Seq(ToSteps)
  BY DEF Typed, ContextsTyped, Contexts
<1>2. TypeOK
  <2>1. \A s \in Starts : Range(start[s].plan) \subseteq ToSteps
    BY <1>1, Elements
  <2> QED
    BY <1>1, <2>1 DEF TypeOK, Typed, ContextsTyped, Contexts
<1>3. ASSUME NEW s \in Starts, Running(s)
      PROVE  /\ start[s].plan # <<>> /\ start[s].phase = "running"
             /\ Step(s) \in Contexts /\ Step(s).plan = Tail(start[s].plan)
             /\ Step(s).phase = "running"
             /\ Step(s).unseal_codes = start[s].unseal_codes
             /\ Step(s).admin_token = start[s].admin_token
             /\ Step(s).minted = start[s].minted
  <2> DEFINE tail == Tail(start[s].plan)
  <2>1. tail \in Seq(ToSteps)
    BY <1>1, <1>3 DEF Running
  <2>2. Step(s) = [start[s] EXCEPT !.plan = tail]
    BY DEF Step
  <2> HIDE DEF tail
  <2>3. /\ Step(s) \in Contexts /\ Step(s).plan = tail
        /\ Step(s).phase = start[s].phase
        /\ Step(s).unseal_codes = start[s].unseal_codes
        /\ Step(s).admin_token = start[s].admin_token
        /\ Step(s).minted = start[s].minted
    BY <1>1, <2>1, <2>2 DEF Contexts
  <2> QED
    BY <1>3, <2>3 DEF Running, tail
<1> QED
  BY <1>1, <1>2, <1>3 DEF Running

\* A start that gets a new context.
LEMMA Becoming ==
    ASSUME ContextsTyped, NEW s \in Starts, NEW new \in Contexts, Becomes(s, new),
           new.minted => new.admin_token = "root",
           new.phase # "running" =>
               new.plan = <<>> /\ new.unseal_codes = "none" /\ new.admin_token = "none"
    PROVE  /\ ContextsTyped' /\ start'[s] = new
           /\ \A t \in Starts : t # s => start'[t] = start[t]
<1>1. /\ start' \in [Starts -> Contexts] /\ start'[s] = new
      /\ \A t \in Starts : t # s => start'[t] = start[t]
  BY DEF Becomes, ContextsTyped
<1> QED
  BY <1>1 DEF ContextsTyped

LEMMA IdleTyped ==
    ASSUME NEW phase \in {"idle", "observing", "ok", "failed"}
    PROVE  LET new == [Idle EXCEPT !.phase = phase]
           IN  /\ new \in Contexts /\ new.phase = phase /\ ~new.minted
               /\ new.plan = <<>> /\ new.unseal_codes = "none" /\ new.admin_token = "none"
<1>1. <<>> \in Seq(ToSteps)
  OBVIOUS
<1> QED
  BY <1>1 DEF Idle, Contexts

-----------------------------------------------------------------------------
(* Steps *)

\* What one start does leaves the others' plans and logins in hand: the stored login changes
\* only while the start that initialised OpenBao stores it, and then nobody has used it.
LEMMA Others ==
    ASSUME Inv, NEW s \in Starts, \A t \in Starts : t # s => start'[t] = start[t],
           seal' = "uninitialized" => seal = "uninitialized",
           \/ \A f \in Credentials : files'[f] = files[f]
           \/ /\ start[s].phase = "running" /\ start[s].admin_token = "root"
              /\ "write_secret_id" \in Range(start[s].plan),
           start'[s].admin_token = "root" => start[s].admin_token = "root" \/ seal = "uninitialized"
    PROVE  \A t \in Starts : t # s /\ start'[t].phase = "running" => Administers(t)'
<1> SUFFICES ASSUME NEW t \in Starts, t # s, start[t].phase = "running" PROVE Administers(t)'
  OBVIOUS
<1>1. Administers(t) /\ start'[t] = start[t]
  BY DEF Inv, LoginInHand
<1>2. start[s].phase = "running" => Administers(s)
  BY DEF Inv, LoginInHand
<1>3. {"role_id", "secret_id"} = Credentials
  BY DEF Credentials
<1>4. ASSUME start[t].admin_token = "root"
      PROVE  /\ \A f \in Credentials : files'[f] = files[f]
             /\ \A u \in Starts : start'[u].admin_token = "root" => u = t
  <2>1. start[s].admin_token # "root" /\ seal # "uninitialized"
    BY <1>1, <1>4 DEF Administers
  <2> QED
    BY <1>1, <1>4, <2>1 DEF Administers
<1>5. ASSUME start[t].admin_token = "douglas"
      PROVE  \A f \in Credentials : files'[f] = "ours"
  <2>1. files["secret_id"] = "ours" /\ \A f \in Credentials : files[f] = "ours"
    BY <1>1, <1>3, <1>5 DEF Administers
  <2> QED
    BY <1>2, <2>1 DEF Administers
<1> QED
  BY <1>1, <1>3, <1>4, <1>5 DEF Administers

LEMMA PlansKept ==
    ASSUME Inv, NEW s \in Starts, \A t \in Starts : t # s => start'[t] = start[t],
           installed \subseteq installed', Ordered(start'[s].plan),
           start'[s].phase = "running" => Installed \subseteq installed' \cup Range(start'[s].plan)
    PROVE  PlansInHand'
  BY DEF Inv, PlansInHand

\* A start that ends, or begins.
LEMMA Stands ==
    ASSUME Inv, NEW s \in Starts, NEW new \in Contexts, Becomes(s, new),
           new.phase # "running", ~new.minted,
           new.plan = <<>>, new.unseal_codes = "none", new.admin_token = "none",
           UNCHANGED <<seal, installed>>,
           \/ \A f \in Credentials : files'[f] = files[f]
           \/ /\ start[s].phase = "running" /\ start[s].admin_token = "root"
              /\ "write_secret_id" \in Range(start[s].plan)
    PROVE  ContextsTyped' /\ PlansInHand' /\ LoginInHand'
<1>1. ContextsTyped' /\ start'[s] = new /\ \A t \in Starts : t # s => start'[t] = start[t]
  BY Becoming DEF Inv, Typed
<1>2. Ordered(<<>>)
  BY DEF Ordered
<1>3. PlansInHand'
  BY <1>1, <1>2, PlansKept
<1>4. \A t \in Starts : t # s /\ start'[t].phase = "running" => Administers(t)'
  BY <1>1, Others
<1>5. seal' = "uninitialized" => files'["secret_id"] # "ours"
  BY DEF Inv, LoginInHand, Administers, Credentials
<1> QED
  BY <1>1, <1>3, <1>4, <1>5 DEF LoginInHand

\* A command that is done, of a start that keeps its token and the stored login.
LEMMA MovesOn ==
    ASSUME Inv, NEW s \in Starts, Running(s), NEW new \in Contexts, Becomes(s, new),
           new.phase = "running", new.plan = Tail(start[s].plan),
           new.admin_token = start[s].admin_token, new.minted => new.admin_token = "root",
           seal' = "uninitialized" <=> seal = "uninitialized",
           installed \subseteq installed',
           Head(start[s].plan) \in Installed => Head(start[s].plan) \in installed',
           \A f \in Credentials : files'[f] = files[f],
           Head(start[s].plan) \notin {"login", "write_role_id", "write_secret_id"},
           Head(start[s].plan) = "revoke" => start[s].admin_token # "none"
    PROVE  ContextsTyped' /\ PlansInHand' /\ LoginInHand'
<1> DEFINE p == start[s].plan
<1>1. ContextsTyped' /\ start'[s] = new /\ \A t \in Starts : t # s => start'[t] = start[t]
  BY Becoming DEF Inv, Typed
<1>2. /\ p \in Seq(ToSteps) /\ p # <<>> /\ Ordered(p) /\ start[s].phase = "running"
      /\ Installed \subseteq installed \cup Range(p)
  BY TypedFacts DEF Inv, PlansInHand
<1>3. /\ Ordered(Tail(p)) /\ Head(p) = p[1] /\ Range(p) = {Head(p)} \cup Range(Tail(p))
      /\ Tail(p) # <<>> => Tail(p)[1] # "login"
  BY <1>2, Rest DEF Follows
<1>4. PlansInHand'
  BY <1>1, <1>2, <1>3, PlansKept
<1>5. \A t \in Starts : t # s /\ start'[t].phase = "running" => Administers(t)'
  BY <1>1, Others
<1>6. Administers(s)'
  <2>1. Administers(s)
    BY <1>2 DEF Inv, LoginInHand
  <2>2. /\ start'[s].admin_token = start[s].admin_token /\ start'[s].plan = Tail(p)
        /\ files'["role_id"] = files["role_id"] /\ files'["secret_id"] = files["secret_id"]
    BY <1>1 DEF Credentials
  <2>3. \A t \in Starts : start'[t].admin_token = start[t].admin_token
    BY <1>1
  <2> HIDE DEF p
  <2> QED
    BY <1>2, <1>3, <2>1, <2>2, <2>3 DEF Administers, p
<1>7. seal' = "uninitialized" => files'["secret_id"] # "ours"
  BY DEF Inv, LoginInHand, Credentials
<1> QED
  BY <1>1, <1>4, <1>5, <1>6, <1>7 DEF LoginInHand

\* What else a step may change.
LEMMA InvFrom ==
    ASSUME Inv, ContextsTyped' /\ PlansInHand' /\ LoginInHand',
           seal' \in {"uninitialized", "sealed", "unsealed"},
           installed' \subseteq Pieces, policy' \subseteq Pieces,
           root_token' \in {"none", "live", "revoked"}, files' \in [File -> Contents],
           faults' \in 0..MaxFaults, restarts' \in 0..MaxRestarts
    PROVE  Inv'
  BY DEF Inv, Typed

\* The first command of a plan, as it is known when the command runs.
LEMMA First ==
    ASSUME Inv, NEW s \in Starts, Running(s)
    PROVE  /\ Head(start[s].plan) = start[s].plan[1] /\ start[s].plan # <<>>
           /\ Ordered(start[s].plan) /\ start[s].phase = "running"
           /\ Administers(s)
           /\ Ordered(Tail(start[s].plan)) /\ Head(start[s].plan) \in ToSteps
           /\ Range(start[s].plan) = {Head(start[s].plan)} \cup Range(Tail(start[s].plan))
           /\ Tail(start[s].plan) # <<>> => Follows(Head(start[s].plan), Tail(start[s].plan)[1])
           /\ Head(start[s].plan) \in NotLast => Tail(start[s].plan) # <<>>
           /\ Installed \subseteq installed \cup Range(start[s].plan)
<1>1. start[s].plan \in Seq(ToSteps) /\ start[s].plan # <<>> /\ start[s].phase = "running"
  BY TypedFacts DEF Inv
<1>2. Ordered(start[s].plan) /\ Administers(s)
      /\ Installed \subseteq installed \cup Range(start[s].plan)
  BY <1>1 DEF Inv, PlansInHand, LoginInHand
<1> QED
  BY <1>1, <1>2, Rest

LEMMA InitializeInv ==
    ASSUME Inv, NEW s \in Starts, Initialize(s)
    PROVE  Inv'
<1> DEFINE new == [Step(s) EXCEPT !.unseal_codes = "ours", !.admin_token = "root"]
           p == start[s].plan
<1>1. /\ Running(s) /\ Head(p) = "initialize" /\ seal = "uninitialized" /\ seal' = "sealed"
      /\ root_token' = "live" /\ Becomes(s, new)
      /\ UNCHANGED <<installed, policy, files, faults, restarts>>
  BY DEF Initialize, MayInitialize, At
<1>2. /\ new \in Contexts /\ new.phase = "running" /\ new.plan = Tail(p)
      /\ new.admin_token = "root" /\ new.unseal_codes = "ours"
  BY ZenonT(30), <1>1, TypedFacts DEF Inv, Contexts
<1> HIDE DEF new
<1>3. ContextsTyped' /\ start'[s] = new /\ \A t \in Starts : t # s => start'[t] = start[t]
  BY <1>1, <1>2, Becoming DEF Inv, Typed
<1>4. /\ p[1] = "initialize" /\ p # <<>> /\ Ordered(p) /\ Ordered(Tail(p))
      /\ Range(p) = {"initialize"} \cup Range(Tail(p))
      /\ Tail(p) # <<>> => Tail(p)[1] # "login"
      /\ Installed \subseteq installed \cup Range(p)
  BY <1>1, First DEF Follows
<1>5. {"write_role_id", "write_secret_id"} \subseteq Range(Tail(p)) /\ "initialize" \notin Installed
  BY <1>4 DEF Ordered, Installed, Pieces, Mounts
<1>6. PlansInHand'
  BY <1>1, <1>2, <1>3, <1>4, <1>5, PlansKept
<1>7. \A t \in Starts : t # s /\ start'[t].phase = "running" => Administers(t)'
  BY <1>1, <1>3, Others
<1>8. \A t \in Starts : start'[t].admin_token = "root" => t = s
  <2> SUFFICES ASSUME NEW t \in Starts, start[t].admin_token = "root" PROVE FALSE
    BY <1>3
  <2>1. start[t].phase = "running"
    BY DEF Inv, Typed, ContextsTyped
  <2> QED
    BY <1>1, <2>1 DEF Inv, LoginInHand, Administers
<1>9. files'["secret_id"] # "ours"
  BY <1>1 DEF Inv, LoginInHand
<1>10. LoginInHand'
  BY <1>1, <1>2, <1>3, <1>4, <1>5, <1>7, <1>8, <1>9 DEF LoginInHand, Administers
<1> QED
  BY <1>1, <1>3, <1>6, <1>10, InvFrom DEF Inv, Typed

LEMMA LoginInv ==
    ASSUME Inv, NEW s \in Starts, LoginAsDouglas(s)
    PROVE  Inv'
<1> DEFINE new == [Step(s) EXCEPT !.admin_token = "douglas"]
           p == start[s].plan
<1>1. /\ Running(s) /\ Head(p) = "login" /\ LogsIn /\ Becomes(s, new)
      /\ UNCHANGED <<seal, installed, policy, root_token, files, faults, restarts>>
  BY DEF LoginAsDouglas, At
<1>2. /\ new \in Contexts /\ new.phase = "running" /\ new.plan = Tail(p)
      /\ new.admin_token = "douglas" /\ new.minted = start[s].minted
  BY <1>1, TypedFacts DEF Inv, Contexts
<1>3. /\ p[1] = "login" /\ p # <<>> /\ Ordered(p) /\ Ordered(Tail(p))
      /\ Range(p) = {"login"} \cup Range(Tail(p))
      /\ Tail(p) # <<>> => Tail(p)[1] # "login"
      /\ Installed \subseteq installed \cup Range(p)
      /\ start[s].admin_token = "none"
  BY SMTT(20), <1>1, First DEF Follows, Administers
<1> HIDE DEF new
<1>4. ~new.minted
  BY <1>2, <1>3 DEF Inv, Typed, ContextsTyped
<1>5. ContextsTyped' /\ start'[s] = new /\ \A t \in Starts : t # s => start'[t] = start[t]
  BY <1>1, <1>2, <1>4, Becoming DEF Inv, Typed
<1>6. "login" \notin Installed /\ "mint" \notin Range(Tail(p))
  BY <1>3 DEF Ordered, Installed, Pieces, Mounts
<1>7. PlansInHand'
  BY <1>1, <1>2, <1>3, <1>5, <1>6, PlansKept
<1>8. \A t \in Starts : t # s /\ start'[t].phase = "running" => Administers(t)'
  BY <1>1, <1>2, <1>5, Others
<1>9. Administers(s)'
  BY <1>1, <1>2, <1>3, <1>5, <1>6 DEF LogsIn, Administers
<1>10. LoginInHand'
  BY <1>1, <1>8, <1>9 DEF LoginInHand, Inv
<1> QED
  BY <1>1, <1>5, <1>7, <1>10, InvFrom DEF Inv, Typed

\* A command that only opens OpenBao, or that reads the codes.
LEMMA LoadInv ==
    ASSUME Inv, NEW s \in Starts, LoadUnsealCodes(s)
    PROVE  Inv'
<1> DEFINE new == [Step(s) EXCEPT !.unseal_codes = files["codes"]]
<1>1. /\ Running(s) /\ Head(start[s].plan) = "load" /\ files["codes"] \in {"stale", "ours"}
      /\ Becomes(s, new)
      /\ UNCHANGED <<seal, installed, policy, root_token, files, faults, restarts>>
  BY DEF LoadUnsealCodes, MayLoad, At
<1>2. /\ new \in Contexts /\ new.phase = "running" /\ new.plan = Tail(start[s].plan)
      /\ new.admin_token = start[s].admin_token /\ new.minted = start[s].minted
  BY <1>1, TypedFacts DEF Inv, Contexts
<1>3. new.minted => new.admin_token = "root"
  BY <1>2 DEF Inv, Typed, ContextsTyped
<1>4. "load" \notin Installed
  BY DEF Installed, Pieces, Mounts
<1> HIDE DEF new
<1>5. ContextsTyped' /\ PlansInHand' /\ LoginInHand'
  BY <1>1, <1>2, <1>3, <1>4, MovesOn
<1> QED
  BY <1>1, <1>5, InvFrom DEF Inv, Typed

\* A command that changes nothing of its start but the plan.
LEMMA StepIs ==
    ASSUME Inv, NEW s \in Starts, Running(s)
    PROVE  /\ Step(s) \in Contexts /\ Step(s).phase = "running"
           /\ Step(s).plan = Tail(start[s].plan)
           /\ Step(s).admin_token = start[s].admin_token
           /\ Step(s).minted = start[s].minted /\ Step(s).unseal_codes = start[s].unseal_codes
           /\ Step(s).minted => Step(s).admin_token = "root"
  BY TypedFacts DEF Inv, Typed, ContextsTyped

LEMMA UnsealInv ==
    ASSUME Inv, NEW s \in Starts, Unseal(s)
    PROVE  Inv'
<1>1. /\ Running(s) /\ Head(start[s].plan) = "unseal" /\ Becomes(s, Step(s))
      /\ seal # "uninitialized" /\ seal' = "unsealed"
      /\ UNCHANGED <<installed, policy, root_token, files, faults, restarts>>
  BY DEF Unseal, MayUnseal, At
<1>2. "unseal" \notin Installed
  BY DEF Installed, Pieces, Mounts
<1>3. ContextsTyped' /\ PlansInHand' /\ LoginInHand'
  BY <1>1, <1>2, StepIs, MovesOn
<1> QED
  BY <1>1, <1>3, InvFrom DEF Inv, Typed

LEMMA InstallsInv ==
    ASSUME Inv, NEW s \in Starts, NEW piece \in Pieces, Installs(s, piece), policy' \subseteq Pieces
    PROVE  Inv'
<1>1. /\ Running(s) /\ Head(start[s].plan) = piece /\ Becomes(s, Step(s))
      /\ installed' = installed \cup {piece}
      /\ UNCHANGED <<seal, root_token, files, faults, restarts>>
  BY DEF Installs, MayInstall, At
<1>2. piece \notin {"login", "write_role_id", "write_secret_id", "revoke"}
  BY DEF Pieces, Mounts
<1>3. ContextsTyped' /\ PlansInHand' /\ LoginInHand'
  BY <1>1, <1>2, StepIs, MovesOn
<1> QED
  BY <1>1, <1>3, InvFrom DEF Inv, Typed

LEMMA SetUpInv ==
    ASSUME Inv, NEW s \in Starts,
           \/ Mount(s) \/ ConfigureManagedSecrets(s) \/ GenerateRootCA(s) \/ SetIssuingCRL(s)
           \/ ConfigureClusterPath(s) \/ EnableAcme(s) \/ CreateAcmePkiRole(s)
           \/ EnableAppRoleAuth(s) \/ CreateDouglasAppRolePolicy(s)
    PROVE  Inv'
<1>1. PICK piece \in Pieces : Installs(s, piece) /\ policy' \in {policy, Granted(Pieces)}
  <2>1. Mounts \cup {"managed_configured", "ca", "issuing_crl", "cluster_path", "acme",
                     "acme_role", "app_role", "douglas_policy", "douglas_role"} = Pieces
    BY DEF Pieces
  <2> QED
    BY <2>1 DEF Mount, ConfigureManagedSecrets, GenerateRootCA, SetIssuingCRL, ConfigureClusterPath,
                EnableAcme, CreateAcmePkiRole, EnableAppRoleAuth, CreateDouglasAppRolePolicy
<1>2. Granted(Pieces) \subseteq Pieces
  BY DEF Granted, Pieces, Mounts, Certificates
<1> QED
  BY <1>1, <1>2, InstallsInv DEF Inv, Typed

\* Only the start that initialised OpenBao mints a login: the others' plans do not.
LEMMA MintInv ==
    ASSUME Inv, NEW s \in Starts, CreateDouglasAppRoleSecret(s)
    PROVE  Inv'
<1> DEFINE new == [Step(s) EXCEPT !.minted = TRUE]
<1>1. /\ Running(s) /\ Head(start[s].plan) = "mint" /\ Accepted(s) /\ Becomes(s, new)
      /\ UNCHANGED <<seal, installed, policy, root_token, files, faults, restarts>>
  BY DEF CreateDouglasAppRoleSecret, MayMint, At
<1>2. /\ new \in Contexts /\ new.phase = "running" /\ new.plan = Tail(start[s].plan)
      /\ new.admin_token = start[s].admin_token
  BY ZenonT(30), <1>1, TypedFacts DEF Inv, Contexts
<1>3. start[s].admin_token = "root"
  BY <1>1, First DEF Accepted, Administers
<1>4. "mint" \notin Installed
  BY DEF Installed, Pieces, Mounts
<1> HIDE DEF new
<1>5. ContextsTyped' /\ PlansInHand' /\ LoginInHand'
  BY <1>1, <1>2, <1>3, <1>4, MovesOn
<1> QED
  BY <1>1, <1>5, InvFrom DEF Inv, Typed

LEMMA RevokeInv ==
    ASSUME Inv, NEW s \in Starts, RevokeAdminToken(s)
    PROVE  Inv'
<1>1. /\ Running(s) /\ Head(start[s].plan) = "revoke" /\ Accepted(s) /\ Becomes(s, Step(s))
      /\ root_token' = "revoked"
      /\ UNCHANGED <<seal, installed, policy, files, faults, restarts>>
  BY DEF RevokeAdminToken, At
<1>2. "revoke" \notin Installed /\ start[s].admin_token # "none"
  BY <1>1 DEF Installed, Pieces, Mounts, Accepted
<1>3. ContextsTyped' /\ PlansInHand' /\ LoginInHand'
  BY <1>1, <1>2, StepIs, MovesOn
<1> QED
  BY <1>1, <1>3, InvFrom DEF Inv, Typed

\* A plan that is about to store the login stores all of it, and then only revokes.
LEMMA Leads ==
    ASSUME NEW p \in Seq(ToSteps), p # <<>>, Ordered(p)
    PROVE  /\ Head(p) \in {"delete_role_id", "write_role_id", "delete_secret_id"} =>
                  "write_secret_id" \in Range(Tail(p))
           /\ Head(p) = "delete_role_id" => "write_role_id" \in Range(Tail(p))
           /\ Head(p) = "write_secret_id" => "write_secret_id" \notin Range(Tail(p))
<1>1. ASSUME NEW q \in Seq(ToSteps), q # <<>>, Ordered(q)
      PROVE  /\ Tail(q) \in Seq(ToSteps) /\ Ordered(Tail(q)) /\ Head(q) = q[1]
             /\ Range(q) = {Head(q)} \cup Range(Tail(q))
             /\ Tail(q) # <<>> => Follows(Head(q), Tail(q)[1])
             /\ Head(q) \in NotLast => Tail(q) # <<>>
             /\ Tail(q) # <<>> => Head(Tail(q)) = Tail(q)[1] /\ Tail(q)[1] \in Range(Tail(q))
  <2>1. /\ Tail(q) \in Seq(ToSteps) /\ Ordered(Tail(q)) /\ Head(q) = q[1]
        /\ Range(q) = {Head(q)} \cup Range(Tail(q))
        /\ Tail(q) # <<>> => Follows(Head(q), Tail(q)[1])
        /\ Head(q) \in NotLast => Tail(q) # <<>>
    BY <1>1, Rest
  <2> QED
    BY <2>1, Elements
<1>2. ASSUME NEW q \in Seq(ToSteps), q # <<>>, Ordered(q), Head(q) = "delete_secret_id"
      PROVE  "write_secret_id" \in Range(Tail(q))
  BY <1>1, <1>2 DEF Follows, NotLast
<1>3. ASSUME NEW q \in Seq(ToSteps), q # <<>>, Ordered(q), Head(q) = "write_role_id"
      PROVE  "write_secret_id" \in Range(Tail(q))
  <2>1. Tail(q) \in Seq(ToSteps) /\ Ordered(Tail(q)) /\ Tail(q) # <<>>
        /\ Head(Tail(q)) = "delete_secret_id"
    BY <1>1, <1>3 DEF Follows, NotLast
  <2> QED
    BY <1>1, <1>2, <2>1
<1>4. ASSUME Head(p) = "delete_role_id"
      PROVE  "write_secret_id" \in Range(Tail(p)) /\ "write_role_id" \in Range(Tail(p))
  <2>1. /\ Tail(p) \in Seq(ToSteps) /\ Ordered(Tail(p)) /\ Tail(p) # <<>>
        /\ Head(Tail(p)) = "write_role_id"
    BY <1>1, <1>4 DEF Follows, NotLast
  <2> QED
    BY <1>1, <1>3, <2>1
<1>5. ASSUME Head(p) = "write_secret_id"
      PROVE  "write_secret_id" \notin Range(Tail(p))
  <2>1. /\ Tail(p) \in Seq(ToSteps) /\ Ordered(Tail(p)) /\ Tail(p) # <<>>
        /\ Head(Tail(p)) = "revoke"
    BY <1>1, <1>5 DEF Follows, NotLast
  <2>2. Tail(Tail(p)) = <<>>
    BY <1>1, <2>1 DEF Follows
  <2>3. Range(Tail(p)) = {"revoke"} \cup Range(<<>>) /\ Range(<<>>) = {}
    <3>1. Range(Tail(p)) = {Head(Tail(p))} \cup Range(Tail(Tail(p)))
      BY <1>1, <2>1
    <3> QED
      BY <2>1, <2>2, <3>1 DEF Range
  <2> QED
    BY <2>3
<1> QED
  BY <1>2, <1>3, <1>4, <1>5

\* The files that a command replaces, and with what.
LEMMA ReplaceIs ==
    ASSUME Inv, NEW s \in Starts, MayReplace(s)
    PROVE  LET step == Head(start[s].plan)
           IN  /\ Running(s) /\ FileOf(step) \in File
               /\ Value(s, FileOf(step)) \in {"stale", "ours"}
               /\ FileOf(step) = "codes" => step \in {"delete_codes", "write_codes"}
               /\ FileOf(step) = "role_id" => step \in {"delete_role_id", "write_role_id"}
               /\ FileOf(step) = "secret_id" => step \in {"delete_secret_id", "write_secret_id"}
               /\ FileOf(step) # "codes" =>
                      /\ Value(s, FileOf(step)) = "ours" /\ start[s].admin_token = "root"
                      /\ "write_secret_id" \in Range(start[s].plan)
<1> DEFINE step == Head(start[s].plan)
<1>1. /\ Running(s) /\ step \in Deletes \cup Writes /\ Value(s, FileOf(step)) # "none"
      /\ start[s] \in Contexts /\ start[s].plan \in Seq(ToSteps)
      /\ start[s].minted => start[s].admin_token = "root"
  BY TypedFacts DEF MayReplace, Inv, Typed, ContextsTyped
<1>2. /\ step \in {"delete_codes", "write_codes"} => FileOf(step) = "codes"
      /\ step \in {"delete_role_id", "write_role_id"} => FileOf(step) = "role_id"
      /\ step \in {"delete_secret_id", "write_secret_id"} => FileOf(step) = "secret_id"
      /\ step \in {"delete_codes", "write_codes", "delete_role_id", "write_role_id",
                   "delete_secret_id", "write_secret_id"}
  BY <1>1 DEF FileOf, Deletes, Writes
<1>3. /\ start[s].plan # <<>> /\ Ordered(start[s].plan)
      /\ Range(start[s].plan) = {step} \cup Range(Tail(start[s].plan))
  BY <1>1, First
<1>4. FileOf(step) # "codes" => "write_secret_id" \in Range(start[s].plan)
  BY <1>1, <1>2, <1>3, Leads
<1>5. Value(s, FileOf(step)) \in {"stale", "ours"}
      /\ (FileOf(step) # "codes" => Value(s, FileOf(step)) = "ours" /\ start[s].admin_token = "root")
  BY <1>1 DEF Value, Contexts
<1> QED
  BY <1>1, <1>2, <1>4, <1>5 DEF File

LEMMA ReplaceInv ==
    ASSUME Inv, NEW s \in Starts, Replace(s)
    PROVE  Inv'
<1> DEFINE p == start[s].plan
           step == Head(p)
           content == IF step \in Deletes THEN "none" ELSE Value(s, FileOf(step))
<1>1. /\ MayReplace(s) /\ files' = [files EXCEPT ![FileOf(step)] = content]
      /\ Becomes(s, Step(s))
      /\ UNCHANGED <<seal, installed, policy, root_token, faults, restarts>>
  BY DEF Replace
<1>2. /\ Running(s) /\ FileOf(step) \in File /\ content \in {"none", "stale", "ours"}
      /\ FileOf(step) = "codes" => step \in {"delete_codes", "write_codes"}
      /\ FileOf(step) = "role_id" => step \in {"delete_role_id", "write_role_id"}
      /\ FileOf(step) = "secret_id" => step \in {"delete_secret_id", "write_secret_id"}
      /\ FileOf(step) # "codes" =>
             /\ start[s].admin_token = "root" /\ "write_secret_id" \in Range(p)
             /\ step \in Writes => content = "ours"
             /\ step \in Deletes => content = "none"
  BY <1>1, ReplaceIs DEF Deletes, Writes
<1> HIDE DEF content
<1>3. /\ files' \in [File -> Contents]
      /\ \A f \in File : files'[f] = IF f = FileOf(step) THEN content ELSE files[f]
  BY <1>1, <1>2 DEF Inv, Typed, Contents
<1>4. Credentials = {"role_id", "secret_id"} /\ File = {"codes", "role_id", "secret_id"}
  BY DEF Credentials, File
<1>5. CASE FileOf(step) = "codes"
  <2>1. /\ \A f \in Credentials : files'[f] = files[f]
        /\ step \notin {"login", "write_role_id", "write_secret_id", "revoke"} \cup Installed
    BY <1>2, <1>3, <1>4, <1>5 DEF Installed, Pieces, Mounts
  <2>2. ContextsTyped' /\ PlansInHand' /\ LoginInHand'
    BY <1>1, <1>2, <2>1, StepIs, MovesOn
  <2> QED
    BY <1>1, <1>3, <2>2, InvFrom DEF Inv, Typed
<1>6. CASE FileOf(step) # "codes"
  <2>1. /\ p \in Seq(ToSteps) /\ p # <<>> /\ Ordered(p) /\ Ordered(Tail(p))
        /\ start[s].phase = "running" /\ Administers(s)
        /\ Range(p) = {step} \cup Range(Tail(p))
        /\ Tail(p) # <<>> => Tail(p)[1] # "login"
        /\ Installed \subseteq installed \cup Range(p)
    BY <1>2, First, TypedFacts DEF Follows, Inv
  <2>2. /\ step \in {"delete_role_id", "write_role_id", "delete_secret_id"} =>
                  "write_secret_id" \in Range(Tail(p))
        /\ step = "delete_role_id" => "write_role_id" \in Range(Tail(p))
        /\ step = "write_secret_id" => "write_secret_id" \notin Range(Tail(p))
    BY <2>1, Leads
  <2>3. ContextsTyped' /\ start'[s] = Step(s) /\ \A t \in Starts : t # s => start'[t] = start[t]
    BY <1>1, <1>2, StepIs, Becoming DEF Inv, Typed
  <2>4. Step(s).plan = Tail(p) /\ Step(s).admin_token = "root" /\ Step(s).phase = "running"
    BY <1>2, <1>6, StepIs
  <2>5. step \notin Installed
    BY <1>2, <1>4, <1>6 DEF Installed, Pieces, Mounts
  <2>6. PlansInHand'
    BY <1>1, <2>1, <2>3, <2>4, <2>5, PlansKept
  <2>7. \A t \in Starts : t # s /\ start'[t].phase = "running" => Administers(t)'
    BY <1>1, <1>2, <1>6, <2>1, <2>3, Others
  <2>8. /\ files'["role_id"] = "ours" \/ "write_role_id" \in Range(Tail(p))
        /\ files'["secret_id"] = "ours" \/ "write_secret_id" \in Range(Tail(p))
        /\ "write_secret_id" \in Range(Tail(p)) => files'["secret_id"] # "ours"
    BY <1>2, <1>3, <1>4, <1>6, <2>1, <2>2 DEF Administers, Deletes, Writes
  <2>9. seal # "uninitialized" /\ \A t \in Starts : start[t].admin_token = "root" => t = s
    BY <1>2, <1>6, <2>1 DEF Administers
  <2>10. \A t \in Starts : start'[t].admin_token = "root" => t = s
    BY <2>3, <2>9
  <2>11. Administers(s)'
    BY <1>1, <2>1, <2>3, <2>4, <2>8, <2>9, <2>10 DEF Administers
  <2>12. LoginInHand'
    BY <1>1, <2>7, <2>9, <2>11 DEF LoginInHand
  <2> QED
    BY <1>1, <1>3, <2>3, <2>6, <2>12, InvFrom DEF Inv, Typed
<1> QED
  BY <1>5, <1>6

LEMMA EndsInv ==
    ASSUME Inv, NEW s \in Starts, Begin(s) \/ NoPlan(s) \/ Done(s) \/ Refused(s)
    PROVE  Inv'
<1>1. ASSUME Begin(s)
      PROVE  ContextsTyped' /\ PlansInHand' /\ LoginInHand'
  <2> DEFINE new == [Idle EXCEPT !.phase = "observing", !.available = available,
                                 !.has_codes = files["codes"] # "none"]
  <2>1. Becomes(s, new) /\ UNCHANGED <<seal, installed, files>>
    BY <1>1 DEF Begin
  <2>2. <<>> \in Seq(ToSteps) /\ available \in BOOLEAN
    BY DEF available
  <2>3. /\ new \in Contexts /\ new.phase # "running" /\ ~new.minted
        /\ new.plan = <<>> /\ new.unseal_codes = "none" /\ new.admin_token = "none"
    BY <2>2 DEF Idle, Contexts
  <2> HIDE DEF new
  <2> QED
    BY <2>1, <2>3, Stands
<1>2. ASSUME NEW phase \in {"ok", "failed"}, End(s, phase), UNCHANGED <<seal, installed, files>>
      PROVE  ContextsTyped' /\ PlansInHand' /\ LoginInHand'
  <2> DEFINE new == [Idle EXCEPT !.phase = phase]
  <2>1. Becomes(s, new)
    BY <1>2 DEF End
  <2>2. phase \in {"idle", "observing", "ok", "failed"} /\ phase # "running"
    OBVIOUS
  <2>3. /\ new \in Contexts /\ new.phase = phase /\ ~new.minted
        /\ new.plan = <<>> /\ new.unseal_codes = "none" /\ new.admin_token = "none"
    BY <2>2, IdleTyped
  <2> HIDE DEF new
  <2> QED
    BY <1>2, <2>1, <2>2, <2>3, Stands
<1>3. UNCHANGED <<seal, installed, policy, root_token, files, faults, restarts>>
  BY DEF Begin, NoPlan, Done, Refused
<1>4. Begin(s) \/ \E phase \in {"ok", "failed"} : End(s, phase)
  BY DEF NoPlan, Done, Refused
<1>5. ContextsTyped' /\ PlansInHand' /\ LoginInHand'
  BY <1>1, <1>2, <1>3, <1>4
<1> QED
  BY <1>3, <1>5, InvFrom DEF Inv, Typed

LEMMA FailsInv ==
    ASSUME Inv, NEW s \in Starts, Fails(s)
    PROVE  Inv'
<1> DEFINE new == [Idle EXCEPT !.phase = "failed"]
           step == Head(start[s].plan)
<1>1. /\ Becomes(s, new) /\ faults < MaxFaults /\ faults' = faults + 1
      /\ \/ files' = files
         \/ MayReplace(s) /\ files' = [files EXCEPT ![FileOf(step)] = "torn"]
      /\ UNCHANGED <<seal, installed, policy, root_token, restarts>>
  BY DEF Fails, End
<1>2. /\ new \in Contexts /\ new.phase # "running" /\ ~new.minted
      /\ new.plan = <<>> /\ new.unseal_codes = "none" /\ new.admin_token = "none"
  BY IdleTyped
<1> HIDE DEF new
<1>3. /\ files' \in [File -> Contents]
      /\ \/ \A f \in Credentials : files'[f] = files[f]
         \/ /\ start[s].phase = "running" /\ start[s].admin_token = "root"
            /\ "write_secret_id" \in Range(start[s].plan)
  <2>1. CASE files' = files
    BY <2>1 DEF Inv, Typed
  <2>2. CASE MayReplace(s) /\ files' = [files EXCEPT ![FileOf(step)] = "torn"]
    <3>1. /\ FileOf(step) \in File /\ start[s].phase = "running"
          /\ FileOf(step) # "codes" =>
                 start[s].admin_token = "root" /\ "write_secret_id" \in Range(start[s].plan)
      BY <2>2, ReplaceIs DEF Running
    <3>2. files' \in [File -> Contents]
          /\ \A f \in File : f # FileOf(step) => files'[f] = files[f]
      BY <2>2, <3>1 DEF Inv, Typed, Contents
    <3>3. Credentials \subseteq File /\ "codes" \notin Credentials
      BY DEF Credentials, File
    <3> QED
      BY <3>1, <3>2, <3>3
  <2> QED
    BY <1>1, <2>1, <2>2
<1>4. ContextsTyped' /\ PlansInHand' /\ LoginInHand'
  BY <1>1, <1>2, <1>3, Stands
<1>5. faults' \in 0..MaxFaults
  BY <1>1, OpenBaoAssumption DEF Inv, Typed
<1> QED
  BY <1>1, <1>3, <1>4, <1>5, InvFrom DEF Inv, Typed

LEMMA RestartsInv ==
    ASSUME Inv, Restarts
    PROVE  Inv'
<1>1. /\ seal = "unsealed" /\ seal' = "sealed" /\ restarts' = restarts + 1 /\ restarts < MaxRestarts
      /\ UNCHANGED <<installed, policy, root_token, files, start, faults>>
  BY DEF Restarts
<1>2. ContextsTyped' /\ PlansInHand'
  BY <1>1 DEF Inv, Typed, ContextsTyped, PlansInHand
<1>3. \A s \in Starts : Administers(s) => Administers(s)'
  BY <1>1 DEF Administers
<1>4. LoginInHand'
  BY <1>1, <1>3 DEF Inv, LoginInHand
<1>5. restarts' \in 0..MaxRestarts
  BY <1>1, OpenBaoAssumption DEF Inv, Typed
<1> QED
  BY <1>1, <1>2, <1>4, <1>5, InvFrom DEF Inv, Typed

\* A start that has looked, and plans or is done.
LEMMA PlanIs ==
    ASSUME Inv, NEW s \in Starts, Plan(s)
    PROVE  \E found \in SUBSET installed :
             LET plan == create_plan(s, found)
             IN  /\ start[s].phase = "observing" /\ HasPlan(s)
                 /\ faults' \in 0..MaxFaults
                 /\ IF plan = <<>> THEN End(s, "ok")
                    ELSE Becomes(s, [start[s] EXCEPT !.phase = "running", !.plan = plan])
                 /\ UNCHANGED <<seal, installed, policy, root_token, files, restarts>>
                 /\ plan \in Seq(ToSteps) /\ Ordered(plan)
                 /\ Installed \subseteq installed \cup Range(plan)
                 /\ plan = <<>> => seal = "unsealed"
                 /\ plan # <<>> => plan[1] = "login" \/ "revoke" \in Range(plan)
<1>1. PICK missed \in {{}} \cup Misses :
        LET found == (installed \ missed)
                       \ (IF "managed_secrets" \in missed THEN {"managed_configured"} ELSE {})
            plan == create_plan(s, found)
        IN /\ missed # {} => seal = "unsealed" /\ faults < MaxFaults
           /\ faults' = faults + (IF missed # {} THEN 1 ELSE 0)
           /\ IF plan = <<>> THEN End(s, "ok")
              ELSE Becomes(s, [start[s] EXCEPT !.phase = "running", !.plan = plan])
  BY DEF Plan
<1> DEFINE found == (installed \ missed)
                      \ (IF "managed_secrets" \in missed THEN {"managed_configured"} ELSE {})
           plan == create_plan(s, found)
           chain(first) == <<first, "unseal">> \o RecordSecrets \o SetUp
<1>2. /\ missed # {} => faults < MaxFaults
      /\ faults' = faults + (IF missed # {} THEN 1 ELSE 0)
      /\ IF plan = <<>> THEN End(s, "ok")
         ELSE Becomes(s, [start[s] EXCEPT !.phase = "running", !.plan = plan])
  BY <1>1
<1>3. found \in SUBSET installed
  OBVIOUS
<1> HIDE DEF found
<1>4. plan = CASE seal = "uninitialized" -> chain("initialize")
               [] seal = "sealed" -> chain("load")
               [] OTHER -> TopUp(found)
  BY DEF create_plan
<1>5. ASSUME NEW first \in {"initialize", "load"}
      PROVE  /\ chain(first) \in Seq(ToSteps) /\ Ordered(chain(first)) /\ chain(first) # <<>>
             /\ Installed \subseteq Range(chain(first)) /\ "revoke" \in Range(chain(first))
  BY ChainIs
<1>6. /\ TopUp(found) \in Seq(ToSteps) /\ Ordered(TopUp(found))
      /\ TopUp(found) # <<>> => TopUp(found)[1] = "login"
      /\ Installed \subseteq found \cup Range(TopUp(found))
  BY TopUpIs
<1> HIDE DEF chain
<1>7. /\ plan \in Seq(ToSteps) /\ Ordered(plan)
      /\ Installed \subseteq installed \cup Range(plan)
      /\ plan = <<>> => seal = "unsealed"
      /\ plan # <<>> => plan[1] = "login" \/ "revoke" \in Range(plan)
  <2> HIDE DEF plan
  <2>1. CASE seal = "uninitialized"
    BY <1>4, <1>5, <2>1
  <2>2. CASE seal = "sealed"
    BY <1>4, <1>5, <2>2
  <2>3. CASE seal = "unsealed"
    BY <1>3, <1>4, <1>6, <2>3
  <2> QED
    BY <2>1, <2>2, <2>3 DEF Inv, Typed
<1>8. faults' \in 0..MaxFaults
  BY <1>2, OpenBaoAssumption DEF Inv, Typed
<1>9. /\ start[s].phase = "observing" /\ HasPlan(s)
      /\ UNCHANGED <<seal, installed, policy, root_token, files, restarts>>
  BY DEF Plan
<1> HIDE DEF plan
<1>10. WITNESS found \in SUBSET installed
<1> QED
  BY <1>2, <1>7, <1>8, <1>9 DEF plan

LEMMA PlanInv ==
    ASSUME Inv, NEW s \in Starts, Plan(s)
    PROVE  Inv'
<1>1. PICK found \in SUBSET installed :
        LET plan == create_plan(s, found)
        IN  /\ start[s].phase = "observing" /\ HasPlan(s)
            /\ faults' \in 0..MaxFaults
            /\ IF plan = <<>> THEN End(s, "ok")
               ELSE Becomes(s, [start[s] EXCEPT !.phase = "running", !.plan = plan])
            /\ UNCHANGED <<seal, installed, policy, root_token, files, restarts>>
            /\ plan \in Seq(ToSteps) /\ Ordered(plan)
            /\ Installed \subseteq installed \cup Range(plan)
            /\ plan = <<>> => seal = "unsealed"
            /\ plan # <<>> => plan[1] = "login" \/ "revoke" \in Range(plan)
  BY PlanIs
<1> DEFINE plan == create_plan(s, found)
<1>2. /\ start[s].phase = "observing"
      /\ faults' \in 0..MaxFaults
      /\ IF plan = <<>> THEN End(s, "ok")
         ELSE Becomes(s, [start[s] EXCEPT !.phase = "running", !.plan = plan])
      /\ UNCHANGED <<seal, installed, policy, root_token, files, restarts>>
      /\ plan \in Seq(ToSteps) /\ Ordered(plan)
      /\ Installed \subseteq installed \cup Range(plan)
      /\ plan # <<>> => plan[1] = "login" \/ "revoke" \in Range(plan)
  BY <1>1
<1> HIDE DEF plan
<1>3. CASE plan = <<>>
  <2> DEFINE new == [Idle EXCEPT !.phase = "ok"]
  <2>1. Becomes(s, new)
    BY <1>2, <1>3 DEF End
  <2>2. /\ new \in Contexts /\ new.phase # "running" /\ ~new.minted
        /\ new.plan = <<>> /\ new.unseal_codes = "none" /\ new.admin_token = "none"
    BY IdleTyped
  <2> HIDE DEF new
  <2>3. ContextsTyped' /\ PlansInHand' /\ LoginInHand'
    BY <1>2, <2>1, <2>2, Stands
  <2> QED
    BY <1>2, <2>3, InvFrom DEF Inv, Typed
<1>4. CASE plan # <<>>
  <2> DEFINE new == [start[s] EXCEPT !.phase = "running", !.plan = plan]
  <2>1. Becomes(s, new)
    BY <1>2, <1>4
  <2>2. /\ start[s] \in Contexts /\ start[s].admin_token = "none" /\ start[s].unseal_codes = "none"
        /\ ~start[s].minted
    BY <1>2, TypedFacts DEF Inv, Typed, ContextsTyped
  <2>3. /\ new \in Contexts /\ new.phase = "running" /\ new.plan = plan
        /\ new.admin_token = "none" /\ ~new.minted
    BY <1>2, <2>2 DEF Contexts
  <2> HIDE DEF new
  <2>4. ContextsTyped' /\ start'[s] = new /\ \A t \in Starts : t # s => start'[t] = start[t]
    BY <2>1, <2>3, Becoming DEF Inv, Typed
  <2>5. PlansInHand'
    BY <1>2, <2>3, <2>4, PlansKept
  <2>6. \A t \in Starts : t # s /\ start'[t].phase = "running" => Administers(t)'
    BY <1>2, <2>3, <2>4, Others
  <2>7. Administers(s)'
    BY <1>2, <1>4, <2>3, <2>4 DEF Administers
  <2>8. LoginInHand'
    BY <1>2, <2>6, <2>7 DEF Inv, LoginInHand
  <2> QED
    BY <1>2, <2>4, <2>5, <2>8, InvFrom DEF Inv, Typed
<1> QED
  BY <1>3, <1>4

LEMMA InitInv == Init => Inv
<1> SUFFICES ASSUME Init PROVE Inv
  OBVIOUS
<1>1. /\ seal \in {"uninitialized", "sealed", "unsealed"} /\ installed \subseteq Pieces
      /\ policy \subseteq Pieces /\ root_token \in {"none", "live", "revoked"}
      /\ files \in [File -> Contents] /\ (seal = "uninitialized" => files["secret_id"] # "ours")
  <2>1. \A setup \in Earlier : setup \subseteq Pieces /\ Granted(setup) \subseteq Pieces
    BY OpenBaoAssumption DEF Granted, Pieces, Mounts, Certificates
  <2>2. "secret_id" \in File /\ {"none", "stale", "ours"} \subseteq Contents
    BY DEF File, Contents
  <2> QED
    BY <2>1, <2>2 DEF Init
<1>2. Idle \in Contexts /\ Idle.phase = "idle" /\ Idle.plan = <<>> /\ Idle.unseal_codes = "none"
      /\ Idle.admin_token = "none" /\ ~Idle.minted
  <2>1. <<>> \in Seq(ToSteps)
    OBVIOUS
  <2> QED
    BY <2>1 DEF Idle, Contexts
<1>3. start \in [Starts -> Contexts] /\ \A s \in Starts : start[s] = Idle
  BY <1>2 DEF Init
<1>4. faults \in 0..MaxFaults /\ restarts \in 0..MaxRestarts
  BY OpenBaoAssumption DEF Init
<1>5. Ordered(<<>>)
  BY DEF Ordered
<1>6. Typed
  BY <1>1, <1>2, <1>3, <1>4 DEF Typed, ContextsTyped
<1> QED
  BY <1>1, <1>2, <1>3, <1>5, <1>6 DEF Inv, PlansInHand, LoginInHand

LEMMA NextInv == Inv /\ [Next]_vars => Inv'
<1> SUFFICES ASSUME Inv, [Next]_vars PROVE Inv'
  OBVIOUS
<1>1. CASE UNCHANGED vars
  BY <1>1 DEF vars, Inv, Typed, ContextsTyped, PlansInHand, LoginInHand, Administers
<1>2. ASSUME NEW s \in Starts, Command(s) PROVE Inv'
  BY <1>2, InitializeInv, LoadInv, UnsealInv, ReplaceInv, LoginInv, SetUpInv, MintInv, RevokeInv
     DEF Command
<1>3. ASSUME NEW s \in Starts, Goes(s) \/ Fails(s) PROVE Inv'
  BY <1>2, <1>3, EndsInv, PlanInv, FailsInv DEF Goes
<1> QED
  BY <1>1, <1>3, RestartsInv DEF Next

-----------------------------------------------------------------------------
(* Theorems *)

\* Every type, in every reachable state: a plan is made of known commands, and a minted login
\* is in the hands of the holder of the root token.
THEOREM TypeCorrect == Spec => []TypeOK
<1>1. Inv => TypeOK
  BY TypedFacts DEF Inv
<1> QED
  BY <1>1, InitInv, NextInv, PTL DEF Spec

\* A command takes the first of its start's plan, which runs on.
LEMMA CommandIs ==
    ASSUME Inv, NEW s \in Starts, Command(s)
    PROVE  /\ Running(s)
           /\ start'[s].phase = "running" /\ start'[s].plan = Tail(start[s].plan)
           /\ \A t \in Starts : t # s => start'[t] = start[t]
           /\ Head(start[s].plan) \in Window => Unseal(s) \/ Replace(s)
           /\ seal = "uninitialized" /\ seal' # "uninitialized" => Initialize(s)
           /\ files' # files => Replace(s)
<1> DEFINE step == Head(start[s].plan)
           Moves == /\ start'[s].phase = "running" /\ start'[s].plan = Tail(start[s].plan)
                    /\ \A t \in Starts : t # s => start'[t] = start[t]
<1>1. start \in [Starts -> Contexts]
  BY DEF Inv, Typed, ContextsTyped
<1>2. ASSUME Initialize(s)
      PROVE  Running(s) /\ Moves /\ step = "initialize" /\ files' = files
  <2>1. Running(s) /\ step = "initialize" /\ files' = files
        /\ start' = [start EXCEPT ![s] = [Step(s) EXCEPT !.unseal_codes = "ours", !.admin_token = "root"]]
    BY <1>2 DEF Initialize, MayInitialize, At, Becomes
  <2> QED
    BY <1>1, <2>1, StepIs DEF Contexts
<1>3. ASSUME LoadUnsealCodes(s)
      PROVE  Running(s) /\ Moves /\ step = "load" /\ files' = files /\ seal' = seal
  <2>1. Running(s) /\ step = "load" /\ files' = files /\ seal' = seal
        /\ start' = [start EXCEPT ![s] = [Step(s) EXCEPT !.unseal_codes = files["codes"]]]
    BY <1>3 DEF LoadUnsealCodes, MayLoad, At, Becomes
  <2> QED
    BY <1>1, <2>1, StepIs DEF Contexts
<1>4. ASSUME LoginAsDouglas(s)
      PROVE  Running(s) /\ Moves /\ step = "login" /\ files' = files /\ seal' = seal
  <2>1. Running(s) /\ step = "login" /\ files' = files /\ seal' = seal
        /\ start' = [start EXCEPT ![s] = [Step(s) EXCEPT !.admin_token = "douglas"]]
    BY <1>4 DEF LoginAsDouglas, At, Becomes
  <2> QED
    BY <1>1, <2>1, StepIs DEF Contexts
<1>5. ASSUME CreateDouglasAppRoleSecret(s)
      PROVE  Running(s) /\ Moves /\ step = "mint" /\ files' = files /\ seal' = seal
  <2>1. Running(s) /\ step = "mint" /\ files' = files /\ seal' = seal
        /\ start' = [start EXCEPT ![s] = [Step(s) EXCEPT !.minted = TRUE]]
    BY <1>5 DEF CreateDouglasAppRoleSecret, MayMint, At, Becomes
  <2> QED
    BY <1>1, <2>1, StepIs DEF Contexts
<1>6. ASSUME Running(s), Becomes(s, Step(s))
      PROVE  Moves
  BY <1>1, <1>6, StepIs DEF Becomes
<1>7. ASSUME Unseal(s)
      PROVE  Running(s) /\ Moves /\ files' = files /\ seal # "uninitialized"
  BY <1>6, <1>7 DEF Unseal, MayUnseal, At
<1>8. ASSUME Replace(s)
      PROVE  Running(s) /\ Moves /\ seal' = seal
  BY <1>6, <1>8 DEF Replace, MayReplace
<1>9. ASSUME NEW piece \in Pieces, Installs(s, piece)
      PROVE  Running(s) /\ Moves /\ step = piece /\ files' = files /\ seal' = seal
  BY <1>6, <1>9 DEF Installs, MayInstall, At
<1>10. ASSUME RevokeAdminToken(s)
       PROVE  Running(s) /\ Moves /\ step = "revoke" /\ files' = files /\ seal' = seal
  BY <1>6, <1>10 DEF RevokeAdminToken, At
<1>11. \/ Initialize(s) \/ LoadUnsealCodes(s) \/ Unseal(s) \/ Replace(s) \/ LoginAsDouglas(s)
       \/ CreateDouglasAppRoleSecret(s) \/ RevokeAdminToken(s)
       \/ \E piece \in Pieces : Installs(s, piece)
  <2>1. Mounts \cup {"managed_configured", "ca", "issuing_crl", "cluster_path", "acme",
                     "acme_role", "app_role", "douglas_policy", "douglas_role"} = Pieces
    BY DEF Pieces
  <2> QED
    BY <2>1 DEF Command, Mount, ConfigureManagedSecrets, GenerateRootCA, SetIssuingCRL,
                ConfigureClusterPath, EnableAcme, CreateAcmePkiRole, EnableAppRoleAuth,
                CreateDouglasAppRolePolicy
<1>12. ({"initialize", "load", "login", "mint", "revoke"} \cup Pieces) \cap Window = {}
  BY DEF Pieces, Mounts, Window
<1> HIDE DEF Moves, step
<1>13. Running(s) /\ Moves
  BY <1>2, <1>3, <1>4, <1>5, <1>7, <1>8, <1>9, <1>10, <1>11
<1>14. step \in Window => Unseal(s) \/ Replace(s)
  BY <1>2, <1>3, <1>4, <1>5, <1>9, <1>10, <1>11, <1>12
<1>15. seal = "uninitialized" /\ seal' # "uninitialized" => Initialize(s)
  BY <1>3, <1>4, <1>5, <1>7, <1>8, <1>9, <1>10, <1>11
<1>16. files' # files => Replace(s)
  BY <1>2, <1>3, <1>4, <1>5, <1>7, <1>9, <1>10, <1>11
<1> QED
  BY <1>13, <1>14, <1>15, <1>16 DEF Moves, step

\* Who else's step it is, a start stays as it was; and how it gets to its end.
LEMMA OneMoves ==
    ASSUME Inv, NEW s \in Starts, Goes(s) \/ Fails(s)
    PROVE  /\ \A t \in Starts : t # s => start'[t] = start[t]
           /\ start'[s].phase = "ok" /\ start[s].phase # "ok" => Done(s) \/ Plan(s)
<1>1. start \in [Starts -> Contexts]
  BY DEF Inv, Typed, ContextsTyped
<1>2. ASSUME Begin(s)
      PROVE  (\A t \in Starts : t # s => start'[t] = start[t]) /\ start'[s].phase = "observing"
  BY <1>1, <1>2 DEF Begin, Becomes, Idle
<1>3. ASSUME NEW phase \in {"ok", "failed"}, End(s, phase)
      PROVE  (\A t \in Starts : t # s => start'[t] = start[t]) /\ start'[s].phase = phase
  BY <1>1, <1>3 DEF End, Becomes, Idle
<1>4. ASSUME Plan(s)
      PROVE  \A t \in Starts : t # s => start'[t] = start[t]
  BY <1>1, <1>4 DEF Plan, End, Becomes
<1>5. NoPlan(s) \/ Refused(s) \/ Fails(s) => End(s, "failed")
  BY DEF NoPlan, Refused, Fails
<1>6. Done(s) => End(s, "ok")
  BY DEF Done
<1> QED
  BY <1>2, <1>3, <1>4, <1>5, <1>6, CommandIs DEF Goes

\* The next command of a start that holds the codes of this OpenBao records them.
LEMMA StillRecords ==
    ASSUME Inv, NEW s \in Starts, Running(s),
           Head(start[s].plan) \in {"initialize", "unseal", "delete_codes"},
           start'[s].phase = "running", start'[s].plan = Tail(start[s].plan),
           start'[s].unseal_codes = "ours"
    PROVE  AboutToRecord(s)'
<1>1. /\ start[s].plan \in Seq(ToSteps) /\ start[s].plan # <<>>
      /\ Tail(start[s].plan) # <<>>
      /\ Follows(Head(start[s].plan), Tail(start[s].plan)[1])
  BY First, TypedFacts DEF Inv, NotLast
<1>2. Head(Tail(start[s].plan)) = Tail(start[s].plan)[1]
  BY <1>1
<1>3. Tail(start[s].plan)[1] \in Window
  BY <1>1 DEF Follows, Window
<1> QED
  BY <1>1, <1>2, <1>3 DEF AboutToRecord, At, Running

WindowStep ==
    Held /\ ~Held' =>
       \E s \in Starts : \/ AboutToRecord(s) /\ Fails(s)
                         \/ /\ At(s, "delete_codes") \/ At(s, "write_codes")
                            /\ start[s].unseal_codes = "stale"

\* The step of one start that loses the codes is in the window, or records stale ones.
LEMMA LosesInTheWindow ==
    ASSUME Inv, NEW s \in Starts, Goes(s) \/ Fails(s), Held, ~Held'
    PROVE  \/ AboutToRecord(s) /\ Fails(s)
           \/ /\ At(s, "delete_codes") \/ At(s, "write_codes")
              /\ start[s].unseal_codes = "stale"
<1> DEFINE step == Head(start[s].plan)
<1>1. /\ seal' # "uninitialized" /\ files'["codes"] # "ours" /\ ~AboutToRecord(s)'
      /\ \A t \in Starts : t # s => ~AboutToRecord(t)
  <2>1. \A t \in Starts : t # s => (AboutToRecord(t)' <=> AboutToRecord(t))
    BY OneMoves DEF AboutToRecord, At, Running
  <2> QED
    BY <2>1 DEF Held
<1>2. ~Fails(s) => UNCHANGED <<seal, files>> \/ Command(s)
  BY DEF Goes, Begin, NoPlan, Plan, Done, Refused
<1>3. seal # "uninitialized"
  <2> SUFFICES ASSUME seal = "uninitialized" PROVE FALSE
    OBVIOUS
  <2>1. Command(s)
    BY <1>1, <1>2 DEF Fails
  <2>2. Initialize(s)
    BY <1>1, <2>1, CommandIs
  <2>3. Running(s) /\ step = "initialize"
    BY <2>2 DEF Initialize, MayInitialize, At
  <2>4. start'[s].unseal_codes = "ours"
    <3>1. start' = [start EXCEPT ![s] = [Step(s) EXCEPT !.unseal_codes = "ours", !.admin_token = "root"]]
      BY <2>2 DEF Initialize, Becomes
    <3> QED
      BY <2>3, <3>1, StepIs DEF Contexts, Inv, Typed, ContextsTyped
  <2>5. AboutToRecord(s)'
    BY <2>1, <2>3, <2>4, CommandIs, StillRecords
  <2> QED
    BY <1>1, <2>5
<1>4. ASSUME Replace(s), FileOf(step) = "codes"
      PROVE  /\ At(s, "delete_codes") \/ At(s, "write_codes")
             /\ start[s].unseal_codes = "stale"
  <2>1. /\ MayReplace(s) /\ Becomes(s, Step(s))
        /\ files' = [files EXCEPT !["codes"] =
                       IF step \in Deletes THEN "none" ELSE Value(s, "codes")]
    BY <1>4 DEF Replace
  <2>2. /\ Running(s) /\ start[s].unseal_codes \in {"stale", "ours"}
        /\ step \in {"delete_codes", "write_codes"}
    BY <1>4, <2>1, ReplaceIs DEF Value
  <2>3. start[s].unseal_codes # "ours"
    <3> SUFFICES ASSUME start[s].unseal_codes = "ours" PROVE FALSE
      OBVIOUS
    <3>1. step # "write_codes"
      <4>1. "codes" \in File /\ files \in [File -> Contents]
        BY DEF File, Inv, Typed
      <4> QED
        BY <1>1, <2>1, <4>1 DEF Deletes, Value
    <3>2. /\ start'[s].phase = "running" /\ start'[s].plan = Tail(start[s].plan)
          /\ start'[s].unseal_codes = "ours"
      BY <2>1, <2>2, StepIs, Becoming DEF Inv, Typed
    <3> QED
      BY <1>1, <2>2, <3>1, <3>2, StillRecords
  <2> QED
    BY <2>2, <2>3 DEF At
<1>5. CASE Fails(s)
  <2>1. CASE AboutToRecord(s)
    BY <1>5, <2>1
  <2>2. CASE ~AboutToRecord(s)
    <3>1. files["codes"] = "ours"
      BY <1>1, <1>3, <2>2 DEF Held
    <3>2. MayReplace(s) /\ files' = [files EXCEPT ![FileOf(step)] = "torn"] /\ step \in Writes
      BY <1>1, <1>5, <3>1 DEF Fails
    <3>3. FileOf(step) = "codes"
      <4>1. FileOf(step) \in File /\ "codes" \in File
        BY <3>2, ReplaceIs DEF File
      <4> QED
        BY <1>1, <3>1, <3>2, <4>1 DEF Inv, Typed
    <3>4. Running(s) /\ start[s].unseal_codes \in {"stale", "ours"} /\ step = "write_codes"
      BY <3>2, <3>3, ReplaceIs DEF Value, Writes
    <3>5. start[s].unseal_codes # "ours"
      BY <2>2, <3>4 DEF AboutToRecord, At, Window
    <3> QED
      BY <3>4, <3>5 DEF At
  <2> QED
    BY <2>1, <2>2
<1>6. CASE ~Fails(s) /\ files'["codes"] # files["codes"]
  <2>1. Replace(s)
    BY <1>2, <1>6, CommandIs
  <2>2. FileOf(step) = "codes"
    <3>1. FileOf(step) \in File /\ "codes" \in File
      BY <2>1, ReplaceIs DEF Replace, File
    <3> QED
      BY <1>6, <2>1, <3>1 DEF Replace, Inv, Typed
  <2> QED
    BY <1>4, <2>1, <2>2
<1>7. CASE ~Fails(s) /\ files'["codes"] = files["codes"]
  <2>1. AboutToRecord(s)
    BY <1>1, <1>3, <1>7 DEF Held
  <2>2. /\ Running(s) /\ step \in Window /\ start[s].unseal_codes = "ours"
        /\ start[s].plan # <<>> /\ start[s].phase = "running"
    BY <2>1 DEF AboutToRecord, At, Running
  <2>3. step # "unseal" => MayReplace(s)
    BY <2>2 DEF Window, MayReplace, Value, FileOf, Deletes, Writes
  <2>4. step = "unseal" => MayUnseal(s)
    BY <1>3, <2>2 DEF MayUnseal, At, Inv, Typed
  <2>5. Command(s)
    BY <1>7, <2>2, <2>3, <2>4 DEF Goes, Begin, Plan, NoPlan, Done, Refused
  <2>6. Unseal(s) \/ Replace(s)
    BY <2>2, <2>5, CommandIs
  <2>7. CASE Replace(s)
    <3>1. FileOf(step) = "codes"
      <4>1. step \in {"delete_codes", "write_codes"}
        BY <2>2, <2>7 DEF Replace, MayReplace, Deletes, Writes, Window
      <4> QED
        BY <4>1 DEF FileOf
    <3> QED
      BY <1>4, <2>7, <3>1
  <2>8. CASE Unseal(s)
    <3>1. Becomes(s, Step(s)) /\ step = "unseal"
      BY <2>8 DEF Unseal, MayUnseal, At
    <3>2. /\ start'[s].phase = "running" /\ start'[s].plan = Tail(start[s].plan)
          /\ start'[s].unseal_codes = "ours"
      BY <2>2, <3>1, StepIs, Becoming DEF Inv, Typed
    <3> QED
      BY <1>1, <2>2, <3>1, <3>2, StillRecords
  <2> QED
    BY <2>6, <2>7, <2>8
<1> QED
  BY <1>5, <1>6, <1>7

\* Whatever runs at once, fails, dies or restarts, the unseal codes of an OpenBao are lost only
\* by a start that dies between initialising it, or deleting the file, and writing the file
\* whole, or by one that had loaded the codes of a lost OpenBao and records those.
THEOREM WindowCorrect == Spec => OnlyTheWindowLosesCodes
<1>1. Inv /\ [Next]_vars => [WindowStep]_vars
  <2> SUFFICES ASSUME Inv, Next, Held, ~Held'
      PROVE  \E s \in Starts : \/ AboutToRecord(s) /\ Fails(s)
                               \/ /\ At(s, "delete_codes") \/ At(s, "write_codes")
                                  /\ start[s].unseal_codes = "stale"
    BY DEF WindowStep
  <2>1. ~Restarts
    BY DEF Restarts, Held, AboutToRecord, At, Running
  <2>2. PICK s \in Starts : Goes(s) \/ Fails(s)
    BY <2>1 DEF Next
  <2> QED
    BY <2>2, LosesInTheWindow
<1> QED
  BY <1>1, InitInv, NextInv, PTL DEF Spec, OnlyTheWindowLosesCodes, WindowStep

CompleteStep ==
    \A s \in Starts : start'[s].phase = "ok" /\ start[s].phase # "ok" =>
       /\ Installed \subseteq installed'
       /\ \A f \in Credentials : files'[f] = "ours"

\* A start that says it succeeded left an OpenBao with everything it looks for installed and
\* Douglas's login working, whatever failed, died or was missed in this start or another.
THEOREM CompleteCorrect == Spec => SuccessIsComplete
<1>1. Inv /\ [Next]_vars => [CompleteStep]_vars
  <2> SUFFICES ASSUME Inv, Next, NEW s \in Starts, start'[s].phase = "ok", start[s].phase # "ok"
      PROVE  Installed \subseteq installed' /\ \A f \in Credentials : files'[f] = "ours"
    BY DEF CompleteStep
  <2>1. ~Restarts
    BY DEF Restarts
  <2>2. PICK t \in Starts : Goes(t) \/ Fails(t)
    BY <2>1 DEF Next
  <2>3. Done(s) \/ Plan(s)
    BY <2>2, OneMoves
  <2>4. Range(<<>>) = {}
    BY DEF Range
  <2>5. CASE Done(s)
    <3>1. /\ start[s].phase = "running" /\ start[s].plan = <<>>
          /\ UNCHANGED <<installed, files>>
      BY <2>5 DEF Done
    <3>2. Installed \subseteq installed
      BY <2>4, <3>1 DEF Inv, PlansInHand
    <3>3. start[s].admin_token \in {"none", "root", "douglas"}
      BY TypedFacts DEF Inv, Contexts
    <3>4. \A f \in Credentials : files[f] = "ours"
      BY <2>4, <3>1, <3>3 DEF Inv, LoginInHand, Administers, Credentials
    <3> QED
      BY <3>1, <3>2, <3>4
  <2>6. CASE Plan(s)
    <3>1. PICK found \in SUBSET installed :
            LET plan == create_plan(s, found)
            IN  /\ start[s].phase = "observing" /\ HasPlan(s)
                /\ faults' \in 0..MaxFaults
                /\ IF plan = <<>> THEN End(s, "ok")
                   ELSE Becomes(s, [start[s] EXCEPT !.phase = "running", !.plan = plan])
                /\ UNCHANGED <<seal, installed, policy, root_token, files, restarts>>
                /\ plan \in Seq(ToSteps) /\ Ordered(plan)
                /\ Installed \subseteq installed \cup Range(plan)
                /\ plan = <<>> => seal = "unsealed"
                /\ plan # <<>> => plan[1] = "login" \/ "revoke" \in Range(plan)
      BY <2>6, PlanIs
    <3> DEFINE plan == create_plan(s, found)
    <3>2. plan = <<>>
      <4>1. plan # <<>> => start' = [start EXCEPT ![s] = [start[s] EXCEPT !.phase = "running", !.plan = plan]]
        BY <3>1 DEF Becomes
      <4>2. start \in [Starts -> Contexts] /\ start[s] \in Contexts
        BY DEF Inv, Typed, ContextsTyped
      <4> HIDE DEF plan
      <4> QED
        BY <4>1, <4>2 DEF Contexts
    <3>3. Installed \subseteq installed /\ seal = "unsealed" /\ UNCHANGED <<installed, files>>
      BY <2>4, <3>1, <3>2
    <3>4. \A f \in Credentials : files[f] = "ours"
      BY <3>1, <3>3 DEF HasPlan, LogsIn
    <3> QED
      BY <3>3, <3>4
  <2> QED
    BY <2>3, <2>5, <2>6
<1> QED
  BY <1>1, InitInv, NextInv, PTL DEF Spec, SuccessIsComplete, CompleteStep
=============================================================================
