---------------------------- MODULE LoginProofs ----------------------------
EXTENDS Login, SequenceTheorems, FiniteSetTheorems, TLAPS

-----------------------------------------------------------------------------
(* Lists                                                                    *)

LEMMA HasLeast ==
  ASSUME NEW S, S \subseteq Nat, S # {}
  PROVE  Min(S) \in S /\ \A y \in S : Min(S) <= y
<1> DEFINE R == {ss \in Nat \X Nat : ss[1] < ss[2]}
<1>1. IsWellFoundedOn(R, Nat)
  BY NatLessThanWellFounded, Zenon DEF OpToRel
<1>2. \E x \in S : \A y \in S : <<y, x>> \notin R
  <2> HIDE DEF R
  <2> QED
    BY <1>1, WFMin, Zenon
<1>3. PICK x \in S : \A y \in S : <<y, x>> \notin R
  BY <1>2
<1>4. ASSUME NEW y \in S
      PROVE  x <= y
  <2>1. x \in Nat /\ y \in Nat
    OBVIOUS
  <2>2. CASE y < x
    <3>1. <<y, x>> \in R
      BY <2>1, <2>2
    <3> QED
      BY <3>1, <1>3
  <2> QED
    BY <2>1, <2>2
<1> QED
  BY <1>3, <1>4 DEF Min


(* A list, of whatever elements.                                            *)
IsList(s) == \E S : s \in Seq(S)

LEMMA ListLen ==
  ASSUME NEW s, IsList(s)
  PROVE  /\ Len(s) \in Nat /\ DOMAIN s = 1..Len(s)
         /\ s # <<>> => /\ Len(s) \in Nat \ {0} /\ Head(s) = s[1]
                        /\ IsList(Tail(s)) /\ Len(Tail(s)) = Len(s) - 1
                        /\ \A i \in 1..Len(Tail(s)) : Tail(s)[i] = s[i + 1]
<1>1. PICK S : s \in Seq(S)
  BY DEF IsList
<1>2. Len(s) \in Nat /\ DOMAIN s = 1..Len(s)
  BY <1>1
<1>3. ASSUME s # <<>>
      PROVE  /\ Len(s) \in Nat \ {0} /\ Head(s) = s[1]
             /\ Tail(s) \in Seq(S) /\ Len(Tail(s)) = Len(s) - 1
             /\ \A i \in 1..Len(Tail(s)) : Tail(s)[i] = s[i + 1]
  BY <1>1, <1>3
<1>4. s # <<>> => IsList(Tail(s))
  BY <1>3 DEF IsList
<1> QED
  BY <1>2, <1>3, <1>4

(* What SelectInSeq() finds, for the places I where its test holds.         *)
LEMMA FirstOf ==
  ASSUME NEW s, IsList(s), NEW I, I \subseteq 1..Len(s)
  PROVE  LET i == IF I # {} THEN Min(I) ELSE 0
         IN  (i # 0 <=> I # {}) /\ (i # 0 => i \in I)
<1>1. Len(s) \in Nat
  BY ListLen
<1>2. I \subseteq Nat /\ 0 \notin I
  BY <1>1
<1>3. I # {} => Min(I) \in I
  BY <1>2, HasLeast
<1> QED
  BY <1>2, <1>3

-----------------------------------------------------------------------------
(* Negotiation                                                              *)

(* agree_instr() finds a name if and only if the list has it.               *)
LEMMA Named ==
  ASSUME NEW theirs, IsList(theirs), NEW name
  PROVE  agree_instr(theirs, name) # 0 <=> \E j \in DOMAIN theirs : name = theirs[j]
<1> DEFINE I == {i \in 1..Len(theirs) : theirs[i] = name}
           i == IF I # {} THEN Min(I) ELSE 0
<1>1. agree_instr(theirs, name) = i
  BY Zenon DEF agree_instr, SelectInSeq
<1>2. I \subseteq 1..Len(theirs) /\ DOMAIN theirs = 1..Len(theirs)
  BY ListLen
<1>3. i # 0 <=> I # {}
  <2> HIDE DEF I
  <2> QED
    BY <1>2, FirstOf
<1> HIDE DEF i
<1>4. I # {} <=> \E j \in DOMAIN theirs : name = theirs[j]
  BY <1>2
<1> QED
  BY <1>1, <1>3, <1>4

(* The first common name, searched for in the order of the code, is the     *)
(* one that RFC 4253 names.                                                 *)
LEMMA FirstIsBest ==
  ASSUME NEW ours, NEW theirs, IsList(ours), IsList(theirs)
  PROVE  /\ FirstCommon(ours, theirs) = Best(ours, theirs)
         /\ Best(ours, theirs) # None => Best(ours, theirs) \in ToSet(ours)
<1> DEFINE I == {i \in 1..Len(ours) : agree_instr(theirs, ours[i]) # 0}
           both == {i \in DOMAIN ours : \E j \in DOMAIN theirs : ours[i] = theirs[j]}
           f == IF I # {} THEN Min(I) ELSE 0
<1>1. FirstCommon(ours, theirs) = IF f = 0 THEN None ELSE ours[f]
  BY Zenon DEF FirstCommon, SelectInSeq
<1>2. Best(ours, theirs) = IF both = {} THEN None ELSE ours[Min(both)]
  BY Zenon DEF Best, Min
<1>3. DOMAIN ours = 1..Len(ours)
  BY ListLen
<1>4. I = both
  BY <1>3, Named, Zenon
<1>5. (f # 0 <=> I # {}) /\ (f # 0 => f \in I)
  <2>1. I \subseteq 1..Len(ours)
    BY Zenon
  <2> HIDE DEF I
  <2> QED
    BY <2>1, FirstOf
<1>6. I \subseteq DOMAIN ours
  BY <1>3, Zenon
<1> HIDE DEF I, both
<1>7. FirstCommon(ours, theirs) = Best(ours, theirs)
  BY <1>1, <1>2, <1>4, <1>5
<1>8. Best(ours, theirs) # None => \E i \in DOMAIN ours : Best(ours, theirs) = ours[i]
  BY <1>2, <1>4, <1>5, <1>6
<1> QED
  BY <1>7, <1>8 DEF ToSet

(* The host key that kex_agree_hostkey() agrees on is the first common one, *)
(* unless that one is a certificate.                                        *)
LEMMA HostkeyIsBest ==
  ASSUME NEW ours, NEW theirs, IsList(ours), IsList(theirs),
         agree_hostkey(ours, theirs) # None
  PROVE  Best(ours, theirs) \notin Certificates =>
           agree_hostkey(ours, theirs) = Best(ours, theirs)
<1> DEFINE I == {i \in 1..Len(ours) : agree_instr(theirs, ours[i]) # 0
                                       /\ KexRequires \subseteq HostkeyCan(ours[i])}
           both == {i \in DOMAIN ours : \E j \in DOMAIN theirs : ours[i] = theirs[j]}
           f == IF I # {} THEN Min(I) ELSE 0
<1>1. agree_hostkey(ours, theirs) = IF f = 0 THEN None ELSE ours[f]
  BY Zenon DEF agree_hostkey, SelectInSeq
<1>2. Best(ours, theirs) = IF both = {} THEN None ELSE ours[Min(both)]
  BY Zenon DEF Best, Min
<1>3. DOMAIN ours = 1..Len(ours) /\ Len(ours) \in Nat
  BY ListLen
<1>4. I \subseteq both /\ I \subseteq 1..Len(ours) /\ both \subseteq 1..Len(ours)
  BY <1>3, Named, Zenon
<1>5. (f # 0 <=> I # {}) /\ (f # 0 => f \in I)
  <2> HIDE DEF I
  <2> QED
    BY <1>4, FirstOf
<1>6. ASSUME ours[Min(both)] \notin Certificates, Min(both) \in both
      PROVE  Min(both) \in I
  <2>1. KexRequires \subseteq HostkeyCan(ours[Min(both)])
    BY <1>6 DEF KexRequires, HostkeyCan
  <2>2. agree_instr(theirs, ours[Min(both)]) # 0
    BY <1>6, Named
  <2> QED
    BY <1>3, <1>6, <2>1, <2>2
<1> HIDE DEF I, both
<1>7. I # {} /\ both # {}
  BY <1>1, <1>4, <1>5
<1>a. I \in SUBSET Nat /\ both \in SUBSET Nat
  BY <1>3, <1>4
<1>b. PICK x \in I : \A y \in I : x <= y
  BY <1>a, <1>7, HasLeast
<1>c. PICK z \in both : \A y \in both : z <= y
  BY <1>a, <1>7, HasLeast
<1>d. Min(I) \in I /\ \A y \in I : Min(I) <= y
  BY <1>b DEF Min
<1>e. Min(both) \in both /\ \A y \in both : Min(both) <= y
  BY <1>c DEF Min
<1>8. Min(both) \in both
  BY <1>e
<1>9. Min(both) \in I => Min(I) = Min(both)
  <2>1. Min(I) \in Nat /\ Min(both) \in Nat /\ Min(I) \in both
    BY <1>a, <1>d, <1>e, <1>4
  <2> QED
    BY <1>d, <1>e, <2>1
<1> QED
  BY <1>1, <1>2, <1>5, <1>6, <1>7, <1>8, <1>9

(* The key exchange and the host key that kex_agree_kex_hostkey() agrees on *)
(* are the first common ones, but for certificates.                         *)
LEMMA KexHostkey ==
  ASSUME NEW ours, NEW theirs, NEW follows,
         IsList(ours.kex), IsList(theirs.kex), IsList(ours.hostkey), IsList(theirs.hostkey)
  PROVE  agree_kex_hostkey(ours, theirs, follows).kex # None =>
           /\ agree_kex_hostkey(ours, theirs, follows).kex = Best(ours.kex, theirs.kex)
           /\ Best(ours.hostkey, theirs.hostkey) \notin Certificates =>
                agree_kex_hostkey(ours, theirs, follows).hostkey =
                  Best(ours.hostkey, theirs.hostkey)
<1> DEFINE key == agree_hostkey(ours.hostkey, theirs.hostkey)
           I == {i \in 1..Len(ours.kex) : agree_instr(theirs.kex, ours.kex[i]) # 0 /\ key # None}
           J == {i \in 1..Len(ours.kex) : agree_instr(theirs.kex, ours.kex[i]) # 0}
           f == IF I # {} THEN Min(I) ELSE 0
           g == IF J # {} THEN Min(J) ELSE 0
           k == agree_kex_hostkey(ours, theirs, follows)
           u == follows /\ agree_instr(theirs.kex, ours.kex[f]) # 1
<1>1. k = IF f = 0 THEN [kex |-> None, hostkey |-> None, burn |-> follows]
          ELSE [kex |-> ours.kex[f], hostkey |-> key, burn |-> u]
  BY Zenon DEF agree_kex_hostkey, SelectInSeq
<1>2. FirstCommon(ours.kex, theirs.kex) = IF g = 0 THEN None ELSE ours.kex[g]
  BY Zenon DEF FirstCommon, SelectInSeq
<1>3. key # None /\ Best(ours.hostkey, theirs.hostkey) \notin Certificates =>
        key = Best(ours.hostkey, theirs.hostkey)
  BY HostkeyIsBest
<1>4. key # None => I = J
  BY Zenon
<1>5. key = None => I = {}
  BY Zenon
<1>6. FirstCommon(ours.kex, theirs.kex) = Best(ours.kex, theirs.kex)
  BY FirstIsBest
<1> HIDE DEF key, I, J, k, u
<1> QED
  BY <1>1, <1>2, <1>3, <1>4, <1>5, <1>6 DEF k

(* The fields of the session that the exchange keeps.                       *)
EndFields == {"crypt", "mac", "comp", "keys"}
Fields == {"kst", "low", "kex", "hostkey", "local", "remote", "newkeys", "exch",
           "burn", "sid", "auth", "nkex", "lkex", "rkex", "h", "inAdd", "agreed",
           "ready", "closed", "signAlgs", "failed"}
Shaped(s) ==
  DOMAIN s = Fields /\ DOMAIN s.local = EndFields /\ DOMAIN s.remote = EndFields

(* The methods in s are the ones of r.                                      *)
Chosen(s, r) ==
  /\ s.kex = r.kex /\ (r.hostkey \notin Certificates => s.hostkey = r.hostkey)
  /\ s.local.crypt = r.crypt_cs /\ s.remote.crypt = r.crypt_sc
  /\ s.local.mac = r.mac_cs /\ s.remote.mac = r.mac_sc
  /\ s.local.comp = r.comp_cs /\ s.remote.comp = r.comp_sc

(* t has its states and flags from s, but perhaps methods of its own.       *)
SameBut(s, t) ==
  /\ Shaped(t)
  /\ t.kst = s.kst /\ t.low = s.low /\ t.newkeys = s.newkeys /\ t.exch = s.exch
  /\ t.sid = s.sid /\ t.auth = s.auth /\ t.nkex = s.nkex /\ t.lkex = s.lkex
  /\ t.rkex = s.rkex /\ t.h = s.h /\ t.inAdd = s.inAdd /\ t.ready = s.ready
  /\ t.closed = s.closed /\ t.signAlgs = s.signAlgs /\ t.failed = s.failed
  /\ t.local.keys = s.local.keys /\ t.remote.keys = s.remote.keys

(* The methods of both directions that a pair stands for.                   *)
Holds(s, f, p) == s.local[f] = p.cs /\ s.remote[f] = p.sc

(* Storing a pair of methods changes nothing but these methods.             *)
StoredAs(s, t, f, p) ==
  /\ SameBut(s, t) /\ t.kex = s.kex /\ t.hostkey = s.hostkey
  /\ \A g \in EndFields \ {f} : t.local[g] = s.local[g] /\ t.remote[g] = s.remote[g]
  /\ t.agreed => Holds(t, f, p)

LEMMA Storing ==
  ASSUME NEW s, Shaped(s), NEW p, NEW f \in {"crypt", "mac", "comp"}
  PROVE  StoredAs(s, Stored(s, f, p), f, p)
<1> DEFINE t == Stored(s, f, p)
           ok == p.cs # None /\ p.sc # None
           l == [s.local EXCEPT ![f] = IF p.cs # None THEN p.cs ELSE @]
           r == [s.remote EXCEPT ![f] = IF ok THEN p.sc ELSE @]
<1>1. /\ DOMAIN t = Fields /\ t.local = l /\ t.remote = r
      /\ \A g \in Fields \ {"local", "remote", "agreed"} : t[g] = s[g]
      /\ t.agreed = ok
  BY DEF Stored, Shaped, Fields
<1>2. /\ DOMAIN l = EndFields /\ DOMAIN r = EndFields
      /\ \A g \in EndFields \ {f} : l[g] = s.local[g] /\ r[g] = s.remote[g]
      /\ ok => l[f] = p.cs /\ r[f] = p.sc
  BY DEF Shaped, EndFields
<1> HIDE DEF t, l, r, ok
<1>3. SameBut(s, t) /\ t.kex = s.kex /\ t.hostkey = s.hostkey
  BY <1>1, <1>2 DEF SameBut, Shaped, Fields, EndFields
<1>4. t.agreed => ok
  BY <1>1, Zenon
<1> QED
  BY <1>1, <1>2, <1>3, <1>4, Zenon DEF t, ok, StoredAs, Holds

(* When kex_agree_methods() succeeds, the methods in the session are the    *)
(* ones that RFC 4253 names; in any case it touches nothing else.           *)
LEMMA Agreement ==
  ASSUME NEW s, Shaped(s), NEW ours, NEW theirs, NEW follows,
         \A l \in Lists : IsList(ours[l]) /\ IsList(theirs[l])
  PROVE  /\ SameBut(s, agree_methods(s, ours, theirs, follows))
         /\ agree_methods(s, ours, theirs, follows).agreed =>
              /\ Chosen(agree_methods(s, ours, theirs, follows), Rfc(ours, theirs))
              /\ Rfc(ours, theirs).kex \in ToSet(ours.kex) \ {None}
<1> DEFINE k == agree_kex_hostkey(ours, theirs, follows)
           e == agree_crypt(ours, theirs)
           m == agree_mac(ours, theirs)
           z == agree_comp(ours, theirs)
           r == Rfc(ours, theirs)
           s1 == [s EXCEPT !.burn = k.burn, !.agreed = k.kex # None,
                           !.kex = IF k.kex # None THEN k.kex ELSE @,
                           !.hostkey = IF k.kex # None THEN k.hostkey ELSE @]
           s2 == IF s1.agreed THEN Stored(s1, "crypt", e) ELSE s1
           s3 == IF s2.agreed THEN Stored(s2, "mac", m) ELSE s2
           s4 == IF s3.agreed THEN Stored(s3, "comp", z) ELSE s3
<1>1. agree_methods(s, ours, theirs, follows) = s4
  BY Zenon DEF agree_methods
<1>2. /\ r.kex = Best(ours.kex, theirs.kex) /\ r.hostkey = Best(ours.hostkey, theirs.hostkey)
      /\ r.crypt_cs = Best(ours.crypt_cs, theirs.crypt_cs)
      /\ r.crypt_sc = Best(ours.crypt_sc, theirs.crypt_sc)
      /\ r.mac_cs = Best(ours.mac_cs, theirs.mac_cs)
      /\ r.mac_sc = Best(ours.mac_sc, theirs.mac_sc)
      /\ r.comp_cs = Best(ours.comp_cs, theirs.comp_cs)
      /\ r.comp_sc = Best(ours.comp_sc, theirs.comp_sc)
  BY DEF Rfc, Lists
<1>3. /\ e.cs = r.crypt_cs /\ e.sc = r.crypt_sc /\ m.cs = r.mac_cs /\ m.sc = r.mac_sc
      /\ z.cs = r.comp_cs /\ z.sc = r.comp_sc
  <2>1. \A l \in Lists : FirstCommon(ours[l], theirs[l]) = Best(ours[l], theirs[l])
    BY FirstIsBest
  <2> QED
    BY <1>2, <2>1 DEF agree_crypt, agree_mac, agree_comp, Lists
<1>4. k.kex # None => /\ k.kex = r.kex /\ r.kex \in ToSet(ours.kex)
                      /\ r.hostkey \notin Certificates => k.hostkey = r.hostkey
  <2>1. /\ IsList(ours.kex) /\ IsList(theirs.kex)
        /\ IsList(ours.hostkey) /\ IsList(theirs.hostkey)
    BY DEF Lists
  <2>2. Best(ours.kex, theirs.kex) # None => Best(ours.kex, theirs.kex) \in ToSet(ours.kex)
    BY <2>1, FirstIsBest
  <2> QED
    BY <2>1, <2>2, KexHostkey, <1>2
<1> HIDE DEF k, e, m, z, r
<1>5. /\ SameBut(s, s1)
      /\ s1.agreed = (k.kex # None)
      /\ k.kex # None => s1.kex = k.kex /\ s1.hostkey = k.hostkey
  BY DEF Shaped, SameBut, Fields, EndFields
<1>6. s1.agreed => s1.kex = r.kex /\ (r.hostkey \notin Certificates => s1.hostkey = r.hostkey)
                   /\ r.kex # None /\ r.kex \in ToSet(ours.kex)
  BY <1>4, <1>5, Zenon
<1> HIDE DEF s1
<1>7. /\ SameBut(s1, s2) /\ s2.kex = s1.kex /\ s2.hostkey = s1.hostkey
      /\ s2.agreed => s1.agreed /\ Holds(s2, "crypt", e)
  <2>1. Shaped(s1)
    BY <1>5 DEF SameBut
  <2>2. CASE s1.agreed
    <3>1. StoredAs(s1, s2, "crypt", e)
      BY <2>1, <2>2, Storing
    <3> HIDE DEF s2
    <3> QED
      BY <2>2, <3>1 DEF StoredAs, EndFields
  <2>3. CASE ~s1.agreed
    <3>1. s2 = s1
      BY <2>3
    <3> HIDE DEF s2
    <3> QED
      BY <2>1, <2>3, <3>1 DEF SameBut
  <2> QED
    BY <2>2, <2>3
<1> HIDE DEF s2
<1>8. /\ SameBut(s2, s3) /\ s3.kex = s2.kex /\ s3.hostkey = s2.hostkey
      /\ s3.agreed => s2.agreed /\ Holds(s3, "mac", m)
      /\ s3.local.crypt = s2.local.crypt /\ s3.remote.crypt = s2.remote.crypt
  <2>1. Shaped(s2)
    BY <1>7 DEF SameBut
  <2>2. CASE s2.agreed
    <3>1. StoredAs(s2, s3, "mac", m)
      BY <2>1, <2>2, Storing
    <3> HIDE DEF s3
    <3> QED
      BY <2>2, <3>1 DEF StoredAs, EndFields
  <2>3. CASE ~s2.agreed
    <3>1. s3 = s2
      BY <2>3
    <3> HIDE DEF s3
    <3> QED
      BY <2>1, <2>3, <3>1 DEF SameBut
  <2> QED
    BY <2>2, <2>3
<1> HIDE DEF s3
<1>9. /\ SameBut(s3, s4) /\ s4.kex = s3.kex /\ s4.hostkey = s3.hostkey
      /\ s4.agreed => s3.agreed /\ Holds(s4, "comp", z)
      /\ s4.local.crypt = s3.local.crypt /\ s4.remote.crypt = s3.remote.crypt
      /\ s4.local.mac = s3.local.mac /\ s4.remote.mac = s3.remote.mac
  <2>1. Shaped(s3)
    BY <1>8 DEF SameBut
  <2>2. CASE s3.agreed
    <3>1. StoredAs(s3, s4, "comp", z)
      BY <2>1, <2>2, Storing
    <3> HIDE DEF s4
    <3> QED
      BY <2>2, <3>1 DEF StoredAs, EndFields
  <2>3. CASE ~s3.agreed
    <3>1. s4 = s3
      BY <2>3
    <3> HIDE DEF s4
    <3> QED
      BY <2>1, <2>3, <3>1 DEF SameBut
  <2> QED
    BY <2>2, <2>3
<1> HIDE DEF s4
<1>10. SameBut(s, s4)
  BY <1>5, <1>7, <1>8, <1>9 DEF SameBut
<1>11. s4.agreed => Chosen(s4, r) /\ r.kex \in ToSet(ours.kex) \ {None}
  BY <1>3, <1>6, <1>7, <1>8, <1>9 DEF Chosen, Holds
<1> QED
  BY <1>1, <1>10, <1>11 DEF r

-----------------------------------------------------------------------------
(* Queues                                                                   *)

(* What comes out of a list when a packet is added, taken or removed.       *)
LEMMA Appended ==
  ASSUME NEW s, IsList(s), NEW m
  PROVE  /\ IsList(Append(s, m)) /\ Len(Append(s, m)) = Len(s) + 1
         /\ \A i \in 1..Len(s) : Append(s, m)[i] = s[i]
         /\ Append(s, m)[Len(s) + 1] = m
<1>1. PICK S : s \in Seq(S)
  BY DEF IsList
<1>2. s \in Seq(S \cup {m})
  BY <1>1
<1>3. Append(s, m) \in Seq(S \cup {m})
  BY <1>2
<1> QED
  BY <1>2, <1>3 DEF IsList

LEMMA Joined ==
  ASSUME NEW s, IsList(s), NEW t, IsList(t)
  PROVE  /\ IsList(s \o t) /\ Len(s \o t) = Len(s) + Len(t)
         /\ \A i \in 1..Len(s) : (s \o t)[i] = s[i]
         /\ \A i \in 1..Len(t) : (s \o t)[Len(s) + i] = t[i]
         /\ \A i \in 1..Len(s \o t) : i > Len(s) =>
              i - Len(s) \in 1..Len(t) /\ (s \o t)[i] = t[i - Len(s)]
<1>1. PICK S : s \in Seq(S)
  BY DEF IsList
<1>2. PICK T : t \in Seq(T)
  BY DEF IsList
<1>3. s \in Seq(S \cup T) /\ t \in Seq(S \cup T)
  BY <1>1, <1>2
<1>4. s \o t \in Seq(S \cup T)
  BY <1>3
<1>5. Len(s) \in Nat /\ Len(t) \in Nat /\ Len(s \o t) = Len(s) + Len(t)
  BY <1>3
<1>6. \A i \in 1..Len(s) : (s \o t)[i] = s[i]
  BY <1>3
<1>7. \A i \in 1..Len(s \o t) : i > Len(s) =>
              i - Len(s) \in 1..Len(t) /\ (s \o t)[i] = t[i - Len(s)]
  BY <1>3, <1>5
<1>8. \A i \in 1..Len(t) : (s \o t)[Len(s) + i] = t[i]
  BY <1>5, <1>7
<1> QED
  BY <1>4, <1>5, <1>6, <1>7, <1>8 DEF IsList

LEMMA Removed ==
  ASSUME NEW s, IsList(s), NEW k \in 1..Len(s)
  PROVE  /\ IsList(RemoveAt(s, k)) /\ Len(RemoveAt(s, k)) = Len(s) - 1
         /\ \A i \in 1..Len(s) - 1 :
              RemoveAt(s, k)[i] = IF i < k THEN s[i] ELSE s[i + 1]
<1>1. PICK S : s \in Seq(S)
  BY DEF IsList
<1>2. Len(s) \in Nat \ {0}
  BY <1>1
<1> DEFINE a == SubSeq(s, 1, k - 1)
           b == SubSeq(s, k + 1, Len(s))
<1>3. /\ a \in Seq(S) /\ Len(a) = k - 1 /\ \A i \in 1..k - 1 : a[i] = s[i]
  BY <1>1, <1>2
<1>4. /\ b \in Seq(S) /\ Len(b) = Len(s) - k /\ \A i \in 1..Len(s) - k : b[i] = s[k + i]
  BY <1>1, <1>2
<1>5. RemoveAt(s, k) = a \o b
  BY DEF RemoveAt
<1> HIDE DEF a, b
<1>6. a \o b \in Seq(S) /\ Len(a \o b) = Len(s) - 1
  <2>1. a \o b \in Seq(S) /\ Len(a \o b) = Len(a) + Len(b)
    BY <1>3, <1>4, ConcatProperties
  <2>2. (k - 1) + (Len(s) - k) = Len(s) - 1
    BY <1>2
  <2> QED
    BY <1>3, <1>4, <2>1, <2>2
<1>7. ASSUME NEW i \in 1..Len(s) - 1
      PROVE  (a \o b)[i] = IF i < k THEN s[i] ELSE s[i + 1]
  <2>1. CASE i < k
    BY <1>2, <1>3, <1>4, <2>1
  <2>2. CASE ~(i < k)
    <3>1. i - (k - 1) \in 1..Len(s) - k /\ k + (i - (k - 1)) = i + 1
      BY <1>2, <2>2
    <3>2. (a \o b)[i] = b[i - (k - 1)]
      BY <1>2, <1>3, <1>4, <2>2
    <3> QED
      BY <1>4, <2>2, <3>1, <3>2
  <2> QED
    BY <2>1, <2>2
<1> QED
  BY <1>5, <1>6, <1>7 DEF IsList

(* The lists of the server in its n-th KEXINIT.                             *)
ListsOf(o, n) == IF n <= 1 THEN o.srv ELSE o.later

(* A packet from the server that has sent n KEXINITs; the first of these.   *)
FromServer(m, o, n) ==
  m.t = "KEXINIT" => m.p.n \in 1..n /\ m.p.lists = ListsOf(o, m.p.n)
IsFirst(m) == m.t = "KEXINIT" /\ m.p.n = 1

(* The packets on their way to the client, in q and then in t; the first    *)
(* KEXINIT is among them at most once.                                      *)
AllServed(s, o, n) == \A i \in 1..Len(s) : FromServer(s[i], o, n)
NoneFirst(s) == \A i \in 1..Len(s) : ~IsFirst(s[i])
OneFirst(s) == \A i, j \in 1..Len(s) : IsFirst(s[i]) /\ IsFirst(s[j]) => i = j
FlowOK(q, t, o, n) ==
  /\ AllServed(q, o, n) /\ AllServed(t, o, n) /\ OneFirst(q) /\ OneFirst(t)
  /\ NoneFirst(q) \/ NoneFirst(t)
Gone(q, t) == NoneFirst(q) /\ NoneFirst(t)

(* How a step of the client may move them.                                  *)
Moves(q, t, q2, t2) ==
  \/ t2 = t /\ (q2 = q \/ \E k \in 1..Len(q) : q2 = RemoveAt(q, k))
  \/ t # <<>> /\ t2 = Tail(t) /\ (q2 = q \/ q2 = Append(q, Head(t)))

LEMMA RemoveKeeps ==
  ASSUME NEW s, IsList(s), NEW k \in 1..Len(s), NEW o, NEW n
  PROVE  /\ AllServed(s, o, n) => AllServed(RemoveAt(s, k), o, n)
         /\ NoneFirst(s) => NoneFirst(RemoveAt(s, k))
         /\ OneFirst(s) => OneFirst(RemoveAt(s, k))
         /\ OneFirst(s) /\ IsFirst(s[k]) => NoneFirst(RemoveAt(s, k))
<1> DEFINE r == RemoveAt(s, k)
           Place(i) == IF i < k THEN i ELSE i + 1
<1>1. Len(s) \in Nat /\ Len(r) = Len(s) - 1
  BY Removed, ListLen
<1>2. \A i \in 1..Len(r) : Place(i) \in 1..Len(s) /\ Place(i) # k /\ r[i] = s[Place(i)]
  BY <1>1, Removed
<1>3. \A i, j \in 1..Len(r) : Place(i) = Place(j) => i = j
  BY <1>1
<1> HIDE DEF Place, r
<1>4. AllServed(s, o, n) => AllServed(r, o, n)
  BY <1>2, Zenon DEF AllServed
<1>5. NoneFirst(s) => NoneFirst(r)
  BY <1>2, Zenon DEF NoneFirst
<1>6. OneFirst(s) => OneFirst(r)
  BY <1>2, <1>3, Zenon DEF OneFirst
<1>7. OneFirst(s) /\ IsFirst(s[k]) => NoneFirst(r)
  BY <1>2, Zenon DEF OneFirst, NoneFirst
<1> QED
  BY <1>4, <1>5, <1>6, <1>7 DEF r

LEMMA TailKeeps ==
  ASSUME NEW s, IsList(s), s # <<>>, NEW o, NEW n
  PROVE  /\ AllServed(s, o, n) => FromServer(Head(s), o, n) /\ AllServed(Tail(s), o, n)
         /\ NoneFirst(s) => ~IsFirst(Head(s)) /\ NoneFirst(Tail(s))
         /\ OneFirst(s) => /\ OneFirst(Tail(s))
                           /\ ~IsFirst(Head(s)) \/ NoneFirst(Tail(s))
<1> DEFINE r == Tail(s)
<1>1. Len(s) \in Nat \ {0} /\ Len(r) = Len(s) - 1 /\ Head(s) = s[1]
  BY ListLen
<1>2. /\ 1 \in 1..Len(s)
      /\ \A i \in 1..Len(r) : i + 1 \in 1..Len(s) /\ i + 1 # 1 /\ r[i] = s[i + 1]
  BY <1>1, ListLen
<1>3. \A i, j \in 1..Len(r) : i + 1 = j + 1 => i = j
  BY <1>1
<1> HIDE DEF r
<1>4. AllServed(s, o, n) => FromServer(Head(s), o, n) /\ AllServed(r, o, n)
  BY <1>1, <1>2 DEF AllServed
<1>5. NoneFirst(s) => ~IsFirst(Head(s)) /\ NoneFirst(r)
  BY <1>1, <1>2 DEF NoneFirst
<1>6. OneFirst(s) => OneFirst(r)
  BY <1>2, <1>3 DEF OneFirst
<1>7. OneFirst(s) => ~IsFirst(Head(s)) \/ NoneFirst(r)
  BY <1>1, <1>2 DEF OneFirst, NoneFirst
<1> QED
  BY <1>4, <1>5, <1>6, <1>7 DEF r

LEMMA AppendKeeps ==
  ASSUME NEW s, IsList(s), NEW m, NEW o, NEW n
  PROVE  /\ AllServed(s, o, n) /\ FromServer(m, o, n) => AllServed(Append(s, m), o, n)
         /\ NoneFirst(s) /\ ~IsFirst(m) => NoneFirst(Append(s, m))
         /\ OneFirst(s) /\ ~IsFirst(m) => OneFirst(Append(s, m))
         /\ NoneFirst(s) => OneFirst(Append(s, m))
<1> DEFINE r == Append(s, m)
<1>1. Len(s) \in Nat /\ Len(r) = Len(s) + 1
  BY Appended, ListLen
<1>2. \A i \in 1..Len(r) : (i \in 1..Len(s) /\ r[i] = s[i]) \/ (i = Len(s) + 1 /\ r[i] = m)
  BY <1>1, Appended
<1> HIDE DEF r
<1>3. AllServed(s, o, n) /\ FromServer(m, o, n) => AllServed(r, o, n)
  BY <1>2 DEF AllServed
<1>4. NoneFirst(s) /\ ~IsFirst(m) => NoneFirst(r)
  BY <1>2 DEF NoneFirst
<1>5. OneFirst(s) /\ ~IsFirst(m) => OneFirst(r)
  BY <1>2 DEF OneFirst
<1>6. NoneFirst(s) => OneFirst(r)
  BY <1>2 DEF OneFirst, NoneFirst
<1> QED
  BY <1>3, <1>4, <1>5, <1>6 DEF r

LEMMA MovesKeep ==
  ASSUME NEW q, IsList(q), NEW t, IsList(t), NEW q2, NEW t2, Moves(q, t, q2, t2)
  PROVE  /\ IsList(q2) /\ IsList(t2)
         /\ Gone(q, t) => Gone(q2, t2)
         /\ \A o, n : FlowOK(q, t, o, n) => FlowOK(q2, t2, o, n)
<1>1. CASE t2 = t /\ q2 = q
  BY <1>1
<1>2. ASSUME NEW k \in 1..Len(q), t2 = t, q2 = RemoveAt(q, k)
      PROVE  /\ IsList(q2) /\ IsList(t2)
             /\ Gone(q, t) => Gone(q2, t2)
             /\ \A o, n : FlowOK(q, t, o, n) => FlowOK(q2, t2, o, n)
  <2>1. IsList(q2) /\ (NoneFirst(q) => NoneFirst(q2)) /\ (OneFirst(q) => OneFirst(q2))
    BY <1>2, Removed, RemoveKeeps
  <2>2. \A o, n : AllServed(q, o, n) => AllServed(q2, o, n)
    BY <1>2, RemoveKeeps
  <2> QED
    BY <1>2, <2>1, <2>2, Zenon DEF Gone, FlowOK
<1>3. CASE t # <<>> /\ t2 = Tail(t) /\ q2 = q
  <2>1. IsList(t2) /\ (NoneFirst(t) => NoneFirst(t2)) /\ (OneFirst(t) => OneFirst(t2))
    BY <1>3, ListLen, TailKeeps
  <2>2. \A o, n : AllServed(t, o, n) => AllServed(t2, o, n)
    BY <1>3, TailKeeps
  <2> QED
    BY <1>3, <2>1, <2>2, Zenon DEF Gone, FlowOK
<1>4. CASE t # <<>> /\ t2 = Tail(t) /\ q2 = Append(q, Head(t))
  <2>1. /\ IsList(t2) /\ IsList(q2)
        /\ NoneFirst(t) => ~IsFirst(Head(t)) /\ NoneFirst(t2)
        /\ OneFirst(t) => OneFirst(t2) /\ (~IsFirst(Head(t)) \/ NoneFirst(t2))
    BY <1>4, ListLen, TailKeeps, Appended
  <2>2. /\ NoneFirst(q) /\ ~IsFirst(Head(t)) => NoneFirst(q2)
        /\ OneFirst(q) /\ ~IsFirst(Head(t)) => OneFirst(q2)
        /\ NoneFirst(q) => OneFirst(q2)
    BY <1>4, AppendKeeps
  <2>3. \A o, n : /\ AllServed(t, o, n) => FromServer(Head(t), o, n) /\ AllServed(t2, o, n)
                  /\ AllServed(q, o, n) /\ FromServer(Head(t), o, n) => AllServed(q2, o, n)
    BY <1>4, TailKeeps, AppendKeeps
  <2> QED
    BY <2>1, <2>2, <2>3, Zenon DEF Gone, FlowOK
<1> QED
  BY <1>1, <1>2, <1>3, <1>4, Zenon DEF Moves

(* What the server adds.                                                    *)
LEMMA JoinKeeps ==
  ASSUME NEW q, IsList(q), NEW t, IsList(t), NEW a, IsList(a), NEW o, NEW n, NEW n2,
         FlowOK(q, t, o, n),
         \A m : FromServer(m, o, n) => FromServer(m, o, n2),
         AllServed(a, o, n2), OneFirst(a),
         NoneFirst(a) \/ Gone(q, t)
  PROVE  /\ IsList(t \o a) /\ FlowOK(q, t \o a, o, n2)
         /\ Gone(q, t) /\ NoneFirst(a) => Gone(q, t \o a)
<1> DEFINE r == t \o a
<1>1. Len(t) \in Nat /\ Len(a) \in Nat /\ IsList(r)
  BY ListLen, Joined
<1>2. \A i \in 1..Len(r) : \/ i \in 1..Len(t) /\ r[i] = t[i]
                           \/ i > Len(t) /\ i - Len(t) \in 1..Len(a) /\ r[i] = a[i - Len(t)]
  BY <1>1, Joined
<1>3. \A i, j \in 1..Len(r) : i - Len(t) = j - Len(t) => i = j
  BY <1>1, ListLen
<1> HIDE DEF r
<1>4. AllServed(q, o, n2)
  BY DEF FlowOK, AllServed
<1>5. AllServed(r, o, n2)
  <2>1. AllServed(t, o, n2)
    BY DEF FlowOK, AllServed
  <2> QED
    BY <1>2, <2>1 DEF AllServed
<1>6. NoneFirst(t) /\ NoneFirst(a) => NoneFirst(r)
  BY <1>2 DEF NoneFirst
<1>7. OneFirst(r)
  <2>1. OneFirst(t) /\ (NoneFirst(t) \/ NoneFirst(a))
    BY DEF FlowOK, Gone
  <2>2. ASSUME NEW i \in 1..Len(r), NEW j \in 1..Len(r), IsFirst(r[i]), IsFirst(r[j])
        PROVE  i = j
    <3>1. CASE NoneFirst(a)
      BY <1>2, <2>1, <2>2, <3>1 DEF OneFirst, NoneFirst
    <3>2. CASE NoneFirst(t)
      <4>1. i - Len(t) \in 1..Len(a) /\ r[i] = a[i - Len(t)]
        BY <1>2, <2>2, <3>2 DEF NoneFirst
      <4>2. j - Len(t) \in 1..Len(a) /\ r[j] = a[j - Len(t)]
        BY <1>2, <2>2, <3>2 DEF NoneFirst
      <4>3. i - Len(t) = j - Len(t)
        BY <4>1, <4>2, <2>2 DEF OneFirst
      <4> QED
        BY <4>3, <1>3
    <3> QED
      BY <2>1, <3>1, <3>2
  <2> QED
    BY <2>2 DEF OneFirst
<1>8. NoneFirst(q) \/ NoneFirst(r)
  BY <1>6 DEF FlowOK, Gone
<1>9. OneFirst(q)
  BY DEF FlowOK
<1> QED
  BY <1>1, <1>4, <1>5, <1>6, <1>7, <1>8, <1>9 DEF FlowOK, Gone, r

(* Packets of other kinds than KEXINIT.                                     *)
Others(a) == \A i \in 1..Len(a) : a[i].t # "KEXINIT"

LEMMA OthersKeep ==
  ASSUME NEW q, IsList(q), NEW t, IsList(t), NEW a, IsList(a), Others(a), NEW o, NEW n
  PROVE  /\ IsList(t \o a)
         /\ FlowOK(q, t, o, n) => FlowOK(q, t \o a, o, n)
         /\ Gone(q, t) => Gone(q, t \o a)
<1>1. NoneFirst(a) /\ OneFirst(a) /\ AllServed(a, o, n)
  BY DEF Others, NoneFirst, OneFirst, AllServed, IsFirst, FromServer
<1>2. IsList(t \o a)
  BY Joined
<1>3. FlowOK(q, t, o, n) => FlowOK(q, t \o a, o, n)
  BY <1>1, JoinKeeps
<1>4. Gone(q, t) => Gone(q, t \o a)
  <2>1. Len(t) \in Nat /\ Len(a) \in Nat
    BY ListLen
  <2> QED
    BY <1>1, <1>2, <2>1, Joined DEF Gone, NoneFirst
<1> QED
  BY <1>2, <1>3, <1>4

(* What waits for the server: logins are sealed, and a request for the      *)
(* service is there only when done holds.                                   *)
MailOK(m, done) ==
  /\ m.t = "REQUEST" => m.seal.keys # NoKeys
  /\ m.t = "SERVICE_REQUEST" => done
Mail(s, done) == \A i \in 1..Len(s) : MailOK(s[i], done)

LEMMA MailKept ==
  ASSUME NEW s, IsList(s), NEW done, NEW then, done => then, Mail(s, done)
  PROVE  /\ Mail(s, then)
         /\ s # <<>> => MailOK(Head(s), then) /\ IsList(Tail(s)) /\ Mail(Tail(s), then)
         /\ \A m : MailOK(m, then) => IsList(Append(s, m)) /\ Mail(Append(s, m), then)
<1>1. Mail(s, then)
  BY DEF Mail, MailOK
<1>2. s # <<>> => MailOK(Head(s), then) /\ IsList(Tail(s)) /\ Mail(Tail(s), then)
  <2> SUFFICES ASSUME s # <<>>
               PROVE  MailOK(Head(s), then) /\ IsList(Tail(s)) /\ Mail(Tail(s), then)
    OBVIOUS
  <2>1. /\ Len(s) \in Nat \ {0} /\ Head(s) = s[1] /\ Len(Tail(s)) = Len(s) - 1
        /\ IsList(Tail(s)) /\ \A i \in 1..Len(Tail(s)) : Tail(s)[i] = s[i + 1]
    BY ListLen
  <2>2. 1 \in 1..Len(s) /\ \A i \in 1..Len(Tail(s)) : i + 1 \in 1..Len(s)
    BY <2>1
  <2> HIDE DEF MailOK
  <2> QED
    BY <1>1, <2>1, <2>2 DEF Mail
<1>3. ASSUME NEW m, MailOK(m, then)
      PROVE  IsList(Append(s, m)) /\ Mail(Append(s, m), then)
  <2>1. Len(s) \in Nat
    BY ListLen
  <2>2. IsList(Append(s, m)) /\ Len(Append(s, m)) = Len(s) + 1
    BY Appended
  <2>3. \A i \in 1..Len(s) + 1 : i \in 1..Len(s) \/ i = Len(s) + 1
    BY <2>1
  <2>4. \A i \in 1..Len(Append(s, m)) : MailOK(Append(s, m)[i], then)
    BY <1>1, <1>3, <2>2, <2>3, Appended DEF Mail
  <2> QED
    BY <2>2, <2>4 DEF Mail
<1> QED
  BY <1>1, <1>2, <1>3

(* packet_ask() and packet_askv() find packets of the queue.                *)
LEMMA Asked ==
  ASSUME IsList(queue), NEW t, Ask(t) # 0
  PROVE  Ask(t) \in 1..Len(queue) /\ queue[Ask(t)].t = t
<1> DEFINE I == {i \in 1..Len(queue) : queue[i].t = t}
           i == IF I # {} THEN Min(I) ELSE 0
<1>1. Ask(t) = i
  BY Zenon DEF Ask, SelectInSeq
<1>2. I \subseteq 1..Len(queue)
  BY Zenon
<1>3. i # 0 => i \in I
  <2> HIDE DEF I
  <2> QED
    BY <1>2, FirstOf
<1>4. Ask(t) \in I
  <2> HIDE DEF i
  <2> QED
    BY <1>1, <1>3
<1> QED
  BY <1>4, Zenon

LEMMA AskedFor ==
  ASSUME IsList(queue), NEW codes, AskV(codes) # 0
  PROVE  AskV(codes) \in 1..Len(queue)
<1>1. \E t : AskV(codes) = Ask(t)
  BY Zenon DEF AskV
<1> QED
  BY <1>1, Asked

(* packet_burn() takes a packet of the queue.                               *)
LEMMA Burns ==
  ASSUME IsList(queue), Burnt # 0
  PROVE  Burnt \in 1..Len(queue)
<1> DEFINE R(i) == Rank(queue[i].t)
           First(i) == \A j \in DOMAIN queue : R(i) < R(j) \/ (R(i) = R(j) /\ i <= j)
           A == {R(i) : i \in DOMAIN queue}
           B == {i \in DOMAIN queue : R(i) = Min(A)}
<1>1. queue # <<>> /\ Burnt = CHOOSE i \in DOMAIN queue : First(i)
  BY DEF Burnt
<1>2. Len(queue) \in Nat \ {0} /\ DOMAIN queue = 1..Len(queue)
  BY <1>1, ListLen
<1>3. \A i : R(i) \in Nat
  <2>1. \A t : Rank(t) \in Nat
    BY DEF Rank
  <2> QED
    BY <2>1
<1> HIDE DEF R
<1>4. 1 \in DOMAIN queue /\ R(1) \in A /\ A \subseteq Nat
  BY <1>2, <1>3
<1>5. Min(A) \in A /\ \A r \in A : Min(A) <= r
  <2> HIDE DEF A
  <2> QED
    BY <1>4, HasLeast
<1>6. B # {} /\ B \subseteq Nat
  <2>1. PICK i \in DOMAIN queue : R(i) = Min(A)
    BY <1>5
  <2> HIDE DEF A
  <2>2. B \subseteq DOMAIN queue /\ DOMAIN queue \subseteq Nat
    BY <1>2
  <2>3. i \in B
    BY <2>1
  <2> QED
    BY <2>2, <2>3
<1>7. Min(B) \in B /\ \A i \in B : Min(B) <= i
  <2> HIDE DEF B
  <2> QED
    BY <1>6, HasLeast
<1>8. Min(B) \in DOMAIN queue /\ R(Min(B)) = Min(A)
  BY <1>7, Zenon
<1>9. ASSUME NEW j \in DOMAIN queue
      PROVE  R(Min(B)) < R(j) \/ (R(Min(B)) = R(j) /\ Min(B) <= j)
  <2>1. R(j) \in A /\ Min(A) <= R(j)
    BY <1>5
  <2>2. R(j) = Min(A) => Min(B) <= j
    BY <1>7
  <2>3. Min(A) \in Nat /\ R(j) \in Nat
    BY <1>3, <1>4, <1>5
  <2> HIDE DEF A, B
  <2> QED
    BY <1>8, <2>1, <2>2, <2>3
<1>10. \E i \in DOMAIN queue : First(i)
  BY <1>8, <1>9, Zenon
<1> HIDE DEF First
<1> QED
  BY <1>1, <1>2, <1>10, Zenon

-----------------------------------------------------------------------------
(* The invariant                                                            *)

SrvFields == {"n", "phase", "ck", "out", "in", "sid", "auth", "service", "todo",
              "bannered", "accepted", "refused", "asked"}

Types ==
  /\ offer \in Offers /\ DOMAIN st = Functions /\ call \in Functions \cup {None}
  /\ Shaped(c) /\ DOMAIN srv = SrvFields /\ srv.n \in Nat
  /\ IsList(queue) /\ IsList(toCli) /\ IsList(toSrv) /\ IsList(srv.todo)

(* The methods in s are the ones both sides agree on in the n-th exchange.  *)
Agreed(s, o, n) ==
  Chosen(s, Rfc(o.cli, ListsOf(o, n))) /\ s.kex \in DOMAIN kex_methods

(* An exchange is under way only in the states that run it, and once the    *)
(* methods are chosen, they are those of the KEXINIT that was taken.        *)
Exchange ==
  /\ c.exch => c.kst \in {"sent", "sent1", "sent2"}
  /\ c.kst # "sent2" => c.low = "idle"
  /\ c.exch /\ c.kst = "sent2" =>
       /\ c.rkex \in 1..srv.n /\ Agreed(c, offer, c.rkex)
       /\ c.rkex = 1 => Gone(queue, toCli)

(* The first exchange is over, and nothing of it is left.                   *)
FirstDone ==
  /\ srv.n >= 1 /\ Gone(queue, toCli)
  /\ ~(c.exch /\ c.kst = "sent2" /\ c.rkex = 1)
HasKeys == c.newkeys /\ c.local.keys # NoKeys

(* How far session_startup() has come, and who may be running.              *)
Progress ==
  LET H == st["handshake"] IN
  /\ H \in {"idle", "created", "sent", "sent1", "sent2", "sent4"}
  /\ c.ready => H = "idle"
  /\ ~c.ready /\ H \in {"idle", "created", "sent"} =>
       ~c.exch /\ c.kst = "idle" /\ c.kex = None
  /\ ~c.ready /\ H \in {"idle", "created", "sent", "sent1"} => ~c.inAdd
  /\ H = "sent1" /\ c.kst = "idle" => result.f = "handshake"
  /\ c.ready \/ H \in {"sent2", "sent4"} => FirstDone /\ HasKeys
  /\ st["disconnect"] # "idle" => ~c.exch /\ call \in {None, "disconnect"}
  /\ call = "disconnect" => ~c.exch
  /\ call \in Methods => c.ready
  /\ call = "handshake" => ~c.ready /\ H # "idle"

(* The service is asked for after the first exchange only, and the server   *)
(* starts another exchange only then.                                       *)
Service ==
  /\ Mail(toSrv, FirstDone) /\ Mail(srv.todo, FirstDone)
  /\ srv.service => FirstDone
  /\ srv.n >= 2 => srv.service

KexInv ==
  /\ Types /\ FlowOK(queue, toCli, offer, srv.n)
  /\ Exchange /\ Progress /\ Service

-----------------------------------------------------------------------------
(* Steps that leave the exchange as it is                                   *)

Alike(s, t) ==
  /\ Shaped(t) /\ t.kst = s.kst /\ (t.low = s.low \/ s.kst = "sent2")
  /\ t.kex = s.kex /\ t.hostkey = s.hostkey /\ t.local = s.local
  /\ t.remote = s.remote /\ t.newkeys = s.newkeys /\ t.exch = s.exch
  /\ t.rkex = s.rkex /\ t.ready = s.ready /\ (t.inAdd => s.inAdd)

(* What is sent: a login, or the request for the service, in its place only. *)
Mails ==
  \/ toSrv' = toSrv
  \/ \E t, p : /\ toSrv' = Append(toSrv, [t |-> t, p |-> p, seal |-> LocalSeal])
               /\ t = "REQUEST" => call \in Methods
               /\ t = "SERVICE_REQUEST" =>
                    call = "handshake" /\ st["handshake"] = "sent2"

Calm ==
  /\ offer' = offer /\ srv' = srv /\ Alike(c, c')
  /\ Moves(queue, toCli, queue', toCli') /\ Mails
  /\ call # None /\ call' \in {call, None}
  /\ DOMAIN st' = Functions /\ st'["handshake"] = st["handshake"]
  /\ st'["disconnect"] \in {st["disconnect"], "idle"}
  /\ result' = result \/ result'.f = "handshake" \/ call \in Methods

(* userauth_pswd_data, and whether it is looked at.                         *)
NullStep ==
  /\ \/ nullread' = nullread
     \/ /\ call = "pswd" /\ st["pswd"] \in {"sent1", "sent2"}
        /\ nullread' = (nullread \/ pswd = "null")
  /\ call' = "pswd" /\ st'["pswd"] \in {"sent1", "sent2"} =>
       \/ pswd' # "null"
       \/ call = "pswd" /\ st["pswd"] = st'["pswd"] /\ pswd' = pswd
Quiet == nullread' = nullread /\ pswd' = pswd /\ st'["pswd"] = st["pswd"]

LEMMA Names ==
  /\ None \notin Functions /\ "handshake" \notin Methods /\ "disconnect" \notin Methods
  /\ "handshake" \in Functions /\ "disconnect" \in Functions
  /\ Methods \subseteq Functions
  /\ \A f \in Functions : f \in Methods \/ f = "handshake" \/ f = "disconnect"
  /\ \A f \in Methods : f # "handshake" /\ f # "disconnect" /\ f # None
BY LoginAssumption DEF Functions, None

(* A letter to the server keeps its rules.                                  *)
LEMMA MailSent ==
  ASSUME Types, Progress, Service, Mails, NEW then, FirstDone => then
  PROVE  IsList(toSrv') /\ Mail(toSrv', then)
<1>1. CASE toSrv' = toSrv
  BY <1>1, MailKept DEF Types, Service
<1>2. ASSUME NEW t, NEW p,
             toSrv' = Append(toSrv, [t |-> t, p |-> p, seal |-> LocalSeal]),
             t = "REQUEST" => call \in Methods,
             t = "SERVICE_REQUEST" => call = "handshake" /\ st["handshake"] = "sent2"
      PROVE  IsList(toSrv') /\ Mail(toSrv', then)
  <2> DEFINE m == [t |-> t, p |-> p, seal |-> LocalSeal]
  <2>1. t = "REQUEST" => HasKeys
    BY <1>2 DEF Progress
  <2>2. t = "REQUEST" => LocalSeal.keys # NoKeys
    BY <2>1 DEF HasKeys, LocalSeal
  <2>3. t = "SERVICE_REQUEST" => then
    BY <1>2 DEF Progress
  <2>4. m.t = t /\ m.seal = LocalSeal
    OBVIOUS
  <2> HIDE DEF m
  <2>5. MailOK(m, then)
    BY <2>2, <2>3, <2>4 DEF MailOK
  <2>6. toSrv' = Append(toSrv, m)
    BY <1>2 DEF m
  <2> QED
    BY <2>5, <2>6, MailKept DEF Types, Service
<1> QED
  BY <1>1, <1>2 DEF Mails

LEMMA CalmKeeps ==
  ASSUME KexInv, Calm
  PROVE  KexInv'
<1>t. Types /\ FlowOK(queue, toCli, offer, srv.n) /\ Exchange /\ Progress /\ Service
  BY DEF KexInv
<1>1. /\ IsList(queue') /\ IsList(toCli')
      /\ Gone(queue, toCli) => Gone(queue', toCli')
      /\ FlowOK(queue', toCli', offer', srv'.n)
  BY <1>t, MovesKeep DEF Types, Calm
<1>2. FirstDone => FirstDone'
  BY <1>1 DEF Calm, Alike, FirstDone
<1>3. HasKeys => HasKeys'
  BY DEF Calm, Alike, HasKeys
<1>4. IsList(toSrv') /\ Mail(toSrv', FirstDone')
  BY <1>t, <1>2, MailSent DEF Calm
<1>5. Types'
  BY <1>t, <1>1, <1>4 DEF Types, Calm, Alike
<1>6. Exchange'
  <2>1. Agreed(c, offer, c.rkex) => Agreed(c', offer', c'.rkex)
    BY DEF Calm, Alike, Agreed, Chosen
  <2> QED
    BY <1>t, <1>1, <2>1 DEF Exchange, Calm, Alike
<1>7. Progress'
  BY <1>t, <1>2, <1>3, Names DEF Progress, Calm, Alike
<1>8. Service'
  <2>1. Mail(srv.todo, FirstDone')
    BY <1>t, <1>2, MailKept DEF Service, Types
  <2> QED
    BY <1>t, <1>2, <1>4, <2>1 DEF Service, Calm
<1> QED
  BY <1>1, <1>5, <1>6, <1>7, <1>8 DEF KexInv

-----------------------------------------------------------------------------
(* User authentication                                                      *)

(* EAGAIN.                                                                  *)
LEMMA BlockedIsCalm ==
  ASSUME Types, call # None, WouldBlock, result' = result
  PROVE  Calm
<1>1. Alike(c, c')
  BY DEF WouldBlock, Types, Shaped, Alike, Fields
<1>2. Moves(queue, toCli, queue', toCli') /\ Mails
  BY DEF WouldBlock, Moves, Mails
<1> QED
  BY <1>1, <1>2 DEF Calm, WouldBlock, Types

LEMMA Sends ==
  ASSUME NEW t, NEW p, Send(t, p), t = "REQUEST" => call \in Methods,
         t = "SERVICE_REQUEST" => call = "handshake" /\ st["handshake"] = "sent2"
  PROVE  Mails /\ UNCHANGED <<offer, srv, toCli, queue>>
<1>1. toSrv' = Append(toSrv, [t |-> t, p |-> p, seal |-> LocalSeal])
  BY DEF Send
<1>2. Mails
  BY <1>1, Zenon DEF Mails
<1> QED
  BY <1>2 DEF Send

(* A step of the function f that neither reads nor waits.                   *)
Local(f) ==
  /\ call = f /\ call' \in {f, None} /\ UNCHANGED <<offer, srv, toCli>>
  /\ st' = st \/ \E x : To(f, x)
  /\ queue' = queue \/ \E k \in 1..Len(queue) : queue' = RemoveAt(queue, k)
  /\ c' = c \/ c' = [c EXCEPT !.auth = TRUE]
  /\ Mails

LEMMA LocalIsCalm ==
  ASSUME Types, NEW f \in Methods, Local(f)
  PROVE  Calm
<1>1. Alike(c, c')
  BY DEF Local, Types, Shaped, Alike, Fields
<1>2. Moves(queue, toCli, queue', toCli')
  BY DEF Local, Moves
<1>3. /\ DOMAIN st' = Functions /\ st'["handshake"] = st["handshake"]
      /\ st'["disconnect"] = st["disconnect"]
  BY Names DEF Local, To, Types
<1> QED
  BY <1>1, <1>2, <1>3, Names DEF Calm, Local

LEMMA SocketFailsIsCalm ==
  ASSUME Types, NEW f \in Methods, call = f, SocketFails(f)
  PROVE  Calm /\ NullStep
<1>1. Local(f)
  BY DEF SocketFails, Rest, Local, Mails
<1>2. NullStep
  BY DEF SocketFails, NullStep, None
<1> QED
  BY <1>1, <1>2, LocalIsCalm

LEMMA SendRequestIsCalm ==
  ASSUME Types, NEW f \in Methods, NEW a, NEW b \in {"sent", "sent3"}, NEW p,
         SendRequest(f, a, b, p)
  PROVE  Calm /\ NullStep
<1>0. call = f /\ f # None
  BY Names DEF SendRequest, Free, At
<1>1. CASE /\ Send("REQUEST", p)
           /\ To(f, b)
           /\ UNCHANGED <<call, c, pswd, pblc, kybd, result, nullread>>
  <2>1. Mails
    BY <1>0, <1>1, Sends
  <2>2. Local(f)
    BY <1>0, <1>1, <2>1 DEF Send, Local
  <2>3. NullStep
    BY <1>0, <1>1 DEF NullStep, To, Types, Functions
  <2> QED
    BY <2>2, <2>3, LocalIsCalm
<1>2. CASE WouldBlock /\ UNCHANGED authVars
  <2>1. Calm
    BY <1>0, <1>2, BlockedIsCalm DEF authVars
  <2>2. NullStep
    BY <1>2 DEF WouldBlock, authVars, NullStep, None
  <2> QED
    BY <2>1, <2>2
<1>3. CASE SocketFails(f)
  BY <1>0, <1>3, SocketFailsIsCalm
<1> QED
  BY <1>1, <1>2, <1>3 DEF SendRequest

(* A reply that is taken from the queue.                                    *)
LEMMA ReplyTaken ==
  ASSUME Types, NEW f \in Methods, NEW a, NEW t, Reply(f, a, t)
  PROVE  /\ call = f /\ UNCHANGED <<offer, srv, toCli>> /\ Mails
         /\ \E k \in 1..Len(queue) : queue' = RemoveAt(queue, k)
<1>1. AskV(Awaits(f)) \in 1..Len(queue)
  BY AskedFor DEF Reply, Types
<1> QED
  BY <1>1 DEF Reply, At, Rest, Mails

LEMMA SuccessIsCalm ==
  ASSUME Types, NEW f \in Methods, NEW a, Success(f, a) \/ Failure(f, a)
  PROVE  Calm /\ NullStep
<1>1. Reply(f, a, "SUCCESS") \/ Reply(f, a, "FAILURE")
  BY DEF Success, Failure
<1>2. /\ call = f /\ UNCHANGED <<offer, srv, toCli>> /\ Mails
      /\ \E k \in 1..Len(queue) : queue' = RemoveAt(queue, k)
  BY <1>1, ReplyTaken
<1>3. /\ call' = None /\ To(f, "idle") /\ nullread' = nullread
      /\ c' = c \/ c' = [c EXCEPT !.auth = TRUE]
  BY DEF Success, Failure
<1>4. Local(f)
  BY <1>2, <1>3 DEF Local
<1>5. NullStep
  BY <1>3 DEF NullStep, None
<1> QED
  BY <1>4, <1>5, LocalIsCalm

LEMMA ListIsCalm ==
  ASSUME Types, userauth_list
  PROVE  Calm /\ NullStep
<1>1. CASE /\ At("list", "idle") /\ To("list", "created")
           /\ UNCHANGED <<queue, call, c, Rest, authVars>>
  <2>1. "list" \in Methods
    BY <1>1, Names DEF At, Types, None
  <2>2. Local("list")
    BY <1>1 DEF Local, At, Rest, Mails
  <2>3. NullStep
    BY <1>1 DEF NullStep, At, authVars
  <2> QED
    BY <2>1, <2>2, <2>3, LocalIsCalm
<1>2. CASE SendRequest("list", "created", "sent", [kind |-> "none", id |-> reqs + 1])
  <2>1. "list" \in Methods
    BY <1>2, Names DEF SendRequest, Free, At, Types, None
  <2> QED
    BY <1>2, <2>1, SendRequestIsCalm
<1>3. ASSUME NEW a \in {"sent", "banner"}, Success("list", a) \/ Failure("list", a)
      PROVE  Calm /\ NullStep
  <2>1. "list" \in Methods
    BY <1>3, Names DEF Success, Failure, Reply, At, Types, None
  <2> QED
    BY <1>3, <2>1, SuccessIsCalm
<1>4. CASE /\ Reply("list", "sent", "BANNER") /\ To("list", "banner")
           /\ UNCHANGED <<call, c, pswd, pblc, kybd, result, nullread>>
  <2>1. "list" \in Methods
    BY <1>4, Names DEF Reply, At, Types, None
  <2>2. Local("list")
    BY <1>4, <2>1, ReplyTaken DEF Local
  <2>3. NullStep
    BY <1>4 DEF NullStep, Reply, At
  <2> QED
    BY <2>1, <2>2, <2>3, LocalIsCalm
<1> QED
  BY <1>1, <1>2, <1>3, <1>4 DEF userauth_list

LEMMA PasswordIsCalm ==
  ASSUME Types, userauth_password
  PROVE  Calm /\ NullStep
<1>m. call = "pswd" => "pswd" \in Methods /\ "pswd" \in DOMAIN st
  BY Names DEF Types, None
<1>1. CASE /\ At("pswd", "idle") /\ To("pswd", "created")
           /\ pswd' = "packet"
           /\ UNCHANGED <<queue, call, c, Rest, reqs, own, pblc, kybd, result,
                          nullread>>
  <2>1. Local("pswd")
    BY <1>1 DEF Local, At, Rest, Mails
  <2>2. NullStep
    BY <1>1 DEF NullStep
  <2> QED
    BY <1>m, <1>1, <2>1, <2>2, LocalIsCalm DEF At
<1>2. CASE SendRequest("pswd", "created", "sent",
                      [kind |-> "password", id |-> reqs + 1])
  BY <1>m, <1>2, SendRequestIsCalm DEF SendRequest, Free, At
<1>3. CASE Success("pswd", "sent") \/ Failure("pswd", "sent")
  BY <1>m, <1>3, SuccessIsCalm DEF Success, Failure, Reply, At
<1>4. CASE /\ Reply("pswd", "sent", "M60") /\ To("pswd", "sent1")
           /\ pswd' = "reply"
           /\ UNCHANGED <<call, c, pblc, kybd, result, nullread>>
  <2>1. "pswd" \in Methods
    BY <1>m, <1>4 DEF Reply, At
  <2>2. Local("pswd")
    BY <1>4, <2>1, ReplyTaken DEF Local
  <2>3. NullStep
    BY <1>4 DEF NullStep
  <2> QED
    BY <2>1, <2>2, <2>3, LocalIsCalm
<1> QED
  BY <1>1, <1>2, <1>3, <1>4 DEF userauth_password

LEMMA ChangeIsCalm ==
  ASSUME Types, passwd_change \/ passwd_send
  PROVE  Calm /\ NullStep
<1>m. call = "pswd" /\ "pswd" \in Methods /\ "pswd" \in DOMAIN st /\ call # None
  BY Names DEF Types, None, passwd_change, passwd_send, Free, At
<1>1. CASE passwd_change
  <2>1. Local("pswd")
    BY <1>m, <1>1 DEF passwd_change, Local, Rest, Mails
  <2>2. NullStep
    BY <1>m, <1>1 DEF passwd_change, NullStep, At, NewRequest, To, None
  <2> QED
    BY <1>m, <2>1, <2>2, LocalIsCalm
<1>2. CASE passwd_send
  <2>0. At("pswd", "sent2") /\ nullread' = (nullread \/ pswd = "null")
    BY <1>2 DEF passwd_send, Free
  <2>1. CASE /\ Send("REQUEST", [kind |-> "newpassword", id |-> reqs + 1])
             /\ To("pswd", "sent") /\ UNCHANGED <<call, c>>
    <3>1. Mails
      BY <1>m, <2>1, Sends
    <3>2. Local("pswd")
      BY <1>m, <2>1, <3>1 DEF Local, Send
    <3>3. NullStep
      BY <1>m, <2>0, <2>1 DEF NullStep, At, To
    <3> QED
      BY <1>m, <3>2, <3>3, LocalIsCalm
  <2>2. CASE WouldBlock /\ result' = result
    <3>1. Calm
      BY <1>m, <2>2, BlockedIsCalm
    <3>2. NullStep
      BY <1>m, <2>0, <2>2 DEF NullStep, At, WouldBlock, None
    <3> QED
      BY <3>1, <3>2
  <2>3. CASE call' = None /\ UNCHANGED <<c, queue, Rest, st>>
    <3>1. Local("pswd")
      BY <1>m, <2>3 DEF Local, Rest, Mails
    <3>2. NullStep
      BY <1>m, <2>0, <2>3 DEF NullStep, At, None
    <3> QED
      BY <1>m, <3>1, <3>2, LocalIsCalm
  <2> QED
    BY <1>2, <2>1, <2>2, <2>3 DEF passwd_send
<1> QED
  BY <1>1, <1>2

LEMMA HostbasedIsCalm ==
  ASSUME Types, userauth_hostbased
  PROVE  Calm /\ NullStep
<1>m. call = "host" => "host" \in Methods
  BY Names DEF Types, None
<1>1. CASE /\ At("host", "idle")
           /\ \/ To("host", "created") /\ UNCHANGED <<call, result>>
              \/ call' = None /\ Ended("host", "keyfile", 0) /\ UNCHANGED st
           /\ UNCHANGED <<queue, c, Rest, reqs, own, pswd, pblc, kybd, nullread>>
  <2>1. Local("host")
    BY <1>1 DEF Local, At, Rest, Mails
  <2>2. NullStep
    BY <1>1 DEF NullStep, At, None
  <2> QED
    BY <1>m, <1>1, <2>1, <2>2, LocalIsCalm DEF At
<1>2. CASE SendRequest("host", "created", "sent",
                      [kind |-> "hostbased", id |-> reqs + 1, sid |-> c.sid])
  BY <1>m, <1>2, SendRequestIsCalm DEF SendRequest, Free, At
<1>3. CASE Success("host", "sent") \/ Failure("host", "sent")
  BY <1>m, <1>3, SuccessIsCalm DEF Success, Failure, Reply, At
<1> QED
  BY <1>1, <1>2, <1>3 DEF userauth_hostbased

LEMMA PublickeyIsCalm ==
  ASSUME Types, userauth_publickey
  PROVE  Calm /\ NullStep
<1>m. call = "pblc" => "pblc" \in Methods
  BY Names DEF Types, None
<1>1. ASSUME NEW key, NEW alg, NEW attempt, pblc_start(key, alg, attempt)
      PROVE  Calm /\ NullStep
  <2>1. /\ call = "pblc" /\ call' \in {"pblc", None} /\ (st' = st \/ To("pblc", "created"))
        /\ UNCHANGED <<queue, c, Rest, reqs, own, pswd, kybd, nullread>>
    BY <1>1, Zenon DEF pblc_start, At
  <2>2. Local("pblc")
    BY <2>1 DEF Local, Rest, Mails
  <2>3. NullStep
    BY <2>1 DEF NullStep, None
  <2> QED
    BY <1>m, <2>1, <2>2, <2>3, LocalIsCalm
<1>2. ASSUME NEW a, NEW b \in {"sent", "sent3"}, NEW p, SendRequest("pblc", a, b, p)
      PROVE  Calm /\ NullStep
  BY <1>m, <1>2, SendRequestIsCalm DEF SendRequest, Free, At
<1>3. ASSUME NEW a, Success("pblc", a) \/ Failure("pblc", a)
      PROVE  Calm /\ NullStep
  BY <1>m, <1>3, SuccessIsCalm DEF Success, Failure, Reply, At
<1>4. CASE /\ Reply("pblc", "sent", "M60") /\ To("pblc", "sent1")
           /\ UNCHANGED <<call, c, pswd, pblc, kybd, result, nullread>>
  <2>1. "pblc" \in Methods /\ call = "pblc"
    BY <1>m, <1>4 DEF Reply, At
  <2>2. Local("pblc")
    BY <1>4, <2>1, ReplyTaken DEF Local
  <2>3. NullStep
    BY <1>4, <2>1 DEF NullStep
  <2> QED
    BY <2>1, <2>2, <2>3, LocalIsCalm
<1>5. CASE \E key \in offer.keys : \E alg \in Source(key).reads : pblc_start(key, alg, 1)
  BY <1>1, <1>5
<1>6. CASE pblc_start(pblc.key, DefaultAlg(pblc.key.kind), pblc.attempt)
  BY <1>1, <1>6
<1>7. CASE SendRequest("pblc", "created", "sent",
                   [kind |-> "probe", id |-> reqs + 1, alg |-> pblc.body,
                    key |-> pblc.key.kind])
  BY <1>2, <1>7
<1>8. CASE SendRequest("pblc", "sent2", "sent3",
                   [kind |-> "signed", id |-> reqs + 1, alg |-> pblc.body, sid |-> c.sid,
                    signed |-> pblc.signed, key |-> pblc.key.kind])
  BY <1>2, <1>8
<1> QED
  BY <1>3, <1>4, <1>5, <1>6, <1>7, <1>8, Zenon DEF userauth_publickey

LEMMA SignIsCalm ==
  ASSUME Types, pblc_sign
  PROVE  Calm /\ NullStep
<1>m. call = "pblc" /\ "pblc" \in Methods
  BY Names DEF Types, None, pblc_sign, At
<1>1. /\ call' \in {"pblc", None} /\ (st' = st \/ \E x : To("pblc", x))
      /\ UNCHANGED <<queue, c, Rest, reqs, own, pswd, kybd, nullread>>
  BY <1>m, Zenon DEF pblc_sign
<1>2. Local("pblc")
  BY <1>m, <1>1 DEF Local, Rest, Mails
<1>3. NullStep
  BY <1>m, <1>1 DEF NullStep, None
<1> QED
  BY <1>m, <1>2, <1>3, LocalIsCalm

LEMMA KybdIsCalm ==
  ASSUME Types, userauth_kybd \/ kybd_send
  PROVE  Calm /\ NullStep
<1>m. call = "kybd" => "kybd" \in Methods
  BY Names DEF Types, None
<1>1. CASE /\ At("kybd", "idle") /\ To("kybd", "created")
           /\ kybd' = TRUE
           /\ UNCHANGED <<queue, call, c, Rest, reqs, own, pswd, pblc, result,
                          nullread>>
  <2>1. Local("kybd")
    BY <1>1 DEF Local, At, Rest, Mails
  <2>2. NullStep
    BY <1>1 DEF NullStep, At
  <2> QED
    BY <1>m, <1>1, <2>1, <2>2, LocalIsCalm DEF At
<1>2. CASE SendRequest("kybd", "created", "sent",
                      [kind |-> "kybd", id |-> reqs + 1])
  BY <1>m, <1>2, SendRequestIsCalm DEF SendRequest, Free, At
<1>3. CASE Success("kybd", "sent") \/ Failure("kybd", "sent")
  BY <1>m, <1>3, SuccessIsCalm DEF Success, Failure, Reply, At
<1>4. CASE /\ Reply("kybd", "sent", "M60")
           /\ \/ To("kybd", "sent1") /\ UNCHANGED <<call, result>>
              \/ /\ kybd \/ "badinfo" \in Troubles
                 /\ IF kybd THEN /\ To("kybd", "idle") /\ call' = None
                                 /\ Ended("kybd", "decode", 0)
                    ELSE UNCHANGED <<st, call, result>>
           /\ UNCHANGED <<c, pswd, pblc, kybd, nullread>>
  <2>1. "kybd" \in Methods /\ call = "kybd"
    BY <1>m, <1>4 DEF Reply, At
  <2>2. call' \in {"kybd", None} /\ (st' = st \/ \E x : To("kybd", x))
    BY <1>4, <2>1, Zenon
  <2>3. Local("kybd")
    BY <1>4, <2>1, <2>2, ReplyTaken DEF Local
  <2>4. NullStep
    BY <1>4, <2>1, <2>2 DEF NullStep, None
  <2> QED
    BY <2>1, <2>3, <2>4, LocalIsCalm
<1>5. CASE kybd_send
  <2>0. call = "kybd" /\ "kybd" \in Methods /\ call # None
    BY <1>m, <1>5 DEF kybd_send, Free, At, None
  <2>1. CASE /\ Send("REQUEST", [kind |-> "answers", id |-> reqs + 1])
             /\ To("kybd", "sent")
             /\ UNCHANGED <<call, c, pswd, pblc, result, nullread>>
    <3>1. Mails
      BY <2>0, <2>1, Sends
    <3>2. Local("kybd")
      BY <2>0, <2>1, <3>1 DEF Local, Send
    <3>3. NullStep
      BY <2>0, <2>1 DEF NullStep
    <3> QED
      BY <2>0, <3>2, <3>3, LocalIsCalm
  <2>2. CASE WouldBlock /\ UNCHANGED authVars
    <3>1. Calm
      BY <2>0, <2>2, BlockedIsCalm DEF authVars
    <3>2. NullStep
      BY <2>2 DEF NullStep, WouldBlock, None, authVars
    <3> QED
      BY <3>1, <3>2
  <2>3. CASE /\ \/ call' = None /\ To("kybd", "idle")
                \/ To("kybd", "sent") /\ UNCHANGED <<call, result>>
             /\ UNCHANGED <<c, queue, Rest, reqs, own, pswd, pblc, kybd, nullread>>
    <3>1. Local("kybd")
      BY <2>0, <2>3 DEF Local, Rest, Mails
    <3>2. NullStep
      BY <2>0, <2>3 DEF NullStep, None
    <3> QED
      BY <2>0, <3>1, <3>2, LocalIsCalm
  <2> QED
    BY <1>5, <2>1, <2>2, <2>3, Zenon DEF kybd_send
<1> QED
  BY <1>1, <1>2, <1>3, <1>4, <1>5, Zenon DEF userauth_kybd

-----------------------------------------------------------------------------
(* Reading, and the start of an exchange                                    *)

(* What holds again after any step of the client, once it is known that the *)
(* first exchange stays done.                                               *)
LEMMA CarriesOver ==
  ASSUME KexInv, offer' = offer, srv' = srv, Mails, FirstDone => FirstDone',
         Moves(queue, toCli, queue', toCli')
  PROVE  /\ IsList(queue') /\ IsList(toCli') /\ IsList(toSrv')
         /\ FlowOK(queue, toCli, offer, srv.n)' /\ Service'
<1>t. Types /\ FlowOK(queue, toCli, offer, srv.n) /\ Progress /\ Service
  BY DEF KexInv
<1>1. IsList(queue') /\ IsList(toCli') /\ FlowOK(queue', toCli', offer', srv'.n)
  BY <1>t, MovesKeep DEF Types
<1>2. IsList(toSrv') /\ Mail(toSrv', FirstDone')
  BY <1>t, MailSent
<1>3. Mail(srv.todo, FirstDone')
  BY <1>t, MailKept DEF Service, Types
<1>4. Service'
  BY <1>t, <1>2, <1>3 DEF Service
<1> QED
  BY <1>1, <1>2, <1>4

LEMMA GoneStays ==
  ASSUME KexInv, Moves(queue, toCli, queue', toCli')
  PROVE  Gone(queue, toCli) => Gone(queue', toCli')
BY MovesKeep DEF KexInv, Types

(* An exchange that begins by sending a KEXINIT.                            *)
Begun(s, t) ==
  /\ Shaped(t) /\ t.exch /\ t.kst = "sent" /\ t.low = "idle"
  /\ t.ready = s.ready /\ t.newkeys = s.newkeys /\ t.local = s.local
  /\ t.rkex = s.rkex

LEMMA KexBegins ==
  ASSUME NEW s, Shaped(s), NEW again \in BOOLEAN, again \/ s.kex = None
  PROVE  Begun(s, KexBegin(s, again)) /\ KexBegin(s, again).inAdd = s.inAdd
<1> DEFINE k == IF again THEN [s EXCEPT !.kex = None, !.hostkey = None] ELSE s
<1>1. /\ Shaped(k) /\ k.kex = None /\ k.ready = s.ready /\ k.newkeys = s.newkeys
      /\ k.local = s.local /\ k.inAdd = s.inAdd /\ k.rkex = s.rkex
  BY DEF Shaped, Fields
<1>2. KexBegin(s, again) =
        [k EXCEPT !.exch = TRUE,
                  !.kst = IF k.kex = None \/ k.hostkey = None THEN "sent"
                          ELSE "sent2",
                  !.low = IF k.kex = None \/ k.hostkey = None THEN "idle"
                          ELSE "init"]
  BY DEF KexBegin
<1> HIDE DEF k
<1> QED
  BY <1>1, <1>2 DEF Begun, Shaped, Fields

LEMMA BeginKeeps ==
  ASSUME KexInv, offer' = offer, srv' = srv, toSrv' = toSrv, call' = call,
         call \in Methods \cup {"handshake"}, result' = result,
         Moves(queue, toCli, queue', toCli'), Begun(c, c'),
         DOMAIN st' = Functions, st'["disconnect"] = st["disconnect"],
         st'["handshake"] \in {"idle", "sent1", "sent4"},
         st'["handshake"] = "idle" => c.ready,
         c.ready => st'["handshake"] = "idle",
         st'["handshake"] = "sent4" => st["handshake"] = "sent4",
         st'["handshake"] = "sent1" => ~c'.inAdd
  PROVE  KexInv'
<1>t. Types /\ Exchange /\ Progress
  BY DEF KexInv
<1>1. FirstDone => FirstDone'
  BY GoneStays DEF FirstDone, Begun
<1>2. Mails
  BY DEF Mails
<1>3. /\ IsList(queue') /\ IsList(toCli') /\ IsList(toSrv')
      /\ FlowOK(queue, toCli, offer, srv.n)' /\ Service'
  BY <1>1, <1>2, CarriesOver
<1>4. Types'
  BY <1>t, <1>3 DEF Types, Begun
<1>5. Exchange'
  BY DEF Exchange, Begun
<1>6. HasKeys => HasKeys'
  BY DEF HasKeys, Begun
<1>7. Progress'
  BY <1>t, <1>1, <1>6, Names DEF Progress, Begun, None
<1> QED
  BY <1>3, <1>4, <1>5, <1>7 DEF KexInv

LEMMA ReceiveKeeps ==
  ASSUME KexInv, Receive, result' = result, call \in Methods \cup {"handshake"},
         c.exch \/ call \in Methods \/ st["handshake"] = "sent4"
  PROVE  KexInv'
<1>t. Types /\ Exchange /\ Progress
  BY DEF KexInv
<1>0. /\ offer' = offer /\ srv' = srv /\ toSrv' = toSrv /\ call' = call /\ st' = st
      /\ toCli # <<>> /\ toCli' = Tail(toCli)
  BY DEF Receive
<1>1. Moves(queue, toCli, queue', toCli')
  BY <1>0 DEF Receive, Moves
<1>2. CASE Alike(c, c')
  <2>1. Calm
    BY <1>t, <1>0, <1>1, <1>2, Names DEF Calm, Mails, Types
  <2> QED
    BY <2>1, CalmKeeps
<1>3. CASE ~c.exch /\ c' = [KexBegin(c, TRUE) EXCEPT !.inAdd = TRUE]
  <2>1. Begun(c, KexBegin(c, TRUE))
    BY <1>t, KexBegins DEF Types
  <2>2. Begun(c, c')
    BY <1>3, <2>1 DEF Begun, Shaped, Fields
  <2>3. (c.ready /\ st["handshake"] = "idle") \/ (~c.ready /\ st["handshake"] = "sent4")
    BY <1>t, <1>3, Names DEF Progress
  <2> QED
    BY <1>t, <1>0, <1>1, <2>2, <2>3, BeginKeeps DEF Types
<1>4. Alike(c, c') \/ (~c.exch /\ c' = [KexBegin(c, TRUE) EXCEPT !.inAdd = TRUE])
  <2>1. Alike(c, c) /\ Alike(c, [c EXCEPT !.signAlgs = Head(toCli).p])
    BY <1>t DEF Types, Alike, Shaped, Fields
  <2> QED
    BY <2>1, Zenon DEF Receive
<1> QED
  BY <1>2, <1>3, <1>4

LEMMA ReadReplyKeeps ==
  ASSUME KexInv, NEW f \in Methods, ReadReply(f)
  PROVE  KexInv' /\ NullStep
<1>t. Types
  BY DEF KexInv
<1>0. call = f /\ f # None
  BY Names DEF ReadReply
<1>1. CASE Receive /\ UNCHANGED authVars
  <2>1. KexInv'
    BY <1>0, <1>1, ReceiveKeeps DEF authVars
  <2>2. NullStep
    BY <1>1 DEF Receive, authVars, NullStep
  <2> QED
    BY <2>1, <2>2
<1>2. CASE NothingYet /\ UNCHANGED authVars
  <2>1. Calm
    BY <1>t, <1>0, <1>2, BlockedIsCalm DEF NothingYet, authVars
  <2>2. NullStep
    BY <1>2 DEF NothingYet, WouldBlock, authVars, NullStep, None
  <2> QED
    BY <2>1, <2>2, CalmKeeps
<1>3. CASE SocketFails(f)
  BY <1>t, <1>0, <1>3, SocketFailsIsCalm, CalmKeeps
<1> QED
  BY <1>1, <1>2, <1>3 DEF ReadReply

LEMMA AuthenticateKeeps ==
  ASSUME KexInv, Authenticate
  PROVE  KexInv' /\ NullStep
<1>t. Types
  BY DEF KexInv
<1>1. CASE \E f \in Methods : ReadReply(f)
  BY <1>1, ReadReplyKeeps
<1>2. CASE ~\E f \in Methods : ReadReply(f)
  <2>1. Calm /\ NullStep
    BY <1>t, <1>2, ListIsCalm, PasswordIsCalm, ChangeIsCalm, HostbasedIsCalm, PublickeyIsCalm,
       SignIsCalm, KybdIsCalm, Zenon DEF Authenticate
  <2> QED
    BY <2>1, CalmKeeps
<1> QED
  BY <1>1, <1>2

-----------------------------------------------------------------------------
(* Startup and disconnect                                                   *)

LEMMA StartupKeeps ==
  ASSUME KexInv, StartupStep
  PROVE  KexInv' /\ NullStep
<1>t. Types /\ Exchange /\ Progress /\ Service
  BY DEF KexInv
<1>0. /\ call = "handshake" /\ ~c.exch /\ ~c.ready /\ call # None
      /\ "handshake" \in DOMAIN st /\ "disconnect" \in DOMAIN st
  BY <1>t, Names DEF StartupStep, Startup, BannerSend, BannerReceive, ServiceRequest,
     ServiceAccept, InStartup, Progress, Types
<1>n. NullStep
  <2>1. call' \in {"handshake", None}
    BY <1>0 DEF StartupStep, Startup, BannerSend, BannerReceive, ServiceRequest,
       ServiceAccept, WouldBlock, NothingYet, StartupFails, Receive
  <2> QED
    BY <2>1 DEF StartupStep, NullStep, None
<1>r. call' # None => result' = result
  BY DEF StartupStep
<1>b. ASSUME WouldBlock
      PROVE  KexInv'
  <2>1. sock = "up" /\ c'.ready = c.ready
    BY <1>t, <1>b DEF WouldBlock, Types, Shaped, Fields
  <2>2. result' = result
    BY <1>0, <2>1 DEF StartupStep
  <2> QED
    BY <1>t, <1>0, <1>b, <2>2, BlockedIsCalm, CalmKeeps
<1>f. ASSUME StartupFails
      PROVE  KexInv'
  <2>1. result'.f = "handshake"
    BY <1>f DEF StartupFails, StartupStep, NoResult
  <2>2. Alike(c, c') /\ Moves(queue, toCli, queue', toCli') /\ Mails
    BY <1>t, <1>f DEF StartupFails, Alike, Moves, Mails, Types
  <2>3. Calm
    BY <1>t, <1>0, <1>f, <2>1, <2>2 DEF Calm, StartupFails, Types
  <2> QED
    BY <2>3, CalmKeeps
<1>1. ASSUME BannerSend
      PROVE  KexInv'
  <2>1. ASSUME Send("IDENT", 0), StartupTo("sent"), UNCHANGED <<call, c>>
        PROVE  KexInv'
    <3>1. Mails /\ UNCHANGED <<offer, srv, toCli, queue>> /\ result' = result
      BY <1>0, <1>r, <2>1, Sends
    <3>2. Moves(queue, toCli, queue', toCli')
      BY <3>1 DEF Moves
    <3>3. FirstDone => FirstDone'
      BY <2>1, <3>1 DEF FirstDone
    <3>4. /\ IsList(queue') /\ IsList(toCli') /\ IsList(toSrv')
          /\ FlowOK(queue, toCli, offer, srv.n)' /\ Service'
      BY <3>1, <3>2, <3>3, CarriesOver
    <3>5. st["handshake"] = "created" /\ st'["handshake"] = "sent" /\ DOMAIN st' = Functions
          /\ st'["disconnect"] = st["disconnect"]
      BY <1>t, <1>0, <1>1, <2>1 DEF BannerSend, InStartup, StartupTo, Types
    <3>6. Types' /\ Exchange'
      BY <1>t, <1>0, <2>1, <3>1, <3>4, <3>5 DEF Types, Exchange
    <3>7. Progress'
      BY <1>t, <1>0, <2>1, <3>1, <3>5, Names DEF Progress
    <3> QED
      BY <3>4, <3>6, <3>7 DEF KexInv
  <2> QED
    BY <1>1, <1>b, <1>f, <2>1 DEF BannerSend
<1>2. ASSUME BannerReceive
      PROVE  KexInv'
  <2>1. ASSUME toCli # <<>>, toCli' = Tail(toCli),
               UNCHANGED <<offer, sock, toSrv, queue, call, srv, garbled>>
        PROVE  Moves(queue, toCli, queue', toCli') /\ Mails /\ result' = result
    BY <1>0, <1>r, <2>1 DEF Moves, Mails
  <2>2. ASSUME toCli # <<>>, toCli' = Tail(toCli), StartupTo("sent1"), c' = KexBegin(c, FALSE),
               UNCHANGED <<offer, sock, toSrv, queue, call, srv, garbled>>
        PROVE  KexInv'
    <3>1. c.kex = None /\ ~c.inAdd
      BY <1>t, <1>0, <1>2 DEF BannerReceive, InStartup, Progress
    <3>2. Begun(c, c') /\ ~c'.inAdd
      BY <1>t, <2>2, <3>1, KexBegins DEF Types
    <3>3. st'["handshake"] = "sent1" /\ DOMAIN st' = Functions
          /\ st'["disconnect"] = st["disconnect"]
      BY <1>t, <1>0, <2>2 DEF StartupTo, Types
    <3> QED
      BY <1>0, <2>1, <2>2, <3>2, <3>3, BeginKeeps
  <2>3. ASSUME toCli # <<>>, toCli' = Tail(toCli),
               UNCHANGED <<offer, sock, toSrv, queue, call, srv, garbled, st, c>>
        PROVE  KexInv'
    <3>1. Alike(c, c')
      BY <1>t, <2>3 DEF Alike, Types
    <3>2. Calm
      BY <1>t, <1>0, <2>1, <2>3, <3>1 DEF Calm, Types
    <3> QED
      BY <3>2, CalmKeeps
  <2> QED
    BY <1>2, <1>b, <1>f, <2>2, <2>3 DEF BannerReceive, NothingYet
<1>3. ASSUME ServiceRequest
      PROVE  KexInv'
  <2>1. ASSUME Send("SERVICE_REQUEST", 0), StartupTo("sent4"), UNCHANGED <<call, c>>
        PROVE  KexInv'
    <3>0. st["handshake"] = "sent2"
      BY <1>3 DEF ServiceRequest, InStartup
    <3>1. Mails /\ UNCHANGED <<offer, srv, toCli, queue>> /\ result' = result
      BY <1>0, <1>r, <2>1, <3>0, Sends
    <3>2. Moves(queue, toCli, queue', toCli')
      BY <3>1 DEF Moves
    <3>3. (FirstDone => FirstDone') /\ (HasKeys => HasKeys')
      BY <2>1, <3>1 DEF FirstDone, HasKeys
    <3>4. /\ IsList(queue') /\ IsList(toCli') /\ IsList(toSrv')
          /\ FlowOK(queue, toCli, offer, srv.n)' /\ Service'
      BY <3>1, <3>2, <3>3, CarriesOver
    <3>5. st'["handshake"] = "sent4" /\ DOMAIN st' = Functions
          /\ st'["disconnect"] = st["disconnect"]
      BY <1>t, <1>0, <2>1 DEF StartupTo, Types
    <3>6. Types' /\ Exchange'
      BY <1>t, <1>0, <2>1, <3>1, <3>4, <3>5 DEF Types, Exchange
    <3>7. Progress'
      BY <1>t, <1>0, <2>1, <3>0, <3>1, <3>3, <3>5, Names DEF Progress
    <3> QED
      BY <3>4, <3>6, <3>7 DEF KexInv
  <2> QED
    BY <1>3, <1>b, <1>f, <2>1 DEF ServiceRequest
<1>4. ASSUME ServiceAccept
      PROVE  KexInv'
  <2>0. st["handshake"] = "sent4"
    BY <1>4 DEF ServiceAccept, InStartup
  <2>1. ASSUME Ask("SERVICE_ACCEPT") # 0, queue' = RemoveAt(queue, Ask("SERVICE_ACCEPT")),
               StartupTo("idle"), call' = None, c' = [c EXCEPT !.ready = TRUE],
               UNCHANGED <<offer, sock, toSrv, toCli, srv, garbled>>
        PROVE  KexInv'
    <3>1. Ask("SERVICE_ACCEPT") \in 1..Len(queue)
      BY <1>t, <2>1, Asked DEF Types
    <3>2. Moves(queue, toCli, queue', toCli') /\ Mails
      BY <2>1, <3>1 DEF Moves, Mails
    <3>3. /\ Shaped(c') /\ c'.ready /\ c'.exch = c.exch /\ c'.kst = c.kst /\ c'.low = c.low
          /\ c'.newkeys = c.newkeys /\ c'.local = c.local /\ c'.rkex = c.rkex
      BY <1>t, <2>1 DEF Types, Shaped, Fields
    <3>4. (FirstDone => FirstDone') /\ (HasKeys => HasKeys')
      BY <2>1, <3>2, <3>3, GoneStays DEF FirstDone, HasKeys
    <3>5. /\ IsList(queue') /\ IsList(toCli') /\ IsList(toSrv')
          /\ FlowOK(queue, toCli, offer, srv.n)' /\ Service'
      BY <2>1, <3>2, <3>4, CarriesOver
    <3>6. st'["handshake"] = "idle" /\ DOMAIN st' = Functions
          /\ st'["disconnect"] = st["disconnect"]
      BY <1>t, <1>0, <2>1 DEF StartupTo, Types
    <3>7. Types' /\ Exchange'
      BY <1>t, <1>0, <2>1, <3>3, <3>5, <3>6 DEF Types, Exchange
    <3>8. Progress'
      BY <1>t, <1>0, <2>0, <2>1, <3>3, <3>4, <3>6, Names DEF Progress, None
    <3> QED
      BY <3>5, <3>7, <3>8 DEF KexInv
  <2>2. ASSUME Receive
        PROVE  KexInv'
    <3>1. result' = result
      BY <1>0, <1>r, <2>2 DEF Receive
    <3> QED
      BY <1>0, <2>0, <2>2, <3>1, ReceiveKeeps
  <2> QED
    BY <1>4, <1>b, <1>f, <2>1, <2>2 DEF ServiceAccept, NothingYet
<1> QED
  BY <1>n, <1>1, <1>2, <1>3, <1>4 DEF StartupStep, Startup

LEMMA DisconnectKeeps ==
  ASSUME KexInv, session_disconnect
  PROVE  KexInv' /\ NullStep
<1>t. Types
  BY DEF KexInv
<1>0. call = "disconnect" /\ call # None /\ "disconnect" \in DOMAIN st
  BY <1>t, Names DEF session_disconnect, At, Types, None
<1>1. Calm
  <2>1. ASSUME Mails, UNCHANGED <<offer, srv, toCli, queue>>, call' = None,
               To("disconnect", "idle"), c' = [c EXCEPT !.closed = TRUE], result' = result
        PROVE  Calm
    <3>1. Alike(c, c') /\ Moves(queue, toCli, queue', toCli')
      BY <1>t, <2>1 DEF Types, Alike, Shaped, Fields, Moves
    <3> QED
      BY <1>t, <1>0, <2>1, <3>1, Names DEF Calm, To, Types
  <2>2. ASSUME Send("DISCONNECT", 0)
        PROVE  Mails /\ UNCHANGED <<offer, srv, toCli, queue>>
    BY <2>2, Sends
  <2>3. ASSUME UNCHANGED <<queue, Rest>>
        PROVE  Mails /\ UNCHANGED <<offer, srv, toCli, queue>>
    BY <2>3 DEF Rest, Mails
  <2>4. ASSUME WouldBlock, result' = result
        PROVE  Calm
    BY <1>t, <1>0, <2>4, BlockedIsCalm
  <2> QED
    BY <2>1, <2>2, <2>3, <2>4 DEF session_disconnect
<1>2. NullStep
  BY <1>0 DEF session_disconnect, NullStep, WouldBlock, None
<1> QED
  BY <1>1, <1>2, CalmKeeps

-----------------------------------------------------------------------------
(* The exchange                                                             *)

(* Every method of the table is one of the three families.                  *)
Usable(m) == m.fam \in {"dh", "ecdh", "curve"} /\ m.init \in {"INIT", "GEX_INIT"}

LEMMA Table ==
  \A k \in DOMAIN kex_methods : Usable(kex_methods[k])
<1>1. \A g, h : Usable(dh(g, h))
  BY DEF Usable, dh
<1>2. Usable(gex_sha1) /\ Usable(gex_sha256)
  BY DEF Usable, gex_sha1, gex_sha256, dh
<1>3. Usable(curve25519) /\ \A e : Usable(ecdh(e))
  BY DEF Usable, curve25519, ecdh
<1>4. /\ Usable(group1_sha1) /\ Usable(group14_sha1) /\ Usable(group14_sha256)
      /\ Usable(group16_sha512) /\ Usable(group18_sha512)
  BY <1>1 DEF group1_sha1, group14, group14_sha1, group14_sha256, group16_sha512,
     group18_sha512
<1> QED
  BY <1>2, <1>3, <1>4 DEF kex_methods

(* How an exchange ends.                                                    *)
Over(s, t) ==
  /\ Shaped(t) /\ ~t.exch /\ t.kst = "idle" /\ t.low = "idle" /\ ~t.inAdd
  /\ t.ready = s.ready /\ t.newkeys = s.newkeys /\ t.local = s.local

LEMMA KexEnds ==
  ASSUME NEW s, Shaped(s)
  PROVE  /\ Over(s, KexEnd(s)) /\ Over(s, [KexEnd(s) EXCEPT !.failed = TRUE])
         /\ [KexEnd(s) EXCEPT !.failed = TRUE].failed
         /\ [KexEnd(s) EXCEPT !.failed = TRUE].auth = s.auth
         /\ KexEnd(s).failed = s.failed
BY DEF KexEnd, Over, Shaped, Fields

(* Who may run one.                                                         *)
LEMMA Running ==
  ASSUME KexInv, KexRunning
  PROVE  /\ c.exch /\ call # None /\ call \in Methods \cup {"handshake"}
         /\ st["disconnect"] = "idle" /\ c.kst \in {"sent", "sent1", "sent2"}
         /\ call \in Functions /\ st["handshake"] \in {"idle", "sent1", "sent2", "sent4"}
         /\ st["handshake"] = "idle" => c.ready
         /\ st["handshake"] = "sent1" => call = "handshake" /\ ~c.inAdd
BY Names DEF KexInv, Types, KexRunning, Progress, Exchange

(* What KeyExchange adds to a step of the exchange.                         *)
Outcome ==
  /\ call' = None /\ ~c'.exch => result'.f = call
  /\ ~(call' = None /\ ~c'.exch) => result' = result

LEMMA FailKeeps ==
  ASSUME KexInv, KexRunning, NEW s, SameBut(c, s), KexFail(s), Outcome,
         UNCHANGED <<offer, srv, toSrv>>, Moves(queue, toCli, queue', toCli')
  PROVE  KexInv'
<1>t. Types /\ Exchange /\ Progress
  BY DEF KexInv
<1>0. /\ c.exch /\ call # None /\ call \in Methods \cup {"handshake"}
      /\ st["disconnect"] = "idle" /\ call \in Functions
      /\ st["handshake"] \in {"idle", "sent1", "sent2", "sent4"}
      /\ st["handshake"] = "idle" => c.ready
      /\ st["handshake"] = "sent1" => call = "handshake" /\ ~c.inAdd
  BY Running
<1>1. Over(s, c')
  BY KexEnds DEF KexFail, SameBut
<1>2. /\ Shaped(c') /\ ~c'.exch /\ c'.kst = "idle" /\ c'.low = "idle" /\ ~c'.inAdd
      /\ c'.ready = c.ready /\ c'.newkeys = c.newkeys /\ c'.local.keys = c.local.keys
  BY <1>1 DEF Over, SameBut
<1>3. /\ DOMAIN st' = Functions /\ st'["handshake"] = st["handshake"]
      /\ st'["disconnect"] = "idle"
      /\ call' \in {call, None} /\ (~c.inAdd /\ call # "kybd" => call' = None)
  BY <1>t, <1>0, Names DEF KexFail, Types, AfterError, Resumes
<1>4. FirstDone => FirstDone'
  BY <1>2, GoneStays DEF FirstDone
<1>5. Mails
  BY DEF Mails
<1>6. /\ IsList(queue') /\ IsList(toCli') /\ IsList(toSrv')
      /\ FlowOK(queue, toCli, offer, srv.n)' /\ Service'
  BY <1>4, <1>5, CarriesOver
<1>7. Types' /\ Exchange'
  BY <1>t, <1>2, <1>3, <1>6 DEF Types, Exchange
<1>8. HasKeys => HasKeys'
  BY <1>2 DEF HasKeys
<1>9. st'["handshake"] = "sent1" => result'.f = "handshake"
  BY <1>0, <1>2, <1>3 DEF Outcome
<1>10. Progress'
  BY <1>t, <1>0, <1>2, <1>3, <1>4, <1>8, <1>9, Names DEF Progress, None
<1> QED
  BY <1>6, <1>7, <1>10 DEF KexInv

LEMMA FailsDown ==
  ASSUME KexInv, KexRunning, KexFail(c), Outcome,
         UNCHANGED <<offer, sock, toSrv, toCli, queue, srv, garbled>>
  PROVE  KexInv'
<1>1. SameBut(c, c) /\ Moves(queue, toCli, queue', toCli')
  BY DEF SameBut, Moves, KexInv, Types
<1> QED
  BY <1>1, FailKeeps

LEMMA BlockedKeeps ==
  ASSUME KexInv, KexRunning, WouldBlock, Outcome
  PROVE  KexInv'
<1>1. Types /\ c.exch /\ call # None
  BY Running DEF KexInv
<1>2. c'.exch
  BY <1>1 DEF WouldBlock, Types, Shaped, Fields
<1>3. result' = result
  BY <1>2 DEF Outcome
<1> QED
  BY <1>1, <1>3, BlockedIsCalm, CalmKeeps

LEMMA KexinitKeeps ==
  ASSUME KexInv, kexinit, Outcome
  PROVE  KexInv'
<1>t. Types /\ Exchange /\ Progress
  BY DEF KexInv
<1>r. KexRunning /\ c.kst = "sent"
  BY DEF kexinit
<1>0. /\ c.exch /\ call # None /\ call \in Methods \cup {"handshake"}
      /\ st["disconnect"] = "idle" /\ call \in Functions
      /\ st["handshake"] \in {"idle", "sent1", "sent2", "sent4"}
      /\ st["handshake"] = "idle" => c.ready
      /\ st["handshake"] = "sent1" => call = "handshake" /\ ~c.inAdd
  BY <1>r, Running
<1>1. ASSUME Send("KEXINIT", c.nkex + 1), UNCHANGED <<call, st>>,
             c' = [c EXCEPT !.kst = "sent1", !.nkex = @ + 1, !.lkex = c.nkex + 1]
      PROVE  KexInv'
  <2>1. Mails /\ UNCHANGED <<offer, srv, toCli, queue>>
    BY <1>1, Sends
  <2>2. Moves(queue, toCli, queue', toCli')
    BY <2>1 DEF Moves
  <2>3. /\ Shaped(c') /\ c'.exch = c.exch /\ c'.kst = "sent1" /\ c'.low = c.low
        /\ c'.inAdd = c.inAdd /\ c'.ready = c.ready /\ c'.newkeys = c.newkeys
        /\ c'.local = c.local
    BY <1>t, <1>1 DEF Types, Shaped, Fields
  <2>4. FirstDone => FirstDone'
    BY <2>1, <2>3 DEF FirstDone
  <2>5. /\ IsList(queue') /\ IsList(toCli') /\ IsList(toSrv')
        /\ FlowOK(queue, toCli, offer, srv.n)' /\ Service'
    BY <2>1, <2>2, <2>4, CarriesOver
  <2>6. Types'
    BY <1>t, <1>1, <2>1, <2>3, <2>5 DEF Types
  <2>7. Exchange'
    BY <1>t, <1>r, <2>3 DEF Exchange
  <2>8. HasKeys => HasKeys'
    BY <2>3 DEF HasKeys
  <2>9. Progress'
    BY <1>t, <1>0, <1>1, <2>3, <2>4, <2>8, Names DEF Progress
  <2> QED
    BY <2>5, <2>6, <2>7, <2>9 DEF KexInv
<1>2. ASSUME WouldBlock
      PROVE  KexInv'
  BY <1>r, <1>2, BlockedKeeps
<1>3. ASSUME KexFail(c), UNCHANGED <<offer, sock, toSrv, toCli, queue, srv, garbled>>
      PROVE  KexInv'
  BY <1>r, <1>3, FailsDown
<1> QED
  BY <1>1, <1>2, <1>3 DEF kexinit

LEMMA KexSendKeeps ==
  ASSUME KexInv, KexSend, Outcome
  PROVE  KexInv'
<1>t. Types
  BY DEF KexInv
<1>r. KexRunning /\ c.kst = "sent2" /\ c.low \in {"request", "init", "sendnew"}
  BY DEF KexSend, LowNext
<1>0. c.exch /\ call # None
  BY <1>r, Running
<1>1. ASSUME Send(LowSends[c.low], 0), c' = [c EXCEPT !.low = LowNext[c.low]],
             UNCHANGED <<call, st>>
      PROVE  KexInv'
  <2>1. LowSends[c.low] \notin {"REQUEST", "SERVICE_REQUEST"}
    <3>1. M.init \in {"INIT", "GEX_INIT"}
      <4>1. c.kex \in DOMAIN kex_methods
        BY <1>r, <1>0 DEF KexInv, Exchange, Agreed
      <4> QED
        BY <4>1, Table DEF M, Usable
    <3> QED
      BY <1>r, <3>1 DEF LowSends
  <2>2. Mails /\ UNCHANGED <<offer, srv, toCli, queue>>
    BY <1>1, <2>1, Sends
  <2>3. Moves(queue, toCli, queue', toCli')
    BY <2>2 DEF Moves
  <2>4. Alike(c, c') /\ c'.exch
    BY <1>t, <1>r, <1>0, <1>1 DEF Types, Alike, Shaped, Fields
  <2>5. result' = result
    BY <2>4 DEF Outcome
  <2>6. Calm
    BY <1>t, <1>0, <1>1, <2>2, <2>3, <2>4, <2>5 DEF Calm, Types
  <2> QED
    BY <2>6, CalmKeeps
<1>2. ASSUME WouldBlock
      PROVE  KexInv'
  BY <1>r, <1>2, BlockedKeeps
<1>3. ASSUME KexFail(c), UNCHANGED <<offer, sock, toSrv, toCli, queue, srv, garbled>>
      PROVE  KexInv'
  BY <1>r, <1>3, FailsDown
<1> QED
  BY <1>1, <1>2, <1>3 DEF KexSend

LEMMA KexReadKeeps ==
  ASSUME KexInv, KexRead, Outcome
  PROVE  KexInv'
<1>t. Types
  BY DEF KexInv
<1>r. KexRunning
  BY DEF KexRead
<1>0. c.exch /\ call # None /\ call \in Methods \cup {"handshake"}
  BY <1>r, Running
<1>1. ASSUME Receive
      PROVE  KexInv'
  <2>1. result' = result
    BY <1>0, <1>1 DEF Receive, Outcome
  <2> QED
    BY <1>0, <1>1, <2>1, ReceiveKeeps
<1>2. ASSUME WouldBlock
      PROVE  KexInv'
  BY <1>r, <1>2, BlockedKeeps
<1>3. ASSUME KexFail(c), UNCHANGED <<offer, sock, toSrv, toCli, queue, srv, garbled>>
      PROVE  KexInv'
  BY <1>r, <1>3, FailsDown
<1> QED
  BY <1>1, <1>2, <1>3 DEF KexRead, NothingYet

(* The packet that the exchange waits for.                                  *)
LEMMA Found ==
  ASSUME Types, KexWaits, KexFound # 0, c.kst # "sent2" => c.low = "idle"
  PROVE  /\ KexFound \in 1..Len(queue)
         /\ c.kst = "sent1" => queue[KexFound].t = "KEXINIT"
<1>l. IsList(queue)
  BY DEF Types
<1>1. CASE c.kst = "sent1"
  <2>1. c.low = "idle"
    BY <1>1
  <2>2. KexFound = Ask("KEXINIT")
    BY <1>1, <2>1 DEF KexFound
  <2> QED
    BY <1>l, <2>2, Asked
<1>2. CASE c.kst # "sent1"
  <2>1. \/ \E t : KexFound = Ask(t)
        \/ KexFound = Burnt
    BY <1>2 DEF KexFound, KexWaits
  <2> QED
    BY <1>l, <1>2, <2>1, Asked, Burns
<1> QED
  BY <1>1, <1>2

(* New keys are not the empty ones.                                         *)
LEMMA InstallMakes ==
  ASSUME Types, c.kex \in DOMAIN kex_methods
  PROVE  /\ Shaped(Installed(c)) /\ Installed(c).newkeys
         /\ Installed(c).local.keys # NoKeys /\ Installed(c).ready = c.ready
<1> DEFINE sid == FirstHash(c)
           new == NewKeys(c.h, sid)
<1>1. M.fam \in {"dh", "ecdh", "curve"}
  BY Table DEF M, Usable
<1>2. new.local = <<"ACE", c.h, sid>>
  BY <1>1 DEF NewKeys, dh_keys, ecdh_keys, curve_keys, value_hash
<1>3. <<"ACE", c.h, sid>> # <<>>
  OBVIOUS
<1>4. new.local # NoKeys
  BY <1>2, <1>3 DEF NoKeys
<1>5. Installed(c) = [c EXCEPT !.newkeys = TRUE, !.sid = sid,
                               !.local.keys = new.local, !.remote.keys = new.remote]
  BY DEF Installed, Install
<1> HIDE DEF new, sid
<1> QED
  BY <1>4, <1>5 DEF Types, Shaped, Fields, EndFields

LEMMA TakeKeeps ==
  ASSUME KexInv, KexTake, Outcome
  PROVE  KexInv'
<1>t. Types /\ Exchange /\ Progress /\ Service /\ FlowOK(queue, toCli, offer, srv.n)
  BY DEF KexInv
<1>r. KexRunning /\ KexWaits /\ KexFound # 0
  BY DEF KexTake
<1>0. /\ c.exch /\ call # None /\ call \in Methods \cup {"handshake"}
      /\ st["disconnect"] = "idle" /\ c.kst \in {"sent", "sent1", "sent2"}
      /\ call \in Functions
      /\ st["handshake"] \in {"idle", "sent1", "sent2", "sent4"}
      /\ st["handshake"] = "idle" => c.ready
      /\ st["handshake"] = "sent1" => call = "handshake" /\ ~c.inAdd
  BY <1>r, Running
<1>l. c.kst # "sent2" => c.low = "idle"
  BY <1>t DEF Exchange
<1> DEFINE k == KexFound
           m == queue[k]
           s == agree_methods(c, offer.cli, m.p.lists, m.p.follows)
<1>1. k \in 1..Len(queue) /\ (c.kst = "sent1" => m.t = "KEXINIT")
  BY <1>t, <1>r, <1>l, Found
<1>2. /\ queue' = RemoveAt(queue, k)
      /\ UNCHANGED <<offer, sock, toSrv, toCli, srv, garbled>>
  BY DEF KexTake
<1>3. Moves(queue, toCli, queue', toCli') /\ Mails
  BY <1>1, <1>2 DEF Moves, Mails
<1>4. CASE c.kst = "sent1"
  <2>0. c.low = "idle" /\ c.kst # "sent2"
    BY <1>4, <1>l
  <2>1. \/ /\ s.agreed /\ UNCHANGED <<call, st>>
           /\ c' = [s EXCEPT !.kst = "sent2", !.rkex = m.p.n,
                             !.low = IF kex_methods[s.kex].request
                                     THEN "request" ELSE "init"]
        \/ ~s.agreed /\ KexFail(s)
    BY <1>4, <2>0, Zenon DEF KexTake
  <2>2. m.p.n \in 1..srv.n /\ m.p.lists = ListsOf(offer, m.p.n)
    BY <1>t, <1>1, <1>4 DEF FlowOK, AllServed, FromServer
  <2>3. /\ \A l \in Lists : IsList(offer.cli[l]) /\ IsList(m.p.lists[l])
        /\ ToSet(offer.cli.kex) \subseteq DOMAIN kex_methods
    <3>1. offer \in Offers
      BY <1>t DEF Types
    <3>2. \A l \in Lists : IsList(offer.cli[l]) /\ IsList(offer.srv[l]) /\ IsList(offer.later[l])
      BY <3>1, KexAssumption DEF IsList
    <3>3. ToSet(offer.cli.kex) \subseteq DOMAIN kex_methods
      BY <3>1, KexAssumption
    <3> QED
      BY <2>2, <3>2, <3>3 DEF ListsOf
  <2>4. /\ SameBut(c, s)
        /\ s.agreed => /\ Chosen(s, Rfc(offer.cli, m.p.lists))
                       /\ Rfc(offer.cli, m.p.lists).kex \in ToSet(offer.cli.kex)
    BY <1>t, <2>3, Agreement DEF Types
  <2> HIDE DEF s
  <2>5. CASE ~s.agreed /\ KexFail(s)
    BY <1>r, <1>2, <1>3, <2>4, <2>5, FailKeeps
  <2>6. CASE /\ s.agreed /\ UNCHANGED <<call, st>>
             /\ c' = [s EXCEPT !.kst = "sent2", !.rkex = m.p.n,
                               !.low = IF kex_methods[s.kex].request
                                       THEN "request" ELSE "init"]
    <3>1. /\ Shaped(c') /\ c'.kst = "sent2" /\ c'.rkex = m.p.n /\ c'.exch = c.exch
          /\ c'.inAdd = c.inAdd /\ c'.ready = c.ready /\ c'.newkeys = c.newkeys
          /\ c'.local = s.local /\ c'.local.keys = c.local.keys
          /\ c'.remote = s.remote /\ c'.kex = s.kex /\ c'.hostkey = s.hostkey
      BY <2>4, <2>6 DEF SameBut, Shaped, Fields
    <3>2. result' = result
      BY <1>0, <2>6 DEF Outcome
    <3>3. m.p.n = 1 => ~Gone(queue, toCli) /\ Gone(queue', toCli')
      <4> SUFFICES ASSUME m.p.n = 1
                   PROVE  ~Gone(queue, toCli) /\ Gone(queue', toCli')
        OBVIOUS
      <4>1. IsFirst(queue[k])
        BY <1>1, <1>4 DEF IsFirst
      <4>2. ~NoneFirst(queue)
        BY <1>1, <4>1 DEF NoneFirst
      <4>3. NoneFirst(toCli) /\ OneFirst(queue)
        BY <1>t, <4>2 DEF FlowOK
      <4>4. NoneFirst(queue')
        BY <1>t, <1>1, <1>2, <4>1, <4>3, RemoveKeeps DEF Types
      <4> QED
        BY <1>2, <4>2, <4>3, <4>4 DEF Gone
    <3>4. FirstDone => FirstDone'
      BY <1>2, <1>3, <3>1, <3>3, GoneStays DEF FirstDone
    <3>5. /\ IsList(queue') /\ IsList(toCli') /\ IsList(toSrv')
          /\ FlowOK(queue, toCli, offer, srv.n)' /\ Service'
      BY <1>2, <1>3, <3>4, CarriesOver
    <3>6. Types'
      BY <1>t, <1>2, <2>6, <3>1, <3>5 DEF Types
    <3>7. Agreed(c', offer, m.p.n)
      <4>1. Chosen(s, Rfc(offer.cli, ListsOf(offer, m.p.n)))
        BY <2>2, <2>4, <2>6
      <4>2. s.kex \in DOMAIN kex_methods
        BY <2>3, <2>4, <2>6 DEF Chosen
      <4> QED
        BY <3>1, <4>1, <4>2 DEF Agreed, Chosen
    <3>8. Exchange'
      BY <1>2, <2>2, <3>1, <3>3, <3>7 DEF Exchange
    <3>9. HasKeys => HasKeys'
      BY <3>1 DEF HasKeys
    <3>10. Progress'
      BY <1>t, <1>0, <2>6, <3>1, <3>2, <3>4, <3>9, Names DEF Progress
    <3> QED
      BY <3>5, <3>6, <3>8, <3>10 DEF KexInv
  <2> QED
    BY <2>1, <2>5, <2>6
<1>5. CASE c.kst # "sent1"
  <2>0. c.kst = "sent2"
    BY <1>r, <1>0, <1>l, <1>5 DEF KexWaits
  <2>a. c.rkex \in 1..srv.n /\ Agreed(c, offer, c.rkex) /\ (c.rkex = 1 => Gone(queue, toCli))
    BY <1>t, <1>0, <2>0 DEF Exchange
  <2>1. ASSUME UNCHANGED <<call, st>>, Alike(c, c')
        PROVE  KexInv'
    <3>1. result' = result
      BY <1>0, <2>1 DEF Outcome
    <3>2. Calm
      BY <1>t, <1>0, <1>2, <1>3, <2>1, <3>1 DEF Calm, Types
    <3> QED
      BY <3>2, CalmKeeps
  <2>2. CASE UNCHANGED <<call, st>> /\ c' = [c EXCEPT !.low = "init"]
    BY <1>t, <2>0, <2>1, <2>2 DEF Types, Alike, Shaped, Fields
  <2>3. CASE UNCHANGED <<call, st>> /\ c' = [c EXCEPT !.low = "waitreply", !.burn = FALSE]
    BY <1>t, <2>0, <2>1, <2>3 DEF Types, Alike, Shaped, Fields
  <2>4. CASE UNCHANGED <<call, st>> /\ c' = [c EXCEPT !.low = "sendnew", !.h = m.p.h]
    <3> HIDE DEF m
    <3> QED
      BY <1>t, <2>0, <2>1, <2>4 DEF Types, Alike, Shaped, Fields
  <2>5. CASE KexFail(c)
    <3>1. SameBut(c, c)
      BY <1>t DEF SameBut, Types
    <3> QED
      BY <1>r, <1>2, <1>3, <2>5, <3>1, FailKeeps
  <2>6. CASE /\ c' = KexEnd(Installed(c)) /\ UNCHANGED call
             /\ st' = [st EXCEPT !["handshake"] =
                          IF @ = "sent1" THEN "sent2" ELSE @]
    <3>1. /\ Shaped(Installed(c)) /\ Installed(c).newkeys
          /\ Installed(c).local.keys # NoKeys /\ Installed(c).ready = c.ready
      BY <1>t, <2>a, InstallMakes DEF Agreed
    <3>2. /\ Shaped(c') /\ ~c'.exch /\ c'.kst = "idle" /\ c'.low = "idle" /\ ~c'.inAdd
          /\ c'.ready = c.ready /\ c'.newkeys /\ c'.local.keys # NoKeys
      BY <2>6, <3>1, KexEnds DEF Over
    <3>3. /\ DOMAIN st' = Functions /\ st'["disconnect"] = "idle"
          /\ st'["handshake"] = IF st["handshake"] = "sent1" THEN "sent2"
                                ELSE st["handshake"]
      BY <1>t, <1>0, <2>6, Names DEF Types
    <3>4. result' = result
      BY <1>0, <2>6 DEF Outcome
    <3>5. Gone(queue, toCli) /\ srv.n >= 1
      <4>1. CASE srv.n = 1
        BY <1>t, <2>a, <4>1 DEF Types
      <4>2. CASE srv.n # 1
        <5>1. srv.n >= 2
          BY <1>t, <2>a, <4>2 DEF Types
        <5> QED
          BY <1>t, <5>1 DEF Service, FirstDone, Types
      <4> QED
        BY <4>1, <4>2
    <3>6. FirstDone' /\ HasKeys'
      BY <1>2, <1>3, <3>2, <3>5, GoneStays DEF FirstDone, HasKeys
    <3>7. /\ IsList(queue') /\ IsList(toCli') /\ IsList(toSrv')
          /\ FlowOK(queue, toCli, offer, srv.n)' /\ Service'
      BY <1>2, <1>3, <3>6, CarriesOver
    <3>8. Types' /\ Exchange'
      BY <1>t, <1>2, <2>6, <3>2, <3>3, <3>7 DEF Types, Exchange
    <3>9. Progress'
      BY <1>t, <1>0, <2>6, <3>2, <3>3, <3>4, <3>6, Names DEF Progress
    <3> QED
      BY <3>7, <3>8, <3>9 DEF KexInv
  <2> HIDE DEF s
  <2> QED
    BY <1>5, <2>2, <2>3, <2>4, <2>5, <2>6, Zenon DEF KexTake
<1> QED
  BY <1>4, <1>5

LEMMA KeyExchangeKeeps ==
  ASSUME KexInv, KeyExchange
  PROVE  KexInv' /\ NullStep
<1>t. Types /\ Progress
  BY DEF KexInv
<1>r. KexRunning
  BY DEF KeyExchange, KexStep, kexinit, KexSend, KexTake, KexRead
<1>1. Outcome
  <2>1. CASE call' = None /\ ~c'.exch
    BY <2>1 DEF KeyExchange, Outcome, Ended
  <2>2. CASE ~(call' = None /\ ~c'.exch)
    BY <2>2, Zenon DEF KeyExchange, Outcome
  <2> QED
    BY <2>1, <2>2
<1>2. KexInv'
  BY <1>1, KexinitKeeps, KexSendKeeps, TakeKeeps, KexReadKeeps, Zenon DEF KeyExchange, KexStep
<1>3. call' = None \/ (call' = call /\ (call = "pswd" => st'["pswd"] = st["pswd"]))
  <2>0. call = "pswd" => "pswd" \in DOMAIN st /\ "pswd" # "handshake"
    BY <1>t DEF Types, None
  <2>f. ASSUME NEW s, KexFail(s)
        PROVE  call' = None \/ (call' = call /\ (call = "pswd" => st' = st))
    BY <2>f DEF KexFail, Resumes
  <2>1. CASE kexinit \/ KexSend
    BY <2>1, <2>f DEF kexinit, KexSend, WouldBlock
  <2>2. CASE KexRead
    BY <2>2, <2>f DEF KexRead, Receive, NothingYet, WouldBlock
  <2>3. CASE KexTake
    <3>1. \/ UNCHANGED <<call, st>>
          \/ \E s : KexFail(s)
          \/ /\ st' = [st EXCEPT !["handshake"] = IF @ = "sent1" THEN "sent2" ELSE @]
             /\ UNCHANGED call
      BY <2>3, Zenon DEF KexTake
    <3> QED
      BY <2>0, <2>f, <3>1
  <2> QED
    BY <2>1, <2>2, <2>3 DEF KeyExchange, KexStep
<1>4. NullStep
  <2>1. nullread' = nullread /\ (call' = None \/ pswd' = pswd)
    BY Zenon DEF KeyExchange
  <2> QED
    BY <1>3, <2>1 DEF NullStep, None
<1> QED
  BY <1>2, <1>4

-----------------------------------------------------------------------------
(* The calls of the program                                                 *)

LEMMA CallKeeps ==
  ASSUME KexInv, NEW f \in Functions, Call(f), "retry" \notin Troubles
  PROVE  KexInv'
<1>t. Types /\ Exchange /\ Progress
  BY DEF KexInv
<1>0. /\ call = None /\ call' = f /\ MayCall(f) /\ f # None
      /\ UNCHANGED <<offer, srv, toSrv, toCli, queue, result>>
      /\ "handshake" \in DOMAIN st /\ "disconnect" \in DOMAIN st /\ f \in DOMAIN st
  BY <1>t, Names DEF Call, Rest, Types
<1>1. Moves(queue, toCli, queue', toCli') /\ Mails
  BY <1>0 DEF Moves, Mails
<1>2. CASE f = "handshake"
  <2>1. /\ ~c.ready /\ st["disconnect"] = "idle" /\ result.f # "handshake"
    BY <1>0, <1>2 DEF MayCall
  <2>2. ~(st["handshake"] = "sent1" /\ c.kst = "idle")
    BY <1>t, <2>1 DEF Progress
  <2>3. /\ st' = [st EXCEPT !["handshake"] = IF @ = "idle" THEN "created" ELSE @]
        /\ c' = c
    BY <1>2, <2>2 DEF Call
  <2>4. /\ DOMAIN st' = Functions /\ st'["disconnect"] = "idle"
        /\ st'["handshake"] = IF st["handshake"] = "idle" THEN "created"
                              ELSE st["handshake"]
    BY <1>t, <1>0, <2>1, <2>3 DEF Types
  <2>5. (FirstDone => FirstDone') /\ (HasKeys => HasKeys')
    BY <1>0, <2>3 DEF FirstDone, HasKeys
  <2>6. /\ IsList(queue') /\ IsList(toCli') /\ IsList(toSrv')
        /\ FlowOK(queue, toCli, offer, srv.n)' /\ Service'
    BY <1>0, <1>1, <2>5, CarriesOver
  <2>7. Types' /\ Exchange'
    BY <1>t, <1>0, <2>3, <2>4, <2>6 DEF Types, Exchange
  <2>8. Progress'
    BY <1>t, <1>0, <1>2, <2>1, <2>3, <2>4, <2>5, Names DEF Progress
  <2> QED
    BY <2>6, <2>7, <2>8 DEF KexInv
<1>3. CASE f = "disconnect"
  <2>1. c' = [c EXCEPT !.exch = FALSE] /\ To("disconnect", "created")
    BY <1>3 DEF Call
  <2>2. /\ Shaped(c') /\ ~c'.exch /\ c'.kst = c.kst /\ c'.low = c.low /\ c'.kex = c.kex
        /\ c'.ready = c.ready /\ c'.newkeys = c.newkeys /\ c'.local = c.local
        /\ c'.inAdd = c.inAdd
    BY <1>t, <2>1 DEF Types, Shaped, Fields
  <2>3. DOMAIN st' = Functions /\ st'["handshake"] = st["handshake"]
    BY <1>t, <1>0, <2>1 DEF Types, To
  <2>4. (FirstDone => FirstDone') /\ (HasKeys => HasKeys')
    BY <1>0, <2>2 DEF FirstDone, HasKeys
  <2>5. /\ IsList(queue') /\ IsList(toCli') /\ IsList(toSrv')
        /\ FlowOK(queue, toCli, offer, srv.n)' /\ Service'
    BY <1>0, <1>1, <2>4, CarriesOver
  <2>6. Types' /\ Exchange'
    BY <1>t, <1>0, <2>2, <2>3, <2>5 DEF Types, Exchange
  <2>7. Progress'
    BY <1>t, <1>0, <1>3, <2>2, <2>3, <2>4, Names DEF Progress
  <2> QED
    BY <2>5, <2>6, <2>7 DEF KexInv
<1>4. CASE f \in Methods
  <2>0. f # "handshake" /\ f # "disconnect"
    BY <1>4, Names
  <2>1. c.ready /\ st["disconnect"] = "idle"
    BY <1>0, <2>0 DEF MayCall
  <2>2. c' = c /\ (st' = st \/ \E x : To(f, x))
    BY <2>0, Zenon DEF Call
  <2>3. /\ DOMAIN st' = Functions /\ st'["handshake"] = st["handshake"]
        /\ st'["disconnect"] = st["disconnect"]
    BY <1>t, <1>0, <2>0, <2>2 DEF Types, To
  <2>4. (FirstDone => FirstDone') /\ (HasKeys => HasKeys')
    BY <1>0, <2>2 DEF FirstDone, HasKeys
  <2>5. /\ IsList(queue') /\ IsList(toCli') /\ IsList(toSrv')
        /\ FlowOK(queue, toCli, offer, srv.n)' /\ Service'
    BY <1>0, <1>1, <2>4, CarriesOver
  <2>6. Types' /\ Exchange'
    BY <1>t, <1>0, <2>2, <2>3, <2>5 DEF Types, Exchange
  <2>7. Progress'
    BY <1>t, <1>0, <2>0, <2>1, <2>2, <2>3, <2>4, Names DEF Progress
  <2> QED
    BY <2>5, <2>6, <2>7 DEF KexInv
<1> QED
  BY <1>2, <1>3, <1>4, Names

LEMMA CallNull ==
  ASSUME Types, NEW f \in Functions, Call(f), "expired" \notin Troubles
  PROVE  NullStep
<1>1. call = None /\ call' = f /\ MayCall(f) /\ nullread' = nullread /\ pswd' = pswd
  BY DEF Call
<1>2. CASE f # "pswd"
  BY <1>1, <1>2 DEF NullStep
<1>3. CASE f = "pswd"
  <2>1. st' = st
    BY <1>3, Zenon DEF Call
  <2>2. st["pswd"] = "idle" \/ Busy("pswd")
    BY <1>1, <1>3 DEF MayCall
  <2>3. st["pswd"] \in {"sent1", "sent2"} => pswd # "null"
    BY <1>1, <2>2 DEF Busy, HalfEnded
  <2> QED
    BY <1>1, <2>1, <2>3 DEF NullStep
<1> QED
  BY <1>2, <1>3

-----------------------------------------------------------------------------
(* The server                                                               *)

LEMMA ServeKeeps ==
  ASSUME KexInv, UNCHANGED <<offer, queue, call, st, c, result>>,
         DOMAIN srv' = SrvFields, srv'.n \in Nat, srv'.n >= srv.n,
         IsList(toCli'), IsList(toSrv'), IsList(srv'.todo),
         FlowOK(queue', toCli', offer', srv'.n),
         srv.n >= 1 /\ Gone(queue, toCli) => Gone(queue', toCli'),
         Mail(toSrv', FirstDone), Mail(srv'.todo, FirstDone),
         srv'.service => FirstDone, srv'.n >= 2 => srv'.service
  PROVE  KexInv'
<1>t. Types /\ Exchange /\ Progress /\ Service
  BY DEF KexInv
<1>1. FirstDone => FirstDone'
  BY <1>t DEF FirstDone, Types
<1>2. Types'
  BY <1>t DEF Types
<1>3. Exchange'
  <2>1. c.rkex \in 1..srv.n => srv.n >= 1 /\ c.rkex \in 1..srv'.n
    BY <1>t DEF Types
  <2> QED
    BY <1>t, <2>1 DEF Exchange
<1>4. HasKeys => HasKeys'
  BY DEF HasKeys
<1>5. Progress'
  BY <1>t, <1>1, <1>4 DEF Progress
<1>6. Mail(toSrv', FirstDone') /\ Mail(srv'.todo, FirstDone')
  BY <1>1, MailKept
<1>7. Service'
  BY <1>1, <1>6 DEF Service
<1> QED
  BY <1>2, <1>3, <1>5, <1>7 DEF KexInv

LEMMA ShortLists ==
  /\ IsList(<<>>) /\ Len(<<>>) = 0
  /\ \A x : IsList(<<x>>) /\ Len(<<x>>) = 1 /\ <<x>>[1] = x
  /\ \A x, y : IsList(<<x, y>>) /\ Len(<<x, y>>) = 2 /\ <<x, y>>[1] = x /\ <<x, y>>[2] = y
<1>1. <<>> \in Seq({}) /\ Len(<<>>) = 0
  OBVIOUS
<1>2. \A x : <<x>> \in Seq({x}) /\ Len(<<x>>) = 1 /\ <<x>>[1] = x
  OBVIOUS
<1>3. \A x, y : <<x, y>> \in Seq({x, y}) /\ Len(<<x, y>>) = 2
                /\ <<x, y>>[1] = x /\ <<x, y>>[2] = y
  OBVIOUS
<1> QED
  BY <1>1, <1>2, <1>3 DEF IsList

(* The packets that the server makes of a list of types and contents.       *)
LEMMA Sealed ==
  ASSUME NEW ms, IsList(ms), NEW e, NEW auth
  PROVE  /\ IsList(SrvSeals(ms, e, auth)) /\ Len(SrvSeals(ms, e, auth)) = Len(ms)
         /\ \A i \in 1..Len(ms) : /\ SrvSeals(ms, e, auth)[i].t = ms[i][1]
                                  /\ SrvSeals(ms, e, auth)[i].p = ms[i][2]
<1> DEFINE P(i) == [t |-> ms[i][1], p |-> ms[i][2], seal |-> SrvSeal(e, auth)]
           r == [i \in 1..Len(ms) |-> P(i)]
           S == {P(i) : i \in 1..Len(ms)}
<1>1. Len(ms) \in Nat /\ DOMAIN ms = 1..Len(ms)
  BY ListLen
<1>2. SrvSeals(ms, e, auth) = r
  BY <1>1, Zenon DEF SrvSeals
<1>3. \A i \in 1..Len(ms) : P(i).t = ms[i][1] /\ P(i).p = ms[i][2]
  OBVIOUS
<1> HIDE DEF P
<1>4. r \in Seq(S) /\ Len(r) = Len(ms) /\ \A i \in 1..Len(ms) : r[i] = P(i)
  BY <1>1
<1> HIDE DEF r, S
<1>5. IsList(r)
  BY <1>4 DEF IsList
<1> QED
  BY <1>2, <1>3, <1>4, <1>5

OtherTypes(ms) == IsList(ms) /\ \A i \in 1..Len(ms) : ms[i][1] # "KEXINIT"

LEMMA OtherTypesListed ==
  /\ OtherTypes(<<>>)
  /\ \A x, y : x # "KEXINIT" => OtherTypes(<< <<x, y>> >>)
  /\ \A x, y, u, v : x # "KEXINIT" /\ u # "KEXINIT" => OtherTypes(<< <<x, y>>, <<u, v>> >>)
<1>1. OtherTypes(<<>>)
  BY ShortLists DEF OtherTypes
<1>2. ASSUME NEW x, NEW y, x # "KEXINIT"
      PROVE  OtherTypes(<< <<x, y>> >>)
  <2> DEFINE w == <<x, y>>
  <2>1. w[1] = x
    OBVIOUS
  <2> HIDE DEF w
  <2>2. OtherTypes(<<w>>)
    BY <1>2, <2>1, ShortLists DEF OtherTypes
  <2> QED
    BY <2>2 DEF w
<1>3. ASSUME NEW x, NEW y, NEW u, NEW v, x # "KEXINIT", u # "KEXINIT"
      PROVE  OtherTypes(<< <<x, y>>, <<u, v>> >>)
  <2> DEFINE w == <<x, y>>
             z == <<u, v>>
  <2>1. w[1] = x /\ z[1] = u
    OBVIOUS
  <2> HIDE DEF w, z
  <2>2. OtherTypes(<<w, z>>)
    BY <1>3, <2>1, ShortLists DEF OtherTypes
  <2> QED
    BY <2>2 DEF w, z
<1> QED
  BY <1>1, <1>2, <1>3

LEMMA OthersSealed ==
  ASSUME NEW ms, OtherTypes(ms), NEW e, NEW auth
  PROVE  IsList(SrvSeals(ms, e, auth)) /\ Others(SrvSeals(ms, e, auth))
BY Sealed DEF OtherTypes, Others

LEMMA OtherTypesKeep ==
  ASSUME NEW q, IsList(q), NEW t, IsList(t), NEW ms, OtherTypes(ms), NEW o, NEW n,
         NEW e, NEW auth
  PROVE  /\ IsList(t \o SrvSeals(ms, e, auth))
         /\ FlowOK(q, t, o, n) => FlowOK(q, t \o SrvSeals(ms, e, auth), o, n)
         /\ Gone(q, t) => Gone(q, t \o SrvSeals(ms, e, auth))
<1> DEFINE a == SrvSeals(ms, e, auth)
<1>1. IsList(a) /\ Others(a)
  BY OthersSealed
<1> HIDE DEF a
<1>2. /\ IsList(t \o a)
      /\ FlowOK(q, t, o, n) => FlowOK(q, t \o a, o, n)
      /\ Gone(q, t) => Gone(q, t \o a)
  BY <1>1, OthersKeep
<1> QED
  BY <1>2 DEF a

LEMMA SrvKexInitKeeps ==
  ASSUME KexInv, SrvKexInit, UNCHANGED authVars
  PROVE  KexInv'
<1>t. Types /\ FlowOK(queue, toCli, offer, srv.n) /\ Service
  BY DEF KexInv
<1> DEFINE n == srv.n
           lists == IF n = 0 THEN offer.srv ELSE offer.later
<1>1. PICK follows : toCli' = toCli \o SrvSeals(
                <<<<"KEXINIT", [n |-> n + 1, lists |-> lists, follows |-> follows]>>>>
                \o (IF follows THEN <<<<"T31", Guess>>>> ELSE <<>>), srv.out, srv.auth)
  BY Zenon DEF SrvKexInit
<1> DEFINE k == [n |-> n + 1, lists |-> lists, follows |-> follows]
           x == <<"KEXINIT", k>>
           y == <<"T31", Guess>>
           rest == IF follows THEN <<y>> ELSE <<>>
           ms == <<x>> \o rest
           a == SrvSeals(ms, srv.out, srv.auth)
<1>2. x[1] = "KEXINIT" /\ x[2] = k /\ y[1] = "T31"
  OBVIOUS
<1>3. k.n = n + 1 /\ k.lists = lists
  OBVIOUS
<1>4. n \in Nat /\ (n = 0 \/ srv.service)
  BY <1>t DEF SrvKexInit, Types
<1>5. toCli' = toCli \o a
  BY <1>1
<1> HIDE DEF x, y, k
<1>6. /\ IsList(<<x>>) /\ Len(<<x>>) = 1 /\ <<x>>[1] = x
      /\ IsList(rest) /\ \A i \in 1..Len(rest) : rest[i] = y
  BY ShortLists
<1> HIDE DEF rest
<1>7. IsList(ms) /\ \A i \in 1..Len(ms) : (i = 1 /\ ms[i] = x) \/ ms[i] = y
  BY <1>6, Joined
<1> HIDE DEF ms
<1>8. /\ IsList(a)
      /\ \A i \in 1..Len(a) : \/ i = 1 /\ a[i].t = "KEXINIT" /\ a[i].p = k
                              \/ a[i].t = "T31"
  BY <1>2, <1>7, Sealed
<1> HIDE DEF a
<1>9. AllServed(a, offer, n + 1)
  <2>1. n + 1 \in 1..n + 1 /\ lists = ListsOf(offer, n + 1)
    BY <1>4 DEF ListsOf
  <2> QED
    BY <1>3, <1>8, <2>1 DEF AllServed, FromServer
<1>10. OneFirst(a) /\ (n >= 1 => NoneFirst(a))
  <2>1. OneFirst(a)
    BY <1>8 DEF OneFirst, IsFirst
  <2>2. n >= 1 => NoneFirst(a)
    BY <1>3, <1>4, <1>8 DEF NoneFirst, IsFirst
  <2> QED
    BY <2>1, <2>2
<1>11. n = 0 => Gone(queue, toCli)
  BY <1>t DEF FlowOK, AllServed, FromServer, Gone, NoneFirst, IsFirst
<1>12. \A m : FromServer(m, offer, n) => FromServer(m, offer, n + 1)
  BY <1>4 DEF FromServer
<1>13. /\ IsList(toCli \o a) /\ FlowOK(queue, toCli \o a, offer, n + 1)
       /\ Gone(queue, toCli) /\ NoneFirst(a) => Gone(queue, toCli \o a)
  <2>1. n >= 1 \/ n = 0
    BY <1>4
  <2>2. NoneFirst(a) \/ Gone(queue, toCli)
    BY <2>1, <1>10, <1>11
  <2> HIDE DEF n, lists
  <2>3. IsList(queue) /\ IsList(toCli) /\ FlowOK(queue, toCli, offer, n)
    BY <1>t DEF Types, n
  <2> QED
    BY <1>8, <1>9, <1>10, <1>12, <2>2, <2>3, JoinKeeps
<1>14. /\ UNCHANGED <<offer, queue, call, st, c, result, toSrv>>
       /\ srv' = [srv EXCEPT !.n = @ + 1, !.phase = "kex"]
  BY DEF SrvKexInit, authVars
<1>15. /\ DOMAIN srv' = SrvFields /\ srv'.n = n + 1 /\ srv'.todo = srv.todo
       /\ srv'.service = srv.service
  BY <1>t, <1>14 DEF Types, SrvFields
<1>16. srv'.n \in Nat /\ srv'.n >= srv.n /\ (srv'.n >= 2 => n >= 1)
  BY <1>4, <1>15
<1>17. FlowOK(queue', toCli', offer', srv'.n) /\ IsList(toCli')
  BY <1>5, <1>13, <1>14, <1>15
<1>18. srv.n >= 1 /\ Gone(queue, toCli) => Gone(queue', toCli')
  BY <1>5, <1>10, <1>13, <1>14
<1>19. srv'.n >= 2 => srv'.service
  BY <1>4, <1>15, <1>16
<1>20. /\ IsList(toSrv') /\ IsList(srv'.todo) /\ Mail(toSrv', FirstDone)
       /\ Mail(srv'.todo, FirstDone) /\ (srv'.service => FirstDone)
  BY <1>t, <1>14, <1>15 DEF Types, Service
<1> QED
  BY <1>14, <1>15, <1>16, <1>17, <1>18, <1>19, <1>20, ServeKeeps

(* The server adds packets of other kinds, or none.                         *)
Adds(t, t2) ==
  \/ t2 = t
  \/ \E ms, e, auth : OtherTypes(ms) /\ t2 = t \o SrvSeals(ms, e, auth)
  \/ \E ms, e, auth, ns, d : /\ OtherTypes(ms) /\ OtherTypes(ns)
                             /\ t2 = (t \o SrvSeals(ms, e, auth)) \o SrvSeals(ns, d, auth)

LEMMA AddsKeep ==
  ASSUME NEW q, IsList(q), NEW t, IsList(t), NEW t2, Adds(t, t2), NEW o, NEW n
  PROVE  /\ IsList(t2) /\ (FlowOK(q, t, o, n) => FlowOK(q, t2, o, n))
         /\ Gone(q, t) => Gone(q, t2)
<1>1. CASE t2 = t
  BY <1>1
<1>2. CASE \E ms, e, auth : OtherTypes(ms) /\ t2 = t \o SrvSeals(ms, e, auth)
  BY <1>2, OtherTypesKeep
<1>3. ASSUME NEW ms, NEW e, NEW auth, NEW ns, NEW d, OtherTypes(ms), OtherTypes(ns),
             t2 = (t \o SrvSeals(ms, e, auth)) \o SrvSeals(ns, d, auth)
      PROVE  /\ IsList(t2) /\ (FlowOK(q, t, o, n) => FlowOK(q, t2, o, n))
             /\ Gone(q, t) => Gone(q, t2)
  <2> DEFINE u == t \o SrvSeals(ms, e, auth)
  <2>1. /\ IsList(u) /\ (FlowOK(q, t, o, n) => FlowOK(q, u, o, n))
        /\ Gone(q, t) => Gone(q, u)
    BY <1>3, OtherTypesKeep
  <2>2. t2 = u \o SrvSeals(ns, d, auth)
    BY <1>3
  <2> HIDE DEF u
  <2>3. /\ IsList(t2) /\ (FlowOK(q, u, o, n) => FlowOK(q, t2, o, n))
        /\ Gone(q, u) => Gone(q, t2)
    BY <1>3, <2>1, <2>2, OtherTypesKeep
  <2> QED
    BY <2>1, <2>3
<1> QED
  BY <1>1, <1>2, <1>3 DEF Adds

(* A step of the server that starts no exchange.                            *)
LEMMA AnswerKeeps ==
  ASSUME KexInv, UNCHANGED <<offer, queue, call, st, c, result>>, Adds(toCli, toCli'),
         DOMAIN srv' = SrvFields, srv'.n = srv.n, IsList(toSrv'), IsList(srv'.todo),
         Mail(toSrv', FirstDone), Mail(srv'.todo, FirstDone),
         srv'.service => FirstDone, srv.service => srv'.service
  PROVE  KexInv'
<1>t. Types /\ FlowOK(queue, toCli, offer, srv.n) /\ Service
  BY DEF KexInv
<1>1. /\ IsList(toCli') /\ FlowOK(queue, toCli', offer, srv.n)
      /\ Gone(queue, toCli) => Gone(queue, toCli')
  BY <1>t, AddsKeep DEF Types
<1>2. srv'.n \in Nat /\ srv'.n >= srv.n
  BY <1>t DEF Types
<1>3. FlowOK(queue', toCli', offer', srv'.n) /\ (Gone(queue, toCli) => Gone(queue', toCli'))
  BY <1>1
<1>4. srv'.n >= 2 => srv'.service
  BY <1>t DEF Service
<1> QED
  BY <1>1, <1>2, <1>3, <1>4, ServeKeeps

LEMMA SrvReadKeeps ==
  ASSUME KexInv, SrvRead, UNCHANGED authVars
  PROVE  KexInv'
<1>t. Types /\ Service
  BY DEF KexInv
<1> DEFINE m == Head(toSrv)
           new == SrvEnd("sc", "BDF")
           hash == SrvHash
           in == SrvEnd("cs", "ACE")
<1>0. /\ toSrv # <<>> /\ toSrv' = Tail(toSrv)
      /\ UNCHANGED <<offer, queue, call, st, c, result>>
  BY DEF SrvRead, authVars
<1>1. MailOK(m, FirstDone) /\ IsList(toSrv') /\ Mail(toSrv', FirstDone)
  BY <1>t, <1>0, MailKept DEF Types, Service
<1>2. ASSUME Adds(toCli, toCli'), DOMAIN srv' = SrvFields, srv'.n = srv.n,
             srv'.service = srv.service, srv'.todo = srv.todo \/ srv'.todo = Append(srv.todo, m)
      PROVE  KexInv'
  <2>1. IsList(srv'.todo) /\ Mail(srv'.todo, FirstDone)
    <3> HIDE DEF m
    <3>1. IsList(srv.todo) /\ Mail(srv.todo, FirstDone)
      BY <1>t DEF Types, Service
    <3>2. IsList(Append(srv.todo, m)) /\ Mail(Append(srv.todo, m), FirstDone)
      BY <1>1, <3>1, MailKept
    <3> QED
      BY <1>2, <3>1, <3>2
  <2> QED
    BY <1>t, <1>0, <1>1, <1>2, <2>1, AnswerKeeps DEF Service
<1>3. CASE m.t = "IDENT"
  <2>1. UNCHANGED <<srv, toCli>>
    BY <1>3 DEF SrvRead
  <2> QED
    BY <1>t, <1>2, <2>1 DEF Adds, Types
<1>4. CASE m.t = "KEXINIT"
  <2>1. srv' = [srv EXCEPT !.phase = "init", !.ck = m.p] /\ UNCHANGED toCli
    BY <1>4 DEF SrvRead
  <2> HIDE DEF m
  <2> QED
    BY <1>t, <1>2, <2>1 DEF Adds, Types, SrvFields
<1>5. CASE m.t = "GEX_REQUEST"
  <2>1. toCli' = toCli \o SrvSeals(<<<<"T31", Group>>>>, srv.out, srv.auth) /\ UNCHANGED srv
    BY <1>5 DEF SrvRead
  <2>2. OtherTypes(<<<<"T31", Group>>>>)
    BY OtherTypesListed
  <2>3. Adds(toCli, toCli')
    BY <2>1, <2>2 DEF Adds
  <2> QED
    BY <1>t, <1>2, <2>1, <2>3 DEF Types
<1>6. CASE m.t \in {"INIT", "GEX_INIT"}
  <2> DEFINE ns == IF srv.n = 1 /\ offer.algs # NoAlgs
                   THEN <<<<"EXT_INFO", offer.algs>>>> ELSE <<>>
  <2>1. /\ toCli' = (toCli \o SrvSeals(SrvReply, srv.out, srv.auth))
                      \o SrvSeals(ns, new, srv.auth)
        /\ srv' = [srv EXCEPT !.phase = "newkeys", !.out = new,
                     !.sid = IF @ = NoKeys THEN hash ELSE @]
    BY <1>6 DEF SrvRead
  <2>2. OtherTypes(SrvReply)
    <3>1. (IF Head(toSrv).t = "INIT" THEN "T31" ELSE "T33") # "KEXINIT"
      OBVIOUS
    <3> QED
      BY <3>1, OtherTypesListed DEF SrvReply
  <2>3. OtherTypes(ns)
    BY OtherTypesListed
  <2>4. Adds(toCli, toCli')
    <3> HIDE DEF new, ns
    <3> QED
      BY <2>1, <2>2, <2>3, Zenon DEF Adds
  <2> HIDE DEF new, hash
  <2> QED
    BY <1>t, <1>2, <2>1, <2>4 DEF Types, SrvFields
<1>7. CASE m.t = "NEWKEYS"
  <2>1. srv' = [srv EXCEPT !.phase = "open", !.in = in] /\ UNCHANGED toCli
    BY <1>7 DEF SrvRead
  <2> HIDE DEF in
  <2> QED
    BY <1>t, <1>2, <2>1 DEF Adds, Types, SrvFields
<1>8. CASE m.t \notin {"IDENT", "KEXINIT", "GEX_REQUEST", "INIT", "GEX_INIT", "NEWKEYS"}
  <2>1. srv' = [srv EXCEPT !.todo = Append(@, m)] /\ UNCHANGED toCli
    BY <1>8 DEF SrvRead
  <2> HIDE DEF m
  <2> QED
    BY <1>t, <1>2, <2>1 DEF Adds, Types, SrvFields
<1> QED
  BY <1>3, <1>4, <1>5, <1>6, <1>7, <1>8

LEMMA SrvAnswerKeeps ==
  ASSUME KexInv, SrvAnswer, UNCHANGED authVars
  PROVE  KexInv'
<1>t. Types /\ Service
  BY DEF KexInv
<1> DEFINE m == Head(srv.todo)
<1>0. /\ srv.todo # <<>> /\ UNCHANGED <<offer, queue, call, st, c, result, toSrv>>
  BY DEF SrvAnswer, authVars
<1>1. MailOK(m, FirstDone) /\ IsList(Tail(srv.todo)) /\ Mail(Tail(srv.todo), FirstDone)
  BY <1>t, <1>0, MailKept DEF Types, Service
<1>2. ASSUME Adds(toCli, toCli'), DOMAIN srv' = SrvFields, srv'.n = srv.n,
             srv'.service = srv.service \/ (srv'.service = TRUE /\ FirstDone),
             srv'.todo \in {srv.todo, Tail(srv.todo)}
      PROVE  KexInv'
  <2>1. IsList(srv'.todo) /\ Mail(srv'.todo, FirstDone)
    BY <1>t, <1>1, <1>2 DEF Types, Service
  <2>2. IsList(toSrv') /\ Mail(toSrv', FirstDone)
    BY <1>t, <1>0 DEF Types, Service
  <2>3. (srv'.service => FirstDone) /\ (srv.service => srv'.service)
    BY <1>t, <1>2 DEF Service
  <2> QED
    BY <1>0, <1>2, <2>1, <2>2, <2>3, AnswerKeeps
<1>3. CASE m.t = "SERVICE_REQUEST"
  <2>1. /\ toCli' = toCli \o SrvSeals(<<<<"SERVICE_ACCEPT", 0>>>>, srv.out, srv.auth)
        /\ srv' = [srv EXCEPT !.service = TRUE, !.todo = Tail(@)]
    BY <1>3 DEF SrvAnswer
  <2>2. OtherTypes(<<<<"SERVICE_ACCEPT", 0>>>>)
    BY OtherTypesListed
  <2>3. Adds(toCli, toCli')
    BY <2>1, <2>2 DEF Adds
  <2>4. FirstDone
    BY <1>1, <1>3 DEF MailOK
  <2> HIDE DEF m
  <2> QED
    BY <1>t, <1>2, <2>1, <2>3, <2>4 DEF Types, SrvFields
<1>4. CASE m.t = "DISCONNECT"
  <2>1. UNCHANGED <<toCli, srv>>
    BY <1>4 DEF SrvAnswer
  <2> QED
    BY <1>t, <1>2, <2>1 DEF Adds, Types
<1>5. CASE m.t = "REQUEST" /\ ~srv.auth
  <2>1. PICK a \in Outcomes(m.p), b \in BOOLEAN :
          /\ toCli' = toCli \o SrvSeals((IF b THEN <<<<"BANNER", 0>>>> ELSE <<>>)
                                        \o <<<<a, m.p.id>>>>, srv.out, srv.auth)
          /\ srv' = [srv EXCEPT
                       !.todo = Tail(@), !.bannered = @ \/ b,
                       !.auth = a = "SUCCESS",
                       !.accepted = IF a = "SUCCESS" THEN m.p.id ELSE @,
                       !.refused = IF a = "FAILURE" THEN @ \cup {m.p.id} ELSE @,
                       !.asked = IF a = "M60" THEN @ \cup {m.p.id} ELSE @]
    BY <1>5, Zenon DEF SrvAnswer
  <2>2. a # "KEXINIT"
    BY DEF Outcomes
  <2> DEFINE x == IF b THEN <<<<"BANNER", 0>>>> ELSE <<>>
             y == <<<<a, m.p.id>>>>
  <2>3. OtherTypes(x) /\ OtherTypes(y)
    BY <2>2, OtherTypesListed
  <2>4. OtherTypes(x \o y)
    <3> HIDE DEF x, y
    <3>1. IsList(x) /\ IsList(y) /\ IsList(x \o y)
      BY <2>3, Joined DEF OtherTypes
    <3>2. \A i \in 1..Len(x \o y) :
            \/ i \in 1..Len(x) /\ (x \o y)[i] = x[i]
            \/ i - Len(x) \in 1..Len(y) /\ (x \o y)[i] = y[i - Len(x)]
      BY <3>1, Joined, ListLen
    <3> QED
      BY <2>3, <3>1, <3>2 DEF OtherTypes
  <2>5. Adds(toCli, toCli')
    <3>1. toCli' = toCli \o SrvSeals(x \o y, srv.out, srv.auth)
      BY <2>1
    <3> HIDE DEF x, y
    <3> QED
      BY <2>4, <3>1, Zenon DEF Adds
  <2> HIDE DEF m
  <2>6. /\ DOMAIN srv' = SrvFields /\ srv'.n = srv.n /\ srv'.service = srv.service
        /\ srv'.todo = Tail(srv.todo)
    BY <1>t, <2>1 DEF Types, SrvFields
  <2> QED
    BY <1>2, <2>5, <2>6
<1>6. CASE m.t \notin {"SERVICE_REQUEST", "DISCONNECT"} /\ ~(m.t = "REQUEST" /\ ~srv.auth)
  <2>1. srv' = [srv EXCEPT !.todo = Tail(@)] /\ UNCHANGED toCli
    BY <1>6, Zenon DEF SrvAnswer
  <2> HIDE DEF m
  <2> QED
    BY <1>t, <1>2, <2>1 DEF Adds, Types, SrvFields
<1> QED
  BY <1>3, <1>4, <1>5, <1>6

-----------------------------------------------------------------------------
(* The theorems                                                             *)

(* The server keeps to its contract, the program gives up after a handshake *)
(* that failed, and goes on after a password change that did.               *)
LEMMA InvInit ==
  ASSUME Init
  PROVE  KexInv /\ ~nullread /\ call = None
<1>0. KexStart(Functions) /\ result = NoResult /\ ~nullread
  BY DEF Init
<1>1. /\ offer \in Offers /\ toSrv = <<>> /\ queue = <<>> /\ call = None
      /\ st = [f \in Functions |-> "idle"]
  BY <1>0 DEF KexStart
<1>2. /\ c.kst = "idle" /\ c.low = "idle" /\ c.kex = None /\ ~c.exch /\ ~c.inAdd /\ ~c.ready
      /\ Shaped(c)
  BY <1>0 DEF KexStart, Shaped, Fields, EndFields, NoEnd
<1>3. srv.n = 0 /\ ~srv.service /\ srv.todo = <<>> /\ DOMAIN srv = SrvFields
  BY <1>0 DEF KexStart, SrvFields
<1>4. IsList(toCli) /\ Others(toCli)
  <2>1. PICK ms \in {<<<<"SSH", 0>>>>, <<<<"LINE", 0>>, <<"SSH", 0>>>>} :
          toCli = SrvSeals(ms, Plain, FALSE)
    BY <1>0 DEF KexStart
  <2>2. OtherTypes(ms)
    BY OtherTypesListed
  <2> QED
    BY <2>1, <2>2, OthersSealed, Zenon
<1>5. IsList(<<>>) /\ Len(<<>>) = 0
  BY ShortLists
<1>6. Types
  BY <1>1, <1>2, <1>3, <1>4, <1>5 DEF Types
<1>7. FlowOK(queue, toCli, offer, srv.n)
  BY <1>1, <1>4, <1>5 DEF FlowOK, AllServed, OneFirst, NoneFirst, Others, IsFirst, FromServer
<1>8. Exchange
  BY <1>2 DEF Exchange
<1>9. Progress
  BY <1>1, <1>2, Names DEF Progress
<1>10. Service
  BY <1>1, <1>3, <1>5 DEF Service, Mail
<1> QED
  BY <1>0, <1>1, <1>6, <1>7, <1>8, <1>9, <1>10 DEF KexInv

LEMMA InvStep ==
  ASSUME KexInv, [Next]_vars, "retry" \notin Troubles
  PROVE  KexInv' /\ ("expired" \notin Troubles => NullStep)
<1>t. Types
  BY DEF KexInv
<1>s. ASSUME UNCHANGED <<offer, toSrv, toCli, queue, call, st, c, srv, result>>,
             pswd' = pswd, nullread' = nullread
      PROVE  KexInv' /\ NullStep
  BY <1>s DEF KexInv, Types, Exchange, Progress, Service, FirstDone, HasKeys, NullStep
<1>1. CASE \E f \in Functions : Call(f)
  BY <1>t, <1>1, CallKeeps, CallNull
<1>2. CASE StartupStep
  BY <1>2, StartupKeeps
<1>3. CASE KeyExchange
  BY <1>3, KeyExchangeKeeps
<1>4. CASE Authenticate
  BY <1>4, AuthenticateKeeps
<1>5. CASE session_disconnect
  BY <1>5, DisconnectKeeps
<1>6. CASE Environment
  <2>1. UNCHANGED authVars /\ (SrvKexInit \/ SrvRead \/ SrvAnswer \/ ConnectionLost)
    BY <1>6 DEF Environment, Server
  <2>2. NullStep
    BY <2>1 DEF authVars, SrvKexInit, SrvRead, SrvAnswer, ConnectionLost, NullStep
  <2>3. CASE ConnectionLost
    BY <1>s, <2>1, <2>3 DEF ConnectionLost, authVars
  <2> QED
    BY <2>1, <2>2, <2>3, SrvKexInitKeeps, SrvReadKeeps, SrvAnswerKeeps
<1>7. CASE UNCHANGED vars
  BY <1>s, <1>7 DEF vars, kexVars, authVars
<1> QED
  BY <1>1, <1>2, <1>3, <1>4, <1>5, <1>6, <1>7 DEF Next, Finished

LEMMA InvAlways ==
  ASSUME "retry" \notin Troubles
  PROVE  Spec => []KexInv
<1>1. Init => KexInv
  BY InvInit
<1>2. KexInv /\ [Next]_vars => KexInv'
  BY InvStep
<1> QED
  BY <1>1, <1>2, PTL DEF Spec

(* kex_agree_methods(): in every exchange, the first and all later ones,    *)
(* whatever the lists of both sides, the methods that the client has stored *)
(* when it goes on are the ones RFC 4253 names, hence the server's choice;  *)
(* only where that choice is a certificate as host key, which has no        *)
(* sig_verify(), kex_agree_hostkey() has skipped it and taken another.      *)
(* A program that repeats a failed handshake is left out.                   *)
THEOREM ChoicesAgree ==
  ASSUME "retry" \notin Troubles
  PROVE  Spec => []MethodsAgree
<1>1. KexInv => MethodsAgree
  <2> SUFFICES ASSUME KexInv, c.exch, c.kst = "sent2"
               PROVE  MethodsAgree
    BY DEF MethodsAgree
  <2>1. c.rkex \in 1..srv.n /\ Agreed(c, offer, c.rkex) /\ srv.n \in Nat
    BY DEF KexInv, Exchange, Types
  <2>2. srv.n >= 2 => c.rkex # 1
    BY DEF KexInv, Service, FirstDone
  <2>3. ListsOf(offer, c.rkex) = SrvLists
    BY <2>1, <2>2 DEF ListsOf, SrvLists
  <2>4. Chosen(c, SrvAgreed)
    BY <2>1, <2>3 DEF Agreed, SrvAgreed
  <2> QED
    BY <2>4 DEF Chosen, MethodsAgree
<1> QED
  BY <1>1, InvAlways, PTL

(* userauth.c: no request for a login, with a password or a signature in    *)
(* it, is ever on its way under a seal without keys, whichever call sends   *)
(* it and however the exchanges of keys and the logins interleave.  A       *)
(* program that repeats a failed handshake is left out.                     *)
THEOREM LoginsAreSealed ==
  ASSUME "retry" \notin Troubles
  PROVE  Spec => []SecretsSealed
<1>1. KexInv => SecretsSealed
  <2> SUFFICES ASSUME KexInv, NEW i \in DOMAIN Waiting, Waiting[i].t = "REQUEST"
               PROVE  Waiting[i].seal.keys # NoKeys
    BY DEF SecretsSealed
  <2> DEFINE a == toSrv
             b == srv.todo
             m == (a \o b)[i]
  <2>1. IsList(a) /\ IsList(b) /\ Mail(a, FirstDone) /\ Mail(b, FirstDone)
    BY DEF KexInv, Types, Service
  <2>2. i \in DOMAIN (a \o b) /\ m.t = "REQUEST" /\ Waiting[i] = m
    BY DEF Waiting
  <2> HIDE DEF a, b
  <2>3. DOMAIN (a \o b) = 1..Len(a \o b)
    BY <2>1, Joined, ListLen
  <2>4. i \in 1..Len(a \o b)
    BY <2>2, <2>3
  <2>5. (i \in 1..Len(a) /\ m = a[i]) \/ (i - Len(a) \in 1..Len(b) /\ m = b[i - Len(a)])
    BY <2>1, <2>4, Joined, ListLen
  <2> HIDE DEF m
  <2>6. MailOK(m, FirstDone)
    BY <2>1, <2>5 DEF Mail
  <2> QED
    BY <2>2, <2>6 DEF MailOK
<1> QED
  BY <1>1, InvAlways, PTL

(* userauth_password() never looks at its reply after it has freed it, as   *)
(* long as the program does not call it again once a change of the password *)
(* has failed (there it does: the state stays at sent1) and does not repeat *)
(* a failed handshake.                                                      *)
THEOREM PasswordNotFreed ==
  ASSUME "retry" \notin Troubles, "expired" \notin Troubles
  PROVE  Spec => []NoNullRead
<1> DEFINE Held == call = "pswd" /\ st["pswd"] \in {"sent1", "sent2"} => pswd # "null"
           Inv == ~nullread /\ Held
<1>1. Init => Inv
  BY InvInit DEF None
<1>2. KexInv /\ Inv /\ [Next]_vars => Inv'
  <2> SUFFICES ASSUME KexInv, Inv, [Next]_vars
               PROVE  Inv'
    OBVIOUS
  <2>1. NullStep
    BY InvStep
  <2>2. ~nullread'
    BY <2>1, Zenon DEF NullStep
  <2>3. Held'
    BY <2>1 DEF NullStep
  <2> QED
    BY <2>2, <2>3
<1>3. Inv => NoNullRead
  BY DEF NoNullRead
<1> QED
  BY <1>1, <1>2, <1>3, InvAlways, PTL DEF Spec

-----------------------------------------------------------------------------
(* Packets of some types in a list                                          *)

(* s holds a packet of one of the types T; it holds one at most.            *)
Has(s, T) == \E i \in 1..Len(s) : s[i].t \in T
Lone(s, T) == \A i, j \in 1..Len(s) : s[i].t \in T /\ s[j].t \in T => i = j

(* Every packet of t is one of s, or m.                                     *)
Part(t, s) == \A i \in 1..Len(t) : \E j \in 1..Len(s) : t[i] = s[j]
PartOr(t, s, m) == \A i \in 1..Len(t) : t[i] = m \/ \E j \in 1..Len(s) : t[i] = s[j]

LEMMA AtAppend ==
  ASSUME NEW s, IsList(s), NEW m
  PROVE  /\ PartOr(Append(s, m), s, m)
         /\ \A T : /\ Has(Append(s, m), T) <=> Has(s, T) \/ m.t \in T
                   /\ Lone(s, T) /\ (Has(s, T) => m.t \notin T) => Lone(Append(s, m), T)
<1> DEFINE a == Append(s, m)
           n == Len(s)
<1>1. /\ n \in Nat /\ Len(a) = n + 1 /\ a[n + 1] = m /\ \A i \in 1..n : a[i] = s[i]
  BY Appended, ListLen
<1>2. /\ \A i \in 1..Len(a) : i \in 1..n \/ i = n + 1
      /\ \A i \in 1..n : i \in 1..Len(a)
      /\ n + 1 \in 1..Len(a)
  BY <1>1
<1> HIDE DEF a, n
<1>3. PartOr(a, s, m)
  BY <1>1, <1>2 DEF PartOr, n
<1>4. ASSUME NEW T
      PROVE  /\ Has(a, T) <=> Has(s, T) \/ m.t \in T
             /\ Lone(s, T) /\ (Has(s, T) => m.t \notin T) => Lone(a, T)
  <2>1. Has(a, T) <=> Has(s, T) \/ m.t \in T
    BY <1>1, <1>2 DEF Has, n
  <2>2. ASSUME Lone(s, T), Has(s, T) => m.t \notin T PROVE Lone(a, T)
    <3> SUFFICES ASSUME NEW i \in 1..Len(a), NEW j \in 1..Len(a), a[i].t \in T, a[j].t \in T
                 PROVE  i = j
      BY DEF Lone
    <3>1. CASE i \in 1..n /\ j \in 1..n
      BY <1>1, <2>2, <3>1 DEF Lone, n
    <3>2. CASE i = n + 1 /\ j = n + 1
      BY <3>2
    <3>3. CASE i \in 1..n /\ j = n + 1
      BY <1>1, <2>2, <3>3 DEF Has, n
    <3>4. CASE i = n + 1 /\ j \in 1..n
      BY <1>1, <2>2, <3>4 DEF Has, n
    <3> QED
      BY <1>2, <3>1, <3>2, <3>3, <3>4
  <2> QED
    BY <2>1, <2>2
<1> QED
  BY <1>3, <1>4 DEF a

LEMMA AtTail ==
  ASSUME NEW s, IsList(s), s # <<>>
  PROVE  /\ Part(Tail(s), s)
         /\ \E j \in 1..Len(s) : Head(s) = s[j]
         /\ \A T : /\ Has(s, T) <=> Head(s).t \in T \/ Has(Tail(s), T)
                   /\ Lone(s, T) => Lone(Tail(s), T) /\ (Head(s).t \in T => ~Has(Tail(s), T))
<1> DEFINE a == Tail(s)
           n == Len(s)
<1>1. /\ n \in Nat \ {0} /\ Len(a) = n - 1 /\ Head(s) = s[1]
      /\ \A i \in 1..Len(a) : a[i] = s[i + 1]
  BY ListLen
<1>2. /\ 1 \in 1..n /\ \A i \in 1..Len(a) : i + 1 \in 1..n /\ i \in Nat /\ i + 1 # 1
      /\ \A i \in 1..n : i = 1 \/ (i - 1 \in 1..Len(a) /\ i = (i - 1) + 1)
  BY <1>1
<1> HIDE DEF a, n
<1>3. Part(a, s) /\ \E j \in 1..Len(s) : Head(s) = s[j]
  BY <1>1, <1>2 DEF Part, n
<1>4. ASSUME NEW T
      PROVE  /\ Has(s, T) <=> Head(s).t \in T \/ Has(a, T)
             /\ Lone(s, T) => Lone(a, T) /\ (Head(s).t \in T => ~Has(a, T))
  <2>1. Has(s, T) => Head(s).t \in T \/ Has(a, T)
    <3> SUFFICES ASSUME NEW i \in 1..n, s[i].t \in T PROVE Head(s).t \in T \/ Has(a, T)
      BY DEF Has, n
    <3>1. CASE i = 1
      BY <1>1, <3>1
    <3>2. CASE i # 1
      <4> DEFINE k == i - 1
      <4>1. k \in 1..Len(a) /\ i = k + 1
        BY <1>2, <3>2
      <4> HIDE DEF k
      <4>2. a[k].t \in T
        BY <1>1, <4>1
      <4> QED
        BY <4>1, <4>2 DEF Has
    <3> QED
      BY <3>1, <3>2
  <2>2. Head(s).t \in T \/ Has(a, T) => Has(s, T)
    BY <1>1, <1>2 DEF Has, n
  <2>3. ASSUME Lone(s, T) PROVE Lone(a, T)
    <3> SUFFICES ASSUME NEW i \in 1..Len(a), NEW j \in 1..Len(a), a[i].t \in T, a[j].t \in T
                 PROVE  i = j
      BY DEF Lone
    <3>1. i + 1 \in 1..n /\ j + 1 \in 1..n /\ s[i + 1].t \in T /\ s[j + 1].t \in T
      BY <1>1, <1>2
    <3>2. i + 1 = j + 1 /\ i \in Nat /\ j \in Nat
      BY <1>2, <2>3, <3>1 DEF Lone, n
    <3> QED
      BY <3>2
  <2>4. ASSUME Lone(s, T), Head(s).t \in T, Has(a, T) PROVE FALSE
    <3>1. PICK i \in 1..Len(a) : a[i].t \in T
      BY <2>4 DEF Has
    <3>2. s[1].t \in T /\ s[i + 1].t \in T /\ i + 1 \in 1..n /\ 1 \in 1..n /\ i + 1 # 1
      BY <1>1, <1>2, <2>4, <3>1
    <3> QED
      BY <2>4, <3>2 DEF Lone, n
  <2> QED
    BY <2>1, <2>2, <2>3, <2>4
<1> QED
  BY <1>3, <1>4 DEF a

LEMMA AtRemove ==
  ASSUME NEW s, IsList(s), NEW k \in 1..Len(s)
  PROVE  /\ Part(RemoveAt(s, k), s)
         /\ \A T : /\ Has(RemoveAt(s, k), T) => Has(s, T)
                   /\ s[k].t \notin T => (Has(s, T) <=> Has(RemoveAt(s, k), T))
                   /\ Lone(s, T) => /\ Lone(RemoveAt(s, k), T)
                                    /\ s[k].t \in T => ~Has(RemoveAt(s, k), T)
<1> DEFINE a == RemoveAt(s, k)
           n == Len(s)
           p(i) == IF i < k THEN i ELSE i + 1
<1>1. /\ n \in Nat /\ Len(a) = n - 1 /\ k \in 1..n
      /\ \A i \in 1..n - 1 : a[i] = IF i < k THEN s[i] ELSE s[i + 1]
  BY Removed, ListLen
<1>2. \A i \in 1..Len(a) : /\ p(i) \in 1..n /\ a[i] = s[p(i)] /\ p(i) # k
                           /\ \A j \in 1..Len(a) : p(i) = p(j) => i = j
  BY <1>1
<1>3. \A j \in 1..n : j # k => \E i \in 1..Len(a) : p(i) = j
  <2> SUFFICES ASSUME NEW j \in 1..n, j # k PROVE \E i \in 1..Len(a) : p(i) = j
    OBVIOUS
  <2>1. CASE j < k
    <3>1. j \in 1..Len(a) /\ p(j) = j
      BY <1>1, <2>1
    <3> HIDE DEF p
    <3> QED
      BY <3>1
  <2>2. CASE ~(j < k)
    <3>1. j - 1 \in 1..Len(a) /\ p(j - 1) = j
      BY <1>1, <2>2
    <3> HIDE DEF p
    <3> QED
      BY <3>1
  <2> QED
    BY <2>1, <2>2
<1> HIDE DEF a, n, p
<1>4. Part(a, s)
  BY <1>2 DEF Part, n
<1>5. ASSUME NEW T
      PROVE  /\ Has(a, T) => Has(s, T)
             /\ s[k].t \notin T => (Has(s, T) <=> Has(a, T))
             /\ Lone(s, T) => Lone(a, T) /\ (s[k].t \in T => ~Has(a, T))
  <2>1. Has(a, T) => Has(s, T)
    BY <1>2 DEF Has, n
  <2>2. ASSUME s[k].t \notin T, Has(s, T) PROVE Has(a, T)
    <3>1. PICK j \in 1..n : s[j].t \in T
      BY <2>2 DEF Has, n
    <3>2. PICK i \in 1..Len(a) : p(i) = j
      BY <1>3, <2>2, <3>1
    <3> QED
      BY <1>2, <3>1, <3>2 DEF Has
  <2>3. Lone(s, T) => Lone(a, T)
    BY <1>2 DEF Lone, n
  <2>4. Lone(s, T) /\ s[k].t \in T => ~Has(a, T)
    BY <1>1, <1>2 DEF Lone, Has, n
  <2> QED
    BY <2>1, <2>2, <2>3, <2>4
<1> QED
  BY <1>4, <1>5 DEF a

LEMMA AtJoin ==
  ASSUME NEW s, IsList(s), NEW t, IsList(t)
  PROVE  /\ \A i \in 1..Len(s \o t) : \/ \E j \in 1..Len(s) : (s \o t)[i] = s[j]
                                      \/ \E j \in 1..Len(t) : (s \o t)[i] = t[j]
         /\ \A T : /\ Has(s \o t, T) <=> Has(s, T) \/ Has(t, T)
                   /\ Lone(s, T) /\ Lone(t, T) /\ ~(Has(s, T) /\ Has(t, T)) => Lone(s \o t, T)
<1> DEFINE a == s \o t
           n == Len(s)
<1>1. /\ n \in Nat /\ Len(t) \in Nat /\ Len(a) = n + Len(t)
      /\ \A i \in 1..n : a[i] = s[i]
      /\ \A i \in 1..Len(t) : a[n + i] = t[i]
      /\ \A i \in 1..Len(a) : i > n => i - n \in 1..Len(t) /\ a[i] = t[i - n]
  BY Joined, ListLen
<1>2. /\ \A i \in 1..Len(a) : i \in 1..n \/ (i - n \in 1..Len(t) /\ a[i] = t[i - n] /\ i = n + (i - n))
      /\ \A i \in 1..n : i \in 1..Len(a)
      /\ \A i \in 1..Len(t) : n + i \in 1..Len(a)
  BY <1>1
<1> HIDE DEF a, n
<1>3. \A i \in 1..Len(a) : \/ \E j \in 1..Len(s) : a[i] = s[j]
                           \/ \E j \in 1..Len(t) : a[i] = t[j]
  BY <1>1, <1>2 DEF n
<1>4. ASSUME NEW T
      PROVE  /\ Has(a, T) <=> Has(s, T) \/ Has(t, T)
             /\ Lone(s, T) /\ Lone(t, T) /\ ~(Has(s, T) /\ Has(t, T)) => Lone(a, T)
  <2>1. Has(a, T) => Has(s, T) \/ Has(t, T)
    BY <1>3 DEF Has
  <2>2. Has(s, T) \/ Has(t, T) => Has(a, T)
    BY <1>1, <1>2 DEF Has, n
  <2>3. ASSUME Lone(s, T), Lone(t, T), ~(Has(s, T) /\ Has(t, T)) PROVE Lone(a, T)
    <3> SUFFICES ASSUME NEW i \in 1..Len(a), NEW j \in 1..Len(a), a[i].t \in T, a[j].t \in T
                 PROVE  i = j
      BY DEF Lone
    <3>1. CASE i \in 1..n /\ j \in 1..n
      BY <1>1, <2>3, <3>1 DEF Lone, n
    <3>2. CASE i \notin 1..n /\ j \notin 1..n
      <4> DEFINE x == i - n
                 y == j - n
      <4>1. x \in 1..Len(t) /\ y \in 1..Len(t) /\ t[x].t \in T /\ t[y].t \in T /\ i = n + x /\ j = n + y
        BY <1>2, <3>2
      <4> HIDE DEF x, y
      <4>2. x = y
        BY <2>3, <4>1 DEF Lone
      <4> QED
        BY <4>1, <4>2
    <3>3. CASE i \in 1..n /\ j \notin 1..n
      <4>1. Has(s, T) /\ Has(t, T)
        BY <1>1, <1>2, <3>3 DEF Has, n
      <4> QED
        BY <2>3, <4>1
    <3>4. CASE i \notin 1..n /\ j \in 1..n
      <4>1. Has(s, T) /\ Has(t, T)
        BY <1>1, <1>2, <3>4 DEF Has, n
      <4> QED
        BY <2>3, <4>1
    <3> QED
      BY <3>1, <3>2, <3>3, <3>4
  <2> QED
    BY <2>1, <2>2, <2>3
<1> QED
  BY <1>3, <1>4 DEF a

-----------------------------------------------------------------------------
(* Whose answer is on its way                                               *)

(* The packets that answer a login, and the login itself.                   *)
Answers == {"SUCCESS", "FAILURE", "M60"}
Owing == Answers \cup {"REQUEST"}
Id(m) == IF m.t = "REQUEST" THEN m.p.id ELSE m.p

(* Of the types T, one packet at most in q and t together; a KEXINIT is     *)
(* followed by no answer.                                                   *)
Single(q, t, T) == Lone(q, T) /\ Lone(t, T) /\ ~(Has(q, T) /\ Has(t, T))
Ordered(t) == \A i, j \in 1..Len(t) : i < j /\ t[i].t = "KEXINIT" => t[j].t \notin Answers

(* The server answers nothing before it has read our NEWKEYS.               *)
Shut == srv.phase # "open" /\ ~Has(toSrv, {"NEWKEYS"})
NoAnswer == ~Has(queue, Answers) /\ ~Has(toCli, Answers)
NoKexinit == ~Has(queue, {"KEXINIT"}) /\ ~Has(toCli, {"KEXINIT"})

(* The client has not sent the NEWKEYS of the exchange under way.           *)
Before ==
  \/ c.exch /\ c.low # "waitnew"
  \/ ~c.ready /\ st["handshake"] \in {"idle", "created", "sent"}
Chose == c.exch /\ c.kst = "sent2" /\ c.low # "waitnew"
NotYet ==
  /\ ~Has(toSrv, {"NEWKEYS"}) /\ (srv.phase # "open" \/ srv.n = 0) /\ NoAnswer

(* Exchanges and answers take turns.                                        *)
Turns ==
  /\ Lone(toSrv, {"NEWKEYS"}) /\ (Has(toSrv, {"NEWKEYS"}) => srv.phase # "open")
  /\ Single(queue, toCli, {"KEXINIT"}) /\ (~NoKexinit => Shut)
  /\ Chose => NoKexinit
  /\ Ordered(toCli)
  /\ Before => NotYet

(* One function at a time is under way, but for a password change that has  *)
(* failed; and it has sent the last request.                                *)
Half(f) == f = "pswd" /\ st[f] \in {"sent1", "sent2"}
Past(f) == st[f] \notin {"idle", "created"} /\ ~Half(f)
Rests(f) == st[f] = "idle" \/ Half(f)
Alone ==
  /\ \A f, g \in Methods : f # g /\ (call = f \/ ~Rests(f)) => Rests(g)
  /\ \A f \in Methods : Past(f) => own[f] = reqs
  /\ DOMAIN own = Functions

(* After an exchange that failed no answer comes any more.                  *)
Stuck == ~c.exch /\ Shut /\ ~Has(toCli, {"KEXINIT"}) /\ NoAnswer

(* Otherwise one answer is owed at most, and it is owed to the function     *)
(* that waits for it, unless the connection is lost.                        *)
One ==
  /\ Single(queue, toCli, Owing) /\ Lone(srv.todo, Owing) /\ Lone(toSrv, Owing)
  /\ Has(queue, Owing) \/ Has(toCli, Owing) => ~Has(srv.todo, Owing) /\ ~Has(toSrv, Owing)
  /\ Has(srv.todo, Owing) => ~Has(toSrv, Owing)
MayAsk(m) ==
  m.t = "M60" \/ (m.t = "REQUEST" /\ m.p.kind \notin {"none", "hostbased", "signed"})
Awaiting(f) ==
  \/ st[f] = "sent"
  \/ f = "list" /\ st[f] = "banner"
  \/ f = "pblc" /\ st[f] = "sent3"
Owner(m, f) ==
  Awaiting(f) /\ (MayAsk(m) => f \in {"pswd", "pblc", "kybd"} /\ st[f] = "sent")
OwedTo(m) == Id(m) = reqs /\ (sock = "up" => \E f \in Methods : Owner(m, f))
OwedBy(s) == \A i \in 1..Len(s) : s[i].t \in Owing => OwedTo(s[i])
NoneOwed ==
  /\ ~Has(queue, Owing) /\ ~Has(toCli, Owing)
  /\ ~Has(srv.todo, Owing) /\ ~Has(toSrv, Owing)
Owed ==
  /\ ~c.ready => NoneOwed
  /\ Stuck \/ (One /\ OwedBy(queue) /\ OwedBy(toCli) /\ OwedBy(srv.todo) /\ OwedBy(toSrv))

(* The answers say what the server has decided.                             *)
Truthful(m) ==
  /\ m.t = "SUCCESS" => srv.auth /\ srv.accepted = m.p
  /\ m.t = "FAILURE" => m.p \in srv.refused
  /\ m.t = "M60" => m.p \in srv.asked
AllTruthful(s) == \A i \in 1..Len(s) : Truthful(s[i])
(* These two functions go on with what the server asked them for.           *)
Asking(f) == f \in {"pswd", "pblc"} /\ st[f] = "sent1"
Truth ==
  /\ AllTruthful(queue) /\ AllTruthful(toCli)
  /\ \A f \in Methods : Asking(f) => own[f] \in srv.asked
  /\ result.rc = "ok" => srv.auth
  /\ TrueVerdict

VerdictInv == Turns /\ Alone /\ Owed /\ Truth

-----------------------------------------------------------------------------
(* How the steps of the client move packets                                 *)

LEMMA MovesHas ==
  ASSUME NEW q, IsList(q), NEW t, IsList(t), NEW q2, NEW t2, Moves(q, t, q2, t2)
  PROVE  /\ Part(t2, t) /\ (Ordered(t) => Ordered(t2))
         /\ \A i \in 1..Len(q2) : \/ \E j \in 1..Len(q) : q2[i] = q[j]
                                  \/ \E j \in 1..Len(t) : q2[i] = t[j]
         /\ \A T : /\ Has(t2, T) => Has(t, T)
                   /\ Has(q2, T) => Has(q, T) \/ Has(t, T)
                   /\ Single(q, t, T) => Single(q2, t2, T)
<1>1. CASE t2 = t /\ q2 = q
  BY <1>1 DEF Part
<1>2. ASSUME t2 = t, NEW k \in 1..Len(q), q2 = RemoveAt(q, k)
      PROVE  /\ Part(t2, t) /\ (Ordered(t) => Ordered(t2))
             /\ \A i \in 1..Len(q2) : \E j \in 1..Len(q) : q2[i] = q[j]
             /\ \A T : /\ Has(t2, T) => Has(t, T)
                       /\ Has(q2, T) => Has(q, T)
                       /\ Single(q, t, T) => Single(q2, t2, T)
  <2>1. Part(t2, t) /\ Part(q2, q)
    BY <1>2, AtRemove DEF Part
  <2>2. \A T : (Has(q2, T) => Has(q, T)) /\ (Lone(q, T) => Lone(q2, T))
    BY <1>2, AtRemove
  <2> QED
    BY <1>2, <2>1, <2>2 DEF Part, Single
<1>3. ASSUME t # <<>>, t2 = Tail(t), q2 = q \/ q2 = Append(q, Head(t))
      PROVE  /\ Part(t2, t) /\ (Ordered(t) => Ordered(t2))
             /\ \A i \in 1..Len(q2) : \/ \E j \in 1..Len(q) : q2[i] = q[j]
                                      \/ \E j \in 1..Len(t) : q2[i] = t[j]
             /\ \A T : /\ Has(t2, T) => Has(t, T)
                       /\ Has(q2, T) => Has(q, T) \/ Has(t, T)
                       /\ Single(q, t, T) => Single(q2, t2, T)
  <2> DEFINE m == Head(t)
  <2>1. /\ Part(t2, t) /\ (\E j \in 1..Len(t) : m = t[j])
        /\ \A T : /\ Has(t, T) <=> m.t \in T \/ Has(t2, T)
                  /\ Lone(t, T) => Lone(t2, T) /\ (m.t \in T => ~Has(t2, T))
    BY <1>3, AtTail
  <2> HIDE DEF m
  <2>2. /\ PartOr(Append(q, m), q, m)
        /\ \A T : /\ Has(Append(q, m), T) <=> Has(q, T) \/ m.t \in T
                  /\ Lone(q, T) /\ (Has(q, T) => m.t \notin T) => Lone(Append(q, m), T)
    BY AtAppend
  <2>3. Ordered(t) => Ordered(t2)
    <3> SUFFICES ASSUME Ordered(t), NEW i \in 1..Len(t2), NEW j \in 1..Len(t2), i < j,
                        t2[i].t = "KEXINIT"
                 PROVE  t2[j].t \notin Answers
      BY DEF Ordered
    <3>1. /\ Len(t) \in Nat \ {0} /\ Len(t2) = Len(t) - 1
          /\ t2[i] = t[i + 1] /\ t2[j] = t[j + 1]
      BY <1>3, ListLen
    <3>2. i + 1 \in 1..Len(t) /\ j + 1 \in 1..Len(t) /\ i + 1 < j + 1
      BY <3>1
    <3> QED
      BY <3>1, <3>2 DEF Ordered
  <2>4. q2 = q \/ q2 = Append(q, m)
    BY <1>3 DEF m
  <2>5. \A i \in 1..Len(q2) : \/ \E j \in 1..Len(q) : q2[i] = q[j]
                              \/ \E j \in 1..Len(t) : q2[i] = t[j]
    BY <2>1, <2>2, <2>4 DEF PartOr
  <2>6. ASSUME NEW T
        PROVE  /\ Has(t2, T) => Has(t, T)
               /\ Has(q2, T) => Has(q, T) \/ Has(t, T)
               /\ Single(q, t, T) => Single(q2, t2, T)
    <3>1. /\ Has(t, T) <=> m.t \in T \/ Has(t2, T)
          /\ Lone(t, T) => Lone(t2, T) /\ (m.t \in T => ~Has(t2, T))
          /\ Has(Append(q, m), T) <=> Has(q, T) \/ m.t \in T
          /\ Lone(q, T) /\ (Has(q, T) => m.t \notin T) => Lone(Append(q, m), T)
      BY <2>1, <2>2
    <3> QED
      BY <2>4, <3>1 DEF Single
  <2> QED
    BY <2>1, <2>3, <2>5, <2>6
<1> QED
  BY <1>1, <1>2, <1>3 DEF Moves

(* A packet of no interest, or none, is sent.                               *)
Posts(T) == toSrv' = toSrv \/ \E m : toSrv' = Append(toSrv, m) /\ m.t \notin T

LEMMA PostsHas ==
  ASSUME IsList(toSrv), NEW T, Posts(T)
  PROVE  (Has(toSrv', T) <=> Has(toSrv, T)) /\ (Lone(toSrv, T) => Lone(toSrv', T))
BY AtAppend DEF Posts

LEMMA TurnsKept ==
  ASSUME Types, Turns, srv' = srv, Moves(queue, toCli, queue', toCli'), Posts({"NEWKEYS"}),
         Chose' => Chose \/ NoKexinit', Before' => Before \/ NotYet'
  PROVE  Turns'
<1>1. IsList(queue) /\ IsList(toCli) /\ IsList(toSrv)
  BY DEF Types
<1>2. /\ Has(toSrv', {"NEWKEYS"}) <=> Has(toSrv, {"NEWKEYS"})
      /\ Lone(toSrv, {"NEWKEYS"}) => Lone(toSrv', {"NEWKEYS"})
  BY <1>1, PostsHas
<1>3. /\ Ordered(toCli) => Ordered(toCli')
      /\ \A T : /\ Has(toCli', T) => Has(toCli, T)
                /\ Has(queue', T) => Has(queue, T) \/ Has(toCli, T)
                /\ Single(queue, toCli, T) => Single(queue', toCli', T)
  BY <1>1, MovesHas
<1>4. NoKexinit => NoKexinit'
  BY <1>3 DEF NoKexinit
<1>5. NotYet => NotYet'
  BY <1>2, <1>3 DEF NotYet, NoAnswer
<1>6. Shut => Shut'
  BY <1>2 DEF Shut
<1> QED
  BY <1>2, <1>3, <1>4, <1>5, <1>6 DEF Turns

LEMMA AloneKept ==
  ASSUME Types, Alone, NEW f \in Methods, call = f, call' \in {f, None},
         \A g \in Methods \ {f} : st'[g] = st[g],
         Past(f)' => own'[f] = reqs', DOMAIN own' = DOMAIN own
  PROVE  Alone'
<1>1. \A g \in Methods \ {f} : Rests(g) /\ Rests(g)'
  BY DEF Alone, Rests, Half
<1>2. \A g \in Methods \ {f} : call' # g
  BY Names
<1>3. \A g \in Methods : Past(g)' => own'[g] = reqs'
  BY <1>1 DEF Past, Rests
<1>4. DOMAIN own' = Functions
  BY DEF Alone
<1> QED
  BY <1>1, <1>2, <1>3, <1>4 DEF Alone

(* Nothing is owed anew, and what is owed stays owed to the same function.  *)
LEMMA OwedKept ==
  ASSUME Types, Owed, srv' = srv, sock' = sock, reqs' = reqs,
         Moves(queue, toCli, queue', toCli'), Posts(Owing), c.ready => c'.ready,
         c.ready /\ Stuck => ~c'.exch /\ Posts({"NEWKEYS"}),
         \A m : \A f \in Methods : c.ready /\ sock = "up" /\ Owner(m, f) => Owner(m, f)'
  PROVE  Owed'
<1>1. IsList(queue) /\ IsList(toCli) /\ IsList(toSrv)
  BY DEF Types
<1>2. /\ Part(toCli', toCli)
      /\ \A i \in 1..Len(queue') : \/ \E j \in 1..Len(queue) : queue'[i] = queue[j]
                                   \/ \E j \in 1..Len(toCli) : queue'[i] = toCli[j]
      /\ \A T : /\ Has(toCli', T) => Has(toCli, T)
                /\ Has(queue', T) => Has(queue, T) \/ Has(toCli, T)
                /\ Single(queue, toCli, T) => Single(queue', toCli', T)
  BY <1>1, MovesHas
<1>4. /\ Has(toSrv', Owing) <=> Has(toSrv, Owing)
      /\ Lone(toSrv, Owing) => Lone(toSrv', Owing)
  BY <1>1, PostsHas
<1>5. NoneOwed => NoneOwed'
  BY <1>2, <1>4 DEF NoneOwed
<1>6. CASE c.ready /\ Stuck
  <2>0. Has(toSrv', {"NEWKEYS"}) <=> Has(toSrv, {"NEWKEYS"})
    BY <1>1, <1>6, PostsHas
  <2>1. Stuck'
    BY <1>2, <1>6, <2>0 DEF Stuck, Shut, NoAnswer
  <2> QED
    BY <1>5, <1>6, <2>1 DEF Owed
<1>7. CASE NoneOwed
  <2>1. NoneOwed'
    BY <1>5, <1>7
  <2>2. One'
    BY <2>1 DEF NoneOwed, One, Single, Has, Lone
  <2>3. OwedBy(queue)' /\ OwedBy(toCli)' /\ OwedBy(srv.todo)' /\ OwedBy(toSrv)'
    BY <2>1 DEF NoneOwed, Has, OwedBy
  <2> QED
    BY <2>1, <2>2, <2>3 DEF Owed
<1>8. CASE c.ready /\ One /\ OwedBy(queue) /\ OwedBy(toCli) /\ OwedBy(srv.todo) /\ OwedBy(toSrv)
  <2>1. \A m : OwedTo(m) => OwedTo(m)'
    BY <1>8 DEF OwedTo, Id
  <2>2. One'
    BY <1>2, <1>4, <1>8 DEF One
  <2> HIDE DEF OwedTo
  <2>3. OwedBy(srv.todo)'
    BY <1>8, <2>1 DEF OwedBy
  <2>4. OwedBy(toCli)'
    BY <1>2, <1>8, <2>1 DEF OwedBy, Part
  <2>5. OwedBy(queue)'
    BY <1>2, <1>8, <2>1 DEF OwedBy
  <2>6. OwedBy(toSrv)'
    <3>1. CASE toSrv' = toSrv
      BY <1>8, <2>1, <3>1 DEF OwedBy
    <3>2. ASSUME NEW m, toSrv' = Append(toSrv, m), m.t \notin Owing
          PROVE  OwedBy(toSrv)'
      <4>1. PartOr(toSrv', toSrv, m)
        BY <1>1, <3>2, AtAppend
      <4> QED
        BY <1>8, <2>1, <3>2, <4>1 DEF OwedBy, PartOr
    <3> QED
      BY <3>1, <3>2 DEF Posts
  <2> QED
    BY <1>8, <2>2, <2>3, <2>4, <2>5, <2>6 DEF Owed
<1> QED
  BY <1>6, <1>7, <1>8 DEF Owed

(* A call ends without a verdict, or with the code of a refusal because no  *)
(* verdict can come.                                                        *)
Verdicts == {"ok"} \cup Refusals
Plainly ==
  \/ result' = result
  \/ result'.rc \notin Verdicts
  \/ /\ result'.rc # "ok" /\ result'.answer = 0
     /\ \/ sock = "down" \/ c'.failed
        \/ \E f \in Methods : Asking(f) /\ result'.f = f /\ result'.own = own[f]
NoneAsked == \A f \in Methods : Asking(f)' => Asking(f) /\ own'[f] = own[f]

LEMMA VerdictKept ==
  ASSUME Truth, srv' = srv, Plainly, c'.auth = c.auth, c.failed => c'.failed,
         sock = "down" => sock' = "down"
  PROVE  TrueVerdict' /\ (result'.rc = "ok" => srv'.auth)
<1>1. CASE result' = result
  BY <1>1 DEF Truth, TrueVerdict
<1>2. CASE result'.rc \notin Verdicts
  BY <1>2 DEF Truth, TrueVerdict, Verdicts
<1>3. CASE /\ result'.rc # "ok" /\ result'.answer = 0
           /\ sock = "down" \/ c'.failed
  BY <1>3 DEF Truth, TrueVerdict
<1>4. ASSUME NEW f \in Methods, Asking(f), result'.f = f, result'.own = own[f],
             result'.rc # "ok", result'.answer = 0
      PROVE  TrueVerdict'
  <2>1. own[f] \in srv.asked /\ f \in {"pswd", "pblc"}
    BY <1>4 DEF Truth, Asking
  <2> QED
    BY <1>4, <2>1 DEF Truth, TrueVerdict
<1>5. result'.rc = "ok" => srv'.auth
  BY DEF Truth, Plainly, Verdicts
<1> QED
  BY <1>1, <1>2, <1>3, <1>4, <1>5 DEF Plainly

LEMMA TruthKept ==
  ASSUME Types, Truth, srv' = srv, Moves(queue, toCli, queue', toCli'),
         Plainly, c'.auth = c.auth, c.failed => c'.failed, NoneAsked,
         sock = "down" => sock' = "down"
  PROVE  Truth'
<1>1. /\ Part(toCli', toCli)
      /\ \A i \in 1..Len(queue') : \/ \E j \in 1..Len(queue) : queue'[i] = queue[j]
                                   \/ \E j \in 1..Len(toCli) : queue'[i] = toCli[j]
  BY MovesHas DEF Types
<1>2. AllTruthful(queue') /\ AllTruthful(toCli')
  BY <1>1 DEF Truth, AllTruthful, Part
<1>3. AllTruthful(queue)' /\ AllTruthful(toCli)'
  BY <1>2 DEF AllTruthful, Truthful
<1>4. \A f \in Methods : Asking(f)' => own'[f] \in srv'.asked
  BY DEF Truth, NoneAsked
<1>5. TrueVerdict' /\ (result'.rc = "ok" => srv'.auth)
  BY VerdictKept
<1> QED
  BY <1>3, <1>4, <1>5 DEF Truth

-----------------------------------------------------------------------------
(* The steps of a login                                                     *)

(* The function f goes on, or returns; nothing of the exchange changes.     *)
Acts(f) ==
  /\ call = f /\ call' \in {f, None} /\ UNCHANGED <<srv, toCli, sock>>
  /\ \A g \in Functions \ {f} : st'[g] = st[g]
  /\ c'.exch = c.exch /\ c'.kst = c.kst /\ c'.low = c.low /\ c'.ready = c.ready

(* It changes its own state only, and does not forget what it is owed.      *)
Quietly(f) ==
  /\ Acts(f) /\ UNCHANGED <<queue, toSrv, reqs, own>> /\ Plainly /\ c'.auth = c.auth /\ (c.failed => c'.failed)
  /\ \/ st'[f] = st[f]
     \/ /\ Awaiting(f) => sock = "down"
        /\ Past(f)' => Past(f)
        /\ st'[f] # "sent1"

(* It sends a request.                                                      *)
Asks(f, r) ==
  /\ Acts(f) /\ UNCHANGED <<queue, result>> /\ c' = c /\ sock = "up" /\ ~Awaiting(f)
  /\ toSrv' = Append(toSrv, [t |-> "REQUEST", p |-> r, seal |-> LocalSeal])
  /\ r.id = reqs + 1 /\ reqs' = reqs + 1 /\ own' = [own EXCEPT ![f] = reqs + 1]
  /\ \/ st'[f] = "sent"
     \/ f = "pblc" /\ st'[f] = "sent3"
  /\ \/ r.kind \in {"none", "hostbased", "signed"}
     \/ f \in {"pswd", "pblc", "kybd"} /\ st'[f] = "sent"

(* It takes an answer, k of the queue.                                      *)
Takes(f, k) ==
  /\ Acts(f) /\ UNCHANGED <<toSrv, reqs, own>>
  /\ k \in 1..Len(queue) /\ queue' = RemoveAt(queue, k) /\ queue[k].t \in Answers
  /\ Past(f)
  /\ \/ Plainly /\ c'.auth = c.auth /\ (c.failed => c'.failed)
        /\ (st'[f] = "sent1" => queue[k].t = "M60")
     \/ /\ queue[k].t = "SUCCESS"
        /\ result'.rc = "ok" /\ result'.answer = queue[k].p /\ result'.own = own[f]
        /\ st'[f] = "idle"
     \/ /\ queue[k].t = "FAILURE" /\ c'.auth = c.auth /\ (c.failed => c'.failed)
        /\ st'[f] = "idle"
        /\ result'.rc \in Refusals /\ result'.answer = queue[k].p /\ result'.own = own[f]

(* It passes over a banner.                                                 *)
Skips(f, k) ==
  /\ Acts(f) /\ UNCHANGED <<toSrv, reqs, own, result>> /\ c'.auth = c.auth /\ (c.failed => c'.failed)
  /\ k \in 1..Len(queue) /\ queue' = RemoveAt(queue, k)
  /\ f = "list" /\ st[f] = "sent" /\ st'[f] = "banner"

LEMMA ActsTurns ==
  ASSUME Types, Turns, NEW f \in Methods, Acts(f), Moves(queue, toCli, queue', toCli'),
         Posts({"NEWKEYS"})
  PROVE  Turns'
<1>1. st'["handshake"] = st["handshake"]
  BY Names DEF Acts
<1>2. (Chose' => Chose) /\ (Before' => Before)
  BY <1>1 DEF Chose, Before, Acts
<1> QED
  BY <1>2, TurnsKept DEF Acts

(* While f runs, what is owed is owed to f.                                 *)
LEMMA OnlyOwner ==
  ASSUME Alone, NEW f \in Methods, call = f, NEW g \in Methods, NEW m, Owner(m, g)
  PROVE  g = f
BY DEF Alone, Owner, Awaiting, Rests, Half

LEMMA QuietlyKeeps ==
  ASSUME Types, VerdictInv, NEW f \in Methods, Quietly(f)
  PROVE  VerdictInv'
<1>t. Turns /\ Alone /\ Owed /\ Truth
  BY DEF VerdictInv
<1>a. Acts(f) /\ call = f /\ call' \in {f, None}
  BY DEF Quietly, Acts
<1>1. Moves(queue, toCli, queue', toCli') /\ \A T : Posts(T)
  BY DEF Moves, Posts, Quietly, Acts
<1>2. Turns'
  BY <1>t, <1>a, <1>1, ActsTurns
<1>o. \A g \in Methods \ {f} : st'[g] = st[g]
  BY <1>a, Names DEF Acts
<1>3. Alone'
  <2>1. Past(f)' => Past(f)
    BY DEF Quietly, Past, Half
  <2>2. own' = own /\ reqs' = reqs /\ (Past(f) => own[f] = reqs)
    BY <1>t DEF Quietly, Alone
  <2> QED
    BY <1>t, <1>a, <1>o, <2>1, <2>2, AloneKept
<1>4. ASSUME NEW m, NEW g \in Methods, sock = "up", Owner(m, g) PROVE Owner(m, g)'
  <2>1. g = f
    BY <1>t, <1>a, <1>4, OnlyOwner
  <2>2. st'[f] = st[f]
    BY <1>4, <2>1 DEF Quietly, Owner
  <2> QED
    BY <1>4, <2>1, <2>2 DEF Owner, Awaiting
<1>5. Owed'
  <2>1. srv' = srv /\ sock' = sock /\ reqs' = reqs /\ (Stuck => ~c'.exch) /\ c'.ready = c.ready
    BY <1>a DEF Quietly, Acts, Stuck
  <2> QED
    BY <1>t, <1>1, <1>4, <2>1, OwedKept
<1>6. Truth'
  <2>1. NoneAsked
    BY <1>o DEF NoneAsked, Asking, Quietly
  <2>2. /\ srv' = srv /\ sock' = sock /\ Plainly /\ c'.auth = c.auth
        /\ (c.failed => c'.failed)
    BY DEF Quietly, Acts
  <2> QED
    BY <1>t, <1>1, <2>1, <2>2, TruthKept
<1> QED
  BY <1>2, <1>3, <1>5, <1>6 DEF VerdictInv

LEMMA AsksKeeps ==
  ASSUME Types, VerdictInv, NEW f \in Methods, NEW r, Asks(f, r), c.ready
  PROVE  VerdictInv'
<1>t. Turns /\ Alone /\ Owed /\ Truth
  BY DEF VerdictInv
<1>a. Acts(f) /\ call = f /\ call' \in {f, None}
  BY DEF Asks, Acts
<1>m. PICK m : m.t = "REQUEST" /\ m.p = r /\ toSrv' = Append(toSrv, m)
  BY DEF Asks
<1>b. /\ UNCHANGED <<srv, toCli, sock, queue, result>> /\ c' = c
      /\ sock = "up" /\ ~Awaiting(f) /\ r.id = reqs + 1 /\ reqs' = reqs + 1
      /\ own' = [own EXCEPT ![f] = reqs + 1]
      /\ (st'[f] = "sent" \/ (f = "pblc" /\ st'[f] = "sent3"))
      /\ \/ r.kind \in {"none", "hostbased", "signed"}
         \/ f \in {"pswd", "pblc", "kybd"} /\ st'[f] = "sent"
  BY Zenon DEF Asks, Acts
<1>1. Moves(queue, toCli, queue', toCli') /\ Posts({"NEWKEYS"})
  BY <1>m, <1>b DEF Moves, Posts
<1>2. Turns'
  BY <1>t, <1>a, <1>1, ActsTurns
<1>o. \A g \in Methods \ {f} : st'[g] = st[g]
  BY <1>a, Names DEF Acts
<1>3. Alone'
  <2>0. f \in DOMAIN own
    BY <1>t, Names DEF Alone
  <2>1. own'[f] = reqs' /\ DOMAIN own' = DOMAIN own
    BY <1>b, <2>0
  <2> QED
    BY <1>t, <1>a, <1>o, <2>1, AloneKept
<1>4. /\ PartOr(toSrv', toSrv, m)
      /\ \A T : /\ Has(toSrv', T) <=> Has(toSrv, T) \/ m.t \in T
                /\ Lone(toSrv, T) /\ (Has(toSrv, T) => m.t \notin T) => Lone(toSrv', T)
  BY <1>m, AtAppend DEF Types
<1>5. ASSUME Stuck PROVE Owed'
  <2>1. Has(toSrv', {"NEWKEYS"}) <=> Has(toSrv, {"NEWKEYS"})
    BY <1>m, <1>4
  <2>2. Stuck'
    BY <1>5, <1>b, <2>1 DEF Stuck, Shut, NoAnswer
  <2> QED
    BY <1>b, <2>2 DEF Owed
<1>6. ASSUME One, OwedBy(queue), OwedBy(toCli), OwedBy(srv.todo), OwedBy(toSrv)
      PROVE  Owed'
  <2>1. \A x : ~OwedTo(x)
    <3> SUFFICES ASSUME NEW x, OwedTo(x) PROVE FALSE
      OBVIOUS
    <3>1. PICK g \in Methods : Owner(x, g)
      BY <1>b DEF OwedTo
    <3>2. g = f
      BY <1>t, <1>a, <3>1, OnlyOwner
    <3> QED
      BY <1>b, <3>1, <3>2 DEF Owner
  <2>2. NoneOwed
    BY <1>6, <2>1 DEF NoneOwed, OwedBy, Has
  <2>3. /\ ~Has(queue', Owing) /\ ~Has(toCli', Owing) /\ ~Has(srv'.todo, Owing)
    BY <1>b, <2>2 DEF NoneOwed
  <2>4. Lone(toSrv', Owing)
    BY <1>4, <1>6, <2>2 DEF One, NoneOwed
  <2>5. One'
    BY <2>3, <2>4 DEF One, Single, Has, Lone
  <2>6. OwedBy(queue)' /\ OwedBy(toCli)' /\ OwedBy(srv.todo)'
    BY <2>3 DEF Has, OwedBy
  <2>7. OwedTo(m)'
    <3>1. Id(m) = reqs'
      BY <1>m, <1>b DEF Id
    <3>2. Owner(m, f)'
      BY <1>m, <1>b DEF Owner, Awaiting, MayAsk
    <3> QED
      BY <3>1, <3>2 DEF OwedTo, Id
  <2>8. OwedBy(toSrv)'
    <3>1. \A j \in 1..Len(toSrv) : toSrv[j].t \notin Owing
      BY <2>2 DEF NoneOwed, Has
    <3> QED
      BY <1>4, <2>7, <3>1 DEF OwedBy, PartOr
  <2> QED
    BY <1>b, <2>5, <2>6, <2>8 DEF Owed
<1>7. Truth'
  <2>0. f \in DOMAIN own /\ \A g \in Methods : g \in DOMAIN own
    BY <1>t, Names DEF Alone
  <2>1. \A g \in Methods \ {f} : own'[g] = own[g]
    BY <1>b, <2>0
  <2>2. NoneAsked
    BY <1>b, <1>o, <2>1 DEF NoneAsked, Asking
  <2>3. Plainly
    BY <1>b DEF Plainly
  <2> QED
    BY <1>t, <1>b, <1>1, <2>2, <2>3, TruthKept
<1> QED
  BY <1>t, <1>2, <1>3, <1>5, <1>6, <1>7 DEF VerdictInv, Owed

LEMMA TakesKeeps ==
  ASSUME Types, VerdictInv, NEW f \in Methods, NEW k, Takes(f, k)
  PROVE  VerdictInv'
<1>t. Turns /\ Alone /\ Owed /\ Truth
  BY DEF VerdictInv
<1>a. Acts(f) /\ call = f /\ call' \in {f, None} /\ k \in 1..Len(queue) /\ queue[k].t \in Answers
  BY DEF Takes, Acts
<1>1. Moves(queue, toCli, queue', toCli') /\ Posts({"NEWKEYS"})
  BY DEF Moves, Posts, Takes, Acts
<1>2. Turns'
  BY <1>t, <1>a, <1>1, ActsTurns
<1>o. \A g \in Methods \ {f} : st'[g] = st[g]
  BY <1>a, Names DEF Acts
<1>3. own' = own /\ reqs' = reqs /\ own[f] = reqs
  BY <1>t DEF Takes, Alone
<1>4. Alone'
  BY <1>t, <1>a, <1>o, <1>3, AloneKept
<1>5. queue[k].t \in Owing /\ Has(queue, Answers) /\ Has(queue, Owing)
  BY <1>a DEF Has, Owing
<1>6. One /\ OwedBy(queue)
  BY <1>t, <1>5 DEF Owed, Stuck, NoAnswer
<1>7. queue[k].p = own[f]
  <2>1. OwedTo(queue[k])
    BY <1>a, <1>5, <1>6 DEF OwedBy
  <2>2. queue[k].t # "REQUEST"
    BY <1>a DEF Answers
  <2> QED
    BY <1>3, <2>1, <2>2 DEF OwedTo, Id
<1>8. Owed'
  <2>1. ~Has(queue', Owing)
    BY <1>5, <1>6, <1>a, AtRemove DEF One, Single, Takes, Types
  <2>2. NoneOwed'
    BY <1>5, <1>6, <2>1 DEF NoneOwed, One, Single, Takes, Acts
  <2>3. One'
    BY <2>2 DEF NoneOwed, One, Single, Has, Lone
  <2>4. OwedBy(queue)' /\ OwedBy(toCli)' /\ OwedBy(srv.todo)' /\ OwedBy(toSrv)'
    BY <2>2 DEF NoneOwed, Has, OwedBy
  <2> QED
    BY <2>2, <2>3, <2>4 DEF Owed
<1>9. Truth'
  <2>1. Truthful(queue[k])
    BY <1>t, <1>a DEF Truth, AllTruthful
  <2>2. /\ Part(toCli', toCli)
        /\ \A i \in 1..Len(queue') : \/ \E j \in 1..Len(queue) : queue'[i] = queue[j]
                                     \/ \E j \in 1..Len(toCli) : queue'[i] = toCli[j]
    BY <1>1, MovesHas DEF Types
  <2>3. AllTruthful(queue') /\ AllTruthful(toCli')
    BY <1>t, <2>2 DEF Truth, AllTruthful, Part
  <2>4. srv' = srv
    BY <1>a DEF Acts
  <2>5. AllTruthful(queue)' /\ AllTruthful(toCli)'
    BY <2>3, <2>4 DEF AllTruthful, Truthful
  <2>a. (st'[f] = "sent1" => queue[k].t = "M60") =>
          \A g \in Methods : Asking(g)' => own'[g] \in srv'.asked
    <3> SUFFICES ASSUME st'[f] = "sent1" => queue[k].t = "M60", NEW g \in Methods, Asking(g)'
                 PROVE  own[g] \in srv.asked
      BY <1>3, <2>4
    <3>1. CASE g = f
      BY <1>7, <2>1, <3>1 DEF Asking, Truthful
    <3>2. CASE g # f
      <4>1. Asking(g)
        BY <1>o, <3>2 DEF Asking
      <4> QED
        BY <1>t, <4>1 DEF Truth
    <3> QED
      BY <3>1, <3>2
  <2>6. CASE Plainly /\ c'.auth = c.auth /\ (c.failed => c'.failed)
             /\ (st'[f] = "sent1" => queue[k].t = "M60")
    <3>1. sock = "down" => sock' = "down"
      BY <1>a DEF Acts
    <3>2. TrueVerdict' /\ (result'.rc = "ok" => srv'.auth)
      BY <1>t, <2>4, <2>6, <3>1, VerdictKept
    <3> QED
      BY <2>5, <2>6, <2>a, <3>2 DEF Truth
  <2>7. CASE /\ queue[k].t = "SUCCESS"
             /\ result'.rc = "ok" /\ result'.answer = queue[k].p /\ result'.own = own[f]
             /\ st'[f] = "idle"
    BY <1>7, <2>1, <2>4, <2>5, <2>7, <2>a DEF Truth, TrueVerdict, Truthful, Refusals
  <2>8. CASE /\ queue[k].t = "FAILURE" /\ c'.auth = c.auth /\ (c.failed => c'.failed)
             /\ st'[f] = "idle"
             /\ result'.rc \in Refusals /\ result'.answer = queue[k].p /\ result'.own = own[f]
    BY <1>t, <1>7, <2>1, <2>4, <2>5, <2>8, <2>a DEF Truth, TrueVerdict, Truthful, Refusals
  <2> QED
    BY <2>6, <2>7, <2>8 DEF Takes
<1> QED
  BY <1>2, <1>4, <1>8, <1>9 DEF VerdictInv

LEMMA SkipsKeeps ==
  ASSUME Types, VerdictInv, NEW f \in Methods, NEW k, Skips(f, k)
  PROVE  VerdictInv'
<1>t. Turns /\ Alone /\ Owed /\ Truth
  BY DEF VerdictInv
<1>a. Acts(f) /\ call = f /\ call' \in {f, None}
  BY DEF Skips, Acts
<1>1. Moves(queue, toCli, queue', toCli') /\ \A T : Posts(T)
  BY DEF Moves, Posts, Skips, Acts
<1>2. Turns'
  BY <1>t, <1>a, <1>1, ActsTurns
<1>o. \A g \in Methods \ {f} : st'[g] = st[g]
  BY <1>a, Names DEF Acts
<1>3. own' = own /\ reqs' = reqs /\ own[f] = reqs
  <2>1. Past(f)
    BY DEF Skips, Past, Half
  <2> QED
    BY <1>t, <2>1 DEF Skips, Alone
<1>4. Alone'
  BY <1>t, <1>a, <1>o, <1>3, AloneKept
<1>5. ASSUME NEW m, NEW g \in Methods, Owner(m, g) PROVE Owner(m, g)'
  <2>1. g = f
    BY <1>t, <1>a, <1>5, OnlyOwner
  <2> QED
    BY <1>5, <2>1 DEF Owner, Awaiting, Skips
<1>6. Owed'
  <2>1. srv' = srv /\ sock' = sock /\ (Stuck => ~c'.exch) /\ c'.ready = c.ready
    BY <1>a DEF Acts, Stuck
  <2> QED
    BY <1>t, <1>1, <1>3, <1>5, <2>1, OwedKept
<1>7. Truth'
  <2>1. NoneAsked
    BY <1>o, <1>3 DEF NoneAsked, Asking, Skips
  <2>2. /\ srv' = srv /\ sock' = sock /\ Plainly /\ c'.auth = c.auth
        /\ (c.failed => c'.failed)
    BY DEF Skips, Acts, Plainly
  <2> QED
    BY <1>t, <1>1, <2>1, <2>2, TruthKept
<1> QED
  BY <1>2, <1>4, <1>6, <1>7 DEF VerdictInv

-----------------------------------------------------------------------------
(* Every function of userauth.c takes such steps                            *)

Steps(f) ==
  \/ Quietly(f)
  \/ \E r : Asks(f, r)
  \/ \E k : Takes(f, k) \/ Skips(f, k)

LEMMA StepsKeep ==
  ASSUME KexInv, VerdictInv, NEW f \in Methods, Steps(f)
  PROVE  VerdictInv'
<1>1. Types /\ Progress
  BY DEF KexInv
<1>2. ASSUME NEW r, Asks(f, r) PROVE VerdictInv'
  <2>1. call = f
    BY <1>2 DEF Asks, Acts
  <2>2. c.ready
    BY <1>1, <2>1 DEF Progress
  <2> QED
    BY <1>1, <1>2, <2>2, AsksKeeps
<1> QED
  BY <1>1, <1>2, QuietlyKeeps, TakesKeeps, SkipsKeeps DEF Steps

LEMMA Goes ==
  ASSUME Types, NEW f \in Methods, NEW x, To(f, x)
  PROVE  st'[f] = x /\ \A g \in Functions \ {f} : st'[g] = st[g]
BY Names DEF To, Types

LEMMA BlocksQuietly ==
  ASSUME Types, NEW f \in Methods, call = f, WouldBlock, UNCHANGED <<reqs, own, result>>
  PROVE  Steps(f)
<1>1. /\ c'.exch = c.exch /\ c'.kst = c.kst /\ c'.low = c.low /\ c'.ready = c.ready
      /\ c'.auth = c.auth /\ (c.failed => c'.failed)
  BY DEF WouldBlock, Types, Shaped, Fields
<1>2. UNCHANGED <<srv, toCli, sock, queue, toSrv, st>> /\ call' = None
  BY DEF WouldBlock
<1>3. Quietly(f)
  BY <1>1, <1>2 DEF Quietly, Acts, Plainly
<1> QED
  BY <1>3 DEF Steps

(* An end of f that is no verdict, or that no verdict can follow.           *)
Excuse(f, rc) ==
  rc \notin Verdicts \/ (rc # "ok" /\ (sock = "down" \/ Asking(f)))
Excused(f) == \E rc : Ended(f, rc, 0) /\ Excuse(f, rc)

LEMMA ExcusedPlainly ==
  ASSUME NEW f \in Methods, result' = result \/ Excused(f)
  PROVE  Plainly
<1>1. CASE result' = result
  BY <1>1 DEF Plainly
<1>2. ASSUME NEW rc, Ended(f, rc, 0), Excuse(f, rc)
      PROVE  Plainly
  <2>1. result'.rc = rc /\ result'.f = f /\ result'.own = own[f] /\ result'.answer = 0
    BY <1>2 DEF Ended
  <2> QED
    BY <1>2, <2>1 DEF Excuse, Plainly
<1> QED
  BY <1>1, <1>2 DEF Excused

LEMMA NoVerdict ==
  ASSUME NEW f, NEW rc, Ended(f, rc, 0), rc \notin Verdicts
  PROVE  Excused(f)
BY DEF Excused, Excuse

LEMMA Codeless ==
  "socket" \notin Verdicts /\ "keyfile" \notin Verdicts /\ "noalg" \notin Verdicts
  /\ "decode" \notin Verdicts /\ "expired" \notin Verdicts
BY DEF Verdicts, Refusals

(* The function goes to a state where it waits for nothing, or ends.        *)
LEMMA GoesQuietly ==
  ASSUME Types, NEW f \in Methods, call = f, call' \in {f, None}, NEW x,
         st' = st \/ To(f, x), UNCHANGED <<c, queue, Rest, reqs, own>>,
         result' = result \/ Excused(f), x # "sent1",
         To(f, x) => (Awaiting(f) => sock = "down"),
         To(f, x) => x = "idle" \/ x = "created" \/ (st[f] \notin {"idle", "created"} /\ ~Half(f))
           \/ (f = "pswd" /\ x = "sent2")
  PROVE  Steps(f)
<1>1. UNCHANGED <<srv, toCli, sock, toSrv, queue, reqs, own>> /\ c' = c
  BY DEF Rest
<1>2. \A g \in Functions \ {f} : st'[g] = st[g]
  BY Goes
<1>3. Plainly
  BY ExcusedPlainly
<1>4. \/ st'[f] = st[f]
      \/ (Awaiting(f) => sock = "down") /\ (Past(f)' => Past(f)) /\ st'[f] # "sent1"
  <2>1. CASE st' = st
    BY <2>1
  <2>2. CASE To(f, x)
    <3>1. st'[f] = x
      BY <2>2, Goes
    <3> QED
      BY <2>2, <3>1 DEF Past, Half
  <2> QED
    BY <2>1, <2>2
<1>5. Quietly(f)
  BY <1>1, <1>2, <1>3, <1>4 DEF Quietly, Acts
<1> QED
  BY <1>5 DEF Steps

LEMMA NotAccepted ==
  ASSUME NEW f
  PROVE  TransportError(f) # "ok"
BY DEF TransportError

LEMMA BreaksQuietly ==
  ASSUME Types, NEW f \in Methods, call = f, SocketFails(f)
  PROVE  Steps(f)
<1>1. /\ sock = "down" /\ call' = None /\ To(f, "idle") /\ Ended(f, TransportError(f), 0)
      /\ UNCHANGED <<c, queue, Rest, reqs, own>>
  BY DEF SocketFails
<1>2. Excused(f)
  BY <1>1, NotAccepted DEF Excused, Excuse
<1> QED
  BY <1>1, <1>2, GoesQuietly

LEMMA SendAsks ==
  ASSUME Types, NEW f \in Methods, call = f, NEW p, Send("REQUEST", p), NEW x, To(f, x),
         reqs' = reqs + 1, own' = [own EXCEPT ![f] = reqs + 1], UNCHANGED <<call, c, result>>,
         ~Awaiting(f), p.id = reqs + 1, x = "sent" \/ (f = "pblc" /\ x = "sent3"),
         p.kind \in {"none", "hostbased", "signed"} \/ (f \in {"pswd", "pblc", "kybd"} /\ x = "sent")
  PROVE  Steps(f)
<1>1. st'[f] = x /\ \A g \in Functions \ {f} : st'[g] = st[g]
  BY Goes
<1>2. /\ sock = "up" /\ toSrv' = Append(toSrv, [t |-> "REQUEST", p |-> p, seal |-> LocalSeal])
      /\ UNCHANGED <<srv, toCli, sock, queue>>
  BY DEF Send
<1>3. Acts(f)
  BY <1>1, <1>2 DEF Acts
<1>4. Asks(f, p)
  BY <1>1, <1>2, <1>3, Zenon DEF Asks
<1> QED
  BY <1>4 DEF Steps

LEMMA RequestSteps ==
  ASSUME Types, NEW f \in Methods, NEW a, NEW b, NEW p, SendRequest(f, a, b, p),
         p.id = reqs + 1, a = "created" \/ a = "sent2",
         b = "sent" \/ (f = "pblc" /\ b = "sent3"),
         p.kind \in {"none", "hostbased", "signed"} \/ (f \in {"pswd", "pblc", "kybd"} /\ b = "sent")
  PROVE  Steps(f)
<1>1. call = f /\ st[f] = a
  BY DEF SendRequest, Free, At
<1>2. ~Awaiting(f)
  BY <1>1 DEF Awaiting
<1>3. CASE /\ Send("REQUEST", p) /\ To(f, b)
           /\ reqs' = reqs + 1 /\ own' = [own EXCEPT ![f] = reqs + 1]
           /\ UNCHANGED <<call, c, pswd, pblc, kybd, result, nullread>>
  BY <1>1, <1>2, <1>3, SendAsks
<1>4. CASE WouldBlock /\ UNCHANGED authVars
  BY <1>1, <1>4, BlocksQuietly DEF authVars
<1>5. CASE SocketFails(f)
  BY <1>1, <1>5, BreaksQuietly
<1> QED
  BY <1>3, <1>4, <1>5 DEF SendRequest

(* What a reply that is taken leaves alone.                                 *)
LEMMA ReplyTakes ==
  ASSUME Types, NEW f \in Methods, NEW a, NEW t, Reply(f, a, t), NEW k, k = AskV(Awaits(f))
  PROVE  /\ call = f /\ st[f] = a /\ UNCHANGED <<srv, toCli, sock, toSrv, reqs, own>>
         /\ k \in 1..Len(queue) /\ queue' = RemoveAt(queue, k) /\ queue[k].t = t
         /\ Answer(f) = queue[k].p
<1>1. k \in 1..Len(queue)
  BY AskedFor DEF Reply, Types
<1> QED
  BY <1>1 DEF Reply, At, Rest, Answer

LEMMA EndSteps ==
  ASSUME Types, NEW f \in Methods, NEW a, Success(f, a) \/ Failure(f, a),
         a \in {"sent", "banner", "sent3"}
  PROVE  Steps(f)
<1> DEFINE k == AskV(Awaits(f))
<1>1. PICK t \in {"SUCCESS", "FAILURE"} :
        /\ Reply(f, a, t) /\ call' = None /\ To(f, "idle")
        /\ \/ t = "SUCCESS" /\ Ended(f, "ok", Answer(f)) /\ c' = [c EXCEPT !.auth = TRUE]
           \/ t = "FAILURE" /\ Ended(f, RefusalCode(f, a), Answer(f)) /\ c' = c
  BY Zenon DEF Success, Failure
<1>2. /\ call = f /\ st[f] = a /\ UNCHANGED <<srv, toCli, sock, toSrv, reqs, own>>
      /\ k \in 1..Len(queue) /\ queue' = RemoveAt(queue, k) /\ queue[k].t = t
      /\ Answer(f) = queue[k].p
  BY <1>1, ReplyTakes
<1> HIDE DEF k
<1>3. st'[f] = "idle" /\ \A g \in Functions \ {f} : st'[g] = st[g]
  BY <1>1, Goes
<1>4. /\ c'.exch = c.exch /\ c'.kst = c.kst /\ c'.low = c.low /\ c'.ready = c.ready
      /\ t = "FAILURE" => c'.auth = c.auth /\ (c.failed => c'.failed)
  BY <1>1 DEF Types, Shaped, Fields
<1>5. Acts(f) /\ Past(f) /\ t \in Answers
  BY <1>1, <1>2, <1>3, <1>4 DEF Acts, Past, Half, Answers
<1>6. /\ (IF t = "SUCCESS" THEN result'.rc = "ok" ELSE result'.rc \in Refusals)
      /\ result'.answer = queue[k].p /\ result'.own = own[f]
  <2>1. RefusalCode(f, a) \in Refusals
    BY DEF RefusalCode, Refusals
  <2> QED
    BY <1>1, <1>2, <2>1 DEF Ended
<1>7. Takes(f, k)
  BY <1>1, <1>2, <1>3, <1>4, <1>5, <1>6 DEF Takes
<1> QED
  BY <1>7 DEF Steps

LEMMA M60Steps ==
  ASSUME Types, NEW f \in Methods, Reply(f, "sent", "M60"), call' \in {f, None},
         st' = st \/ \E x : To(f, x), UNCHANGED c,
         result' = result \/ Excused(f)
  PROVE  Steps(f)
<1> DEFINE k == AskV(Awaits(f))
<1>1. /\ call = f /\ st[f] = "sent" /\ UNCHANGED <<srv, toCli, sock, toSrv, reqs, own>>
      /\ k \in 1..Len(queue) /\ queue' = RemoveAt(queue, k) /\ queue[k].t = "M60"
  BY ReplyTakes
<1> HIDE DEF k
<1>2. \A g \in Functions \ {f} : st'[g] = st[g]
  BY Goes
<1>3. Acts(f) /\ Past(f) /\ queue[k].t \in Answers
  BY <1>1, <1>2 DEF Acts, Past, Half, Answers
<1>4. Plainly
  BY ExcusedPlainly
<1>5. Takes(f, k)
  BY <1>1, <1>3, <1>4 DEF Takes
<1> QED
  BY <1>5 DEF Steps

-----------------------------------------------------------------------------
LEMMA ListSteps ==
  ASSUME Types, userauth_list
  PROVE  "list" \in Methods /\ Steps("list")
<1>m. call = "list" /\ "list" \in Methods
  BY Names DEF userauth_list, SendRequest, Success, Failure, Reply, Free, At, Types, None
<1>1. CASE /\ At("list", "idle") /\ To("list", "created")
           /\ UNCHANGED <<queue, call, c, Rest, authVars>>
  BY <1>m, <1>1, GoesQuietly DEF At, authVars, Awaiting
<1>2. CASE SendRequest("list", "created", "sent", [kind |-> "none", id |-> reqs + 1])
  BY <1>m, <1>2, RequestSteps
<1>3. CASE \/ Success("list", "sent") \/ Failure("list", "sent")
           \/ Success("list", "banner") \/ Failure("list", "banner")
  BY <1>m, <1>3, EndSteps
<1>4. CASE /\ Reply("list", "sent", "BANNER") /\ To("list", "banner")
           /\ UNCHANGED <<call, c, pswd, pblc, kybd, result, nullread>>
  <2>1. PICK k : k = AskV(Awaits("list"))
    OBVIOUS
  <2>2. /\ st["list"] = "sent" /\ UNCHANGED <<srv, toCli, sock, toSrv, reqs, own>>
        /\ k \in 1..Len(queue) /\ queue' = RemoveAt(queue, k)
    BY <1>m, <1>4, <2>1, ReplyTakes
  <2>3. st'["list"] = "banner" /\ \A g \in Functions \ {"list"} : st'[g] = st[g]
    BY <1>m, <1>4, Goes
  <2>4. Acts("list") /\ c'.auth = c.auth /\ (c.failed => c'.failed)
    BY <1>m, <1>4, <2>2, <2>3 DEF Acts
  <2>5. Skips("list", k)
    BY <1>4, <2>2, <2>3, <2>4 DEF Skips
  <2> QED
    BY <1>m, <2>5 DEF Steps
<1> QED
  BY <1>m, <1>1, <1>2, <1>3, <1>4, Zenon DEF userauth_list

LEMMA PasswordSteps ==
  ASSUME Types, userauth_password \/ passwd_change \/ passwd_send
  PROVE  "pswd" \in Methods /\ Steps("pswd")
<1>m. call = "pswd" /\ "pswd" \in Methods
  BY Names DEF userauth_password, passwd_change, passwd_send, SendRequest, Success, Failure,
     Reply, Free, At, Types, None
<1>1. CASE /\ At("pswd", "idle") /\ To("pswd", "created") /\ pswd' = "packet"
           /\ UNCHANGED <<queue, call, c, Rest, reqs, own, pblc, kybd, result, nullread>>
  BY <1>m, <1>1, GoesQuietly DEF At, Awaiting
<1>2. CASE SendRequest("pswd", "created", "sent",
                      [kind |-> "password", id |-> reqs + 1])
  BY <1>m, <1>2, RequestSteps
<1>3. CASE Success("pswd", "sent") \/ Failure("pswd", "sent")
  BY <1>m, <1>3, EndSteps
<1>4. CASE /\ Reply("pswd", "sent", "M60") /\ To("pswd", "sent1")
           /\ pswd' = "reply"
           /\ UNCHANGED <<call, c, pblc, kybd, result, nullread>>
  BY <1>m, <1>4, M60Steps
<1>5. CASE passwd_change
  <2>1. st["pswd"] = "sent1" /\ ~Awaiting("pswd")
    BY <1>5 DEF passwd_change, At, Awaiting
  <2>2. PICK x \in {"sent2", "idle"} :
          /\ call' \in {"pswd", None} /\ (st' = st \/ To("pswd", x))
          /\ UNCHANGED <<c, queue, Rest, reqs, own>>
          /\ result' = result \/ Ended("pswd", "expired", 0) \/ Ended("pswd", "failed", 0)
    BY <1>m, <1>5, Zenon DEF passwd_change
  <2>3. Excuse("pswd", "expired") /\ Excuse("pswd", "failed")
    BY <2>1, Codeless DEF Excuse, Asking
  <2>4. result' = result \/ Excused("pswd")
    BY <2>2, <2>3 DEF Excused
  <2> QED
    BY <1>m, <2>1, <2>2, <2>4, GoesQuietly
<1>6. CASE passwd_send
  <2>1. st["pswd"] = "sent2" /\ ~Awaiting("pswd")
    BY <1>6 DEF passwd_send, Free, At, Awaiting
  <2>2. CASE /\ Send("REQUEST", [kind |-> "newpassword", id |-> reqs + 1])
             /\ To("pswd", "sent")
             /\ reqs' = reqs + 1 /\ own' = [own EXCEPT !["pswd"] = reqs + 1]
             /\ UNCHANGED <<call, c, result>>
    <3>1. PICK p : p.id = reqs + 1 /\ Send("REQUEST", p)
      BY <2>2
    <3> QED
      BY <1>m, <2>1, <2>2, <3>1, SendAsks
  <2>3. CASE WouldBlock /\ UNCHANGED <<reqs, own, pswd, result>>
    BY <1>m, <2>3, BlocksQuietly
  <2>4. CASE /\ sock = "down" /\ call' = None /\ Ended("pswd", "socket", 0)
             /\ UNCHANGED <<c, queue, Rest, st, reqs, own>>
    <3>1. Excused("pswd")
      BY <2>4, NoVerdict, Codeless
    <3>2. "idle" # "sent1"
      OBVIOUS
    <3> QED
      BY <1>m, <2>1, <2>4, <3>1, <3>2, GoesQuietly
  <2> QED
    BY <1>6, <2>2, <2>3, <2>4, Zenon DEF passwd_send
<1> QED
  BY <1>m, <1>1, <1>2, <1>3, <1>4, <1>5, <1>6, Zenon DEF userauth_password

LEMMA HostSteps ==
  ASSUME Types, userauth_hostbased
  PROVE  "host" \in Methods /\ Steps("host")
<1>m. call = "host" /\ "host" \in Methods
  BY Names DEF userauth_hostbased, SendRequest, Success, Failure, Reply, Free, At, Types, None
<1>1. CASE /\ At("host", "idle")
           /\ \/ To("host", "created") /\ UNCHANGED <<call, result>>
              \/ call' = None /\ Ended("host", "keyfile", 0) /\ UNCHANGED st
           /\ UNCHANGED <<queue, c, Rest, reqs, own, pswd, pblc, kybd, nullread>>
  <2>1. result' = result \/ Excused("host")
    BY <1>1, NoVerdict, Codeless
  <2>2. ~Awaiting("host")
    BY <1>1 DEF At, Awaiting
  <2> QED
    BY <1>m, <1>1, <2>1, <2>2, GoesQuietly
<1>2. CASE SendRequest("host", "created", "sent",
                      [kind |-> "hostbased", id |-> reqs + 1, sid |-> c.sid])
  BY <1>m, <1>2, RequestSteps
<1>3. CASE Success("host", "sent") \/ Failure("host", "sent")
  BY <1>m, <1>3, EndSteps
<1> QED
  BY <1>m, <1>1, <1>2, <1>3, Zenon DEF userauth_hostbased

LEMMA PublickeySteps ==
  ASSUME Types, userauth_publickey \/ pblc_sign
  PROVE  "pblc" \in Methods /\ Steps("pblc")
<1>m. call = "pblc" /\ "pblc" \in Methods
  <2>1. call = "pblc"
    BY Zenon DEF userauth_publickey, pblc_sign, pblc_start, SendRequest, Success, Failure,
       Reply, Free, At
  <2> QED
    BY <2>1, Names DEF Types, None
<1>e. \A rc \in {"keyfile", "noalg"} : Ended("pblc", rc, 0) => Excused("pblc")
  BY NoVerdict, Codeless
<1>1. ASSUME NEW key, NEW alg, NEW attempt, pblc_start(key, alg, attempt)
      PROVE  Steps("pblc")
  <2>1. /\ st["pblc"] = "idle" /\ call' \in {"pblc", None}
        /\ (st' = st \/ To("pblc", "created"))
        /\ UNCHANGED <<queue, c, Rest, reqs, own>>
        /\ \/ result' = result
           \/ \E rc \in {"keyfile", "noalg"} : Ended("pblc", rc, 0)
    BY <1>m, <1>1, Zenon DEF pblc_start, At
  <2>2. ~Awaiting("pblc")
    BY <2>1 DEF Awaiting
  <2>3. result' = result \/ Excused("pblc")
    BY <1>e, <2>1, Zenon
  <2> QED
    BY <1>m, <2>1, <2>2, <2>3, GoesQuietly
<1>2. CASE \E key \in offer.keys : \E alg \in Source(key).reads : pblc_start(key, alg, 1)
  BY <1>m, <1>1, <1>2, Zenon
<1>3. CASE pblc_start(pblc.key, DefaultAlg(pblc.key.kind), pblc.attempt)
  BY <1>m, <1>1, <1>3, Zenon
<1>4. CASE SendRequest("pblc", "created", "sent",
                   [kind |-> "probe", id |-> reqs + 1, alg |-> pblc.body,
                    key |-> pblc.key.kind])
  BY <1>m, <1>4, RequestSteps
<1>5. CASE SendRequest("pblc", "sent2", "sent3",
                   [kind |-> "signed", id |-> reqs + 1, alg |-> pblc.body, sid |-> c.sid,
                    signed |-> pblc.signed, key |-> pblc.key.kind])
  BY <1>m, <1>5, RequestSteps
<1>6. CASE \/ Success("pblc", "sent") \/ Failure("pblc", "sent")
           \/ Success("pblc", "sent3") \/ Failure("pblc", "sent3")
  BY <1>m, <1>6, EndSteps
<1>7. CASE /\ Reply("pblc", "sent", "M60") /\ To("pblc", "sent1")
           /\ UNCHANGED <<call, c, pswd, pblc, kybd, result, nullread>>
  BY <1>m, <1>7, M60Steps
<1>8. CASE pblc_sign
  <2>1. st["pblc"] = "sent1"
    BY <1>8 DEF pblc_sign, At
  <2>2. ~Awaiting("pblc") /\ ~Half("pblc")
    BY <2>1 DEF Awaiting, Half
  <2>3. PICK x \in {"sent2", "idle"} :
          /\ call' \in {"pblc", None} /\ (st' = st \/ To("pblc", x))
          /\ UNCHANGED <<c, queue, Rest, reqs, own>>
          /\ result' = result \/ Ended("pblc", "unverified", 0)
    BY <1>m, <1>8, Zenon DEF pblc_sign
  <2>4. result' = result \/ Excused("pblc")
    <3>1. Excuse("pblc", "unverified")
      BY <2>1 DEF Excuse, Asking
    <3> QED
      BY <2>3, <3>1 DEF Excused
  <2> QED
    BY <1>m, <2>1, <2>2, <2>3, <2>4, GoesQuietly
<1> QED
  BY <1>m, <1>2, <1>3, <1>4, <1>5, <1>6, <1>7, <1>8, Zenon DEF userauth_publickey

LEMMA KybdSteps ==
  ASSUME Types, userauth_kybd \/ kybd_send
  PROVE  "kybd" \in Methods /\ Steps("kybd")
<1>m. call = "kybd" /\ "kybd" \in Methods
  BY Names DEF userauth_kybd, kybd_send, SendRequest, Success, Failure, Reply, Free, At, Types,
     None
<1>1. CASE /\ At("kybd", "idle") /\ To("kybd", "created")
           /\ kybd' = TRUE
           /\ UNCHANGED <<queue, call, c, Rest, reqs, own, pswd, pblc, result,
                          nullread>>
  BY <1>m, <1>1, GoesQuietly DEF At, Awaiting
<1>2. CASE SendRequest("kybd", "created", "sent",
                      [kind |-> "kybd", id |-> reqs + 1])
  BY <1>m, <1>2, RequestSteps
<1>3. CASE Success("kybd", "sent") \/ Failure("kybd", "sent")
  BY <1>m, <1>3, EndSteps
<1>4. CASE /\ Reply("kybd", "sent", "M60")
           /\ \/ To("kybd", "sent1") /\ UNCHANGED <<call, result>>
              \/ /\ kybd \/ "badinfo" \in Troubles
                 /\ IF kybd THEN /\ To("kybd", "idle") /\ call' = None
                                 /\ Ended("kybd", "decode", 0)
                    ELSE UNCHANGED <<st, call, result>>
           /\ UNCHANGED <<c, pswd, pblc, kybd, nullread>>
  <2>1. /\ call' \in {"kybd", None} /\ (st' = st \/ \E x : To("kybd", x))
        /\ result' = result \/ Ended("kybd", "decode", 0)
    BY <1>m, <1>4, Zenon
  <2>2. result' = result \/ Excused("kybd")
    BY <2>1, NoVerdict, Codeless
  <2> QED
    BY <1>m, <1>4, <2>1, <2>2, M60Steps
<1>5. CASE kybd_send
  <2>1. st["kybd"] = "sent1"
    BY <1>5 DEF kybd_send, Free, At
  <2>2. ~Awaiting("kybd") /\ ~Half("kybd")
    BY <2>1 DEF Awaiting, Half
  <2>3. CASE /\ Send("REQUEST", [kind |-> "answers", id |-> reqs + 1])
             /\ To("kybd", "sent")
             /\ reqs' = reqs + 1 /\ own' = [own EXCEPT !["kybd"] = reqs + 1]
             /\ UNCHANGED <<call, c, pswd, pblc, result, nullread>>
    <3>1. PICK p : p.id = reqs + 1 /\ Send("REQUEST", p)
      BY <2>3
    <3> QED
      BY <1>m, <2>2, <2>3, <3>1, SendAsks
  <2>4. CASE WouldBlock /\ UNCHANGED authVars
    BY <1>m, <2>4, BlocksQuietly DEF authVars
  <2>5. CASE /\ \/ call' = None /\ To("kybd", "idle") /\ Ended("kybd", "socket", 0)
                \/ To("kybd", "sent") /\ UNCHANGED <<call, result>>
             /\ UNCHANGED <<c, queue, Rest, reqs, own>>
    <3>1. result' = result \/ Excused("kybd")
      BY <2>5, NoVerdict, Codeless
    <3> QED
      BY <1>m, <2>1, <2>2, <2>5, <3>1, GoesQuietly
  <2> QED
    BY <1>5, <2>3, <2>4, <2>5, Zenon DEF kybd_send
<1> QED
  BY <1>m, <1>1, <1>2, <1>3, <1>4, <1>5, Zenon DEF userauth_kybd

-----------------------------------------------------------------------------
(* The rest of the client: no login is sent and none is answered            *)

LEMMA FrameKeeps ==
  ASSUME Types, VerdictInv, Turns', srv' = srv, sock' = sock, UNCHANGED <<reqs, own>>,
         Moves(queue, toCli, queue', toCli'), Posts(Owing), Plainly,
         c'.auth = c.auth /\ (c.failed => c'.failed), c.ready => c'.ready,
         c.ready /\ Stuck => ~c'.exch /\ Posts({"NEWKEYS"}),
         call' \in Methods => call' = call, \A g \in Methods : st'[g] = st[g]
  PROVE  VerdictInv'
<1>t. Alone /\ Owed /\ Truth
  BY DEF VerdictInv
<1>1. Alone'
  BY <1>t DEF Alone, Rests, Past, Half
<1>2. \A m : \A f \in Methods : Owner(m, f) => Owner(m, f)'
  BY DEF Owner, Awaiting
<1>3. Owed'
  BY <1>t, <1>2, OwedKept
<1>4. NoneAsked
  BY DEF NoneAsked, Asking
<1>5. Truth'
  BY <1>t, <1>4, TruthKept
<1> QED
  BY <1>1, <1>3, <1>5 DEF VerdictInv

(* Nor does the exchange change.                                            *)
LEMMA IdleKeeps ==
  ASSUME Types, VerdictInv, srv' = srv, sock' = sock, UNCHANGED <<reqs, own>>,
         Moves(queue, toCli, queue', toCli'), Posts(Owing \cup {"NEWKEYS"}), Plainly,
         c'.auth = c.auth /\ (c.failed => c'.failed), c'.ready = c.ready, c'.exch => c.exch, c'.kst = c.kst, c'.low = c.low,
         call' \in Methods => call' = call, \A g \in Methods : st'[g] = st[g],
         \/ st'["handshake"] = st["handshake"]
         \/ ~c.ready /\ st["handshake"] \in {"idle", "created", "sent"}
         \/ st'["handshake"] \notin {"idle", "created", "sent"}
  PROVE  VerdictInv'
<1>1. Posts(Owing) /\ Posts({"NEWKEYS"})
  BY DEF Posts
<1>2. (Chose' => Chose) /\ (Before' => Before)
  BY DEF Chose, Before
<1>3. Turns'
  BY <1>1, <1>2, TurnsKept DEF VerdictInv
<1>4. Stuck => ~c'.exch
  BY DEF Stuck
<1> QED
  BY <1>1, <1>3, <1>4, FrameKeeps

LEMMA BlockedVerdict ==
  ASSUME Types, VerdictInv, WouldBlock, UNCHANGED <<reqs, own, result>>
  PROVE  VerdictInv'
<1>1. /\ c'.exch = c.exch /\ c'.kst = c.kst /\ c'.low = c.low /\ c'.ready = c.ready
      /\ c'.auth = c.auth /\ (c.failed => c'.failed)
  BY DEF WouldBlock, Types, Shaped, Fields
<1>2. UNCHANGED <<srv, toCli, sock, queue, toSrv, st>> /\ call' = None
  BY DEF WouldBlock
<1>3. Moves(queue, toCli, queue', toCli') /\ Posts(Owing \cup {"NEWKEYS"}) /\ Plainly
  BY <1>2 DEF Moves, Posts, Plainly
<1> QED
  BY <1>1, <1>2, <1>3, Names, IdleKeeps

(* A packet that is sent.                                                   *)
LEMMA SendPosts ==
  ASSUME NEW t, NEW p, Send(t, p), NEW T, t \notin T
  PROVE  Posts(T) /\ UNCHANGED <<srv, sock, toCli, queue>> /\ Moves(queue, toCli, queue', toCli')
<1>1. PICK m : m.t = t /\ toSrv' = Append(toSrv, m)
  BY DEF Send
<1>2. Posts(T)
  BY <1>1 DEF Posts
<1> QED
  BY <1>2 DEF Send, Moves

(* packet_add() starts an exchange only when every answer has been taken.   *)
LEMMA ReadsKeep ==
  ASSUME KexInv, VerdictInv, Receive, UNCHANGED <<reqs, own, result>>,
         c.exch \/ ~Has(queue, Answers)
  PROVE  VerdictInv'
<1>t. Types /\ Turns
  BY DEF KexInv, VerdictInv
<1>l. IsList(queue) /\ IsList(toCli) /\ IsList(toSrv)
  BY <1>t DEF Types
<1>0. /\ UNCHANGED <<srv, sock, toSrv, call, st>> /\ toCli # <<>> /\ toCli' = Tail(toCli)
  BY DEF Receive
<1>1. Moves(queue, toCli, queue', toCli') /\ Posts(Owing \cup {"NEWKEYS"}) /\ Plainly
  BY <1>0 DEF Receive, Moves, Posts, Plainly
<1>2. CASE /\ c'.exch = c.exch /\ c'.kst = c.kst /\ c'.low = c.low /\ c'.ready = c.ready
           /\ c'.auth = c.auth /\ (c.failed => c'.failed)
  BY <1>t, <1>0, <1>1, <1>2, IdleKeeps
<1>3. CASE /\ ~c.exch /\ c' = [KexBegin(c, TRUE) EXCEPT !.inAdd = TRUE]
           /\ Head(toCli).t = "KEXINIT" /\ queue' = Append(queue, Head(toCli))
  <2> DEFINE m == Head(toCli)
             k == [c EXCEPT !.kex = None, !.hostkey = None]
  <2>1. /\ c'.exch /\ c'.kst = "sent" /\ c'.low = "idle" /\ c'.ready = c.ready
        /\ c'.auth = c.auth /\ (c.failed => c'.failed)
    <3>1. /\ Shaped(k) /\ k.kex = None /\ k.ready = c.ready /\ k.auth = c.auth
          /\ k.failed = c.failed
      BY <1>t DEF Types, Shaped, Fields
    <3>2. c' = [[k EXCEPT !.exch = TRUE,
                  !.kst = IF k.kex = None \/ k.hostkey = None THEN "sent" ELSE "sent2",
                  !.low = IF k.kex = None \/ k.hostkey = None THEN "idle" ELSE "init"]
                EXCEPT !.inAdd = TRUE]
      BY <1>3 DEF KexBegin
    <3> HIDE DEF k
    <3> QED
      BY <3>1, <3>2 DEF Shaped, Fields
  <2>2. Has(toCli, {"KEXINIT"})
    BY <1>0, <1>3, <1>l, AtTail
  <2>3. Shut
    BY <1>t, <2>2 DEF Turns, NoKexinit
  <2>4. ~Has(toCli', Answers)
    <3>1. /\ Len(toCli) \in Nat \ {0} /\ m = toCli[1] /\ Len(toCli') = Len(toCli) - 1
          /\ \A i \in 1..Len(toCli') : toCli'[i] = toCli[i + 1]
      BY <1>0, <1>l, ListLen
    <3>2. 1 \in 1..Len(toCli) /\ \A i \in 1..Len(toCli') : i + 1 \in 1..Len(toCli) /\ 1 < i + 1
      BY <3>1
    <3>3. Ordered(toCli)
      BY <1>t DEF Turns
    <3> QED
      BY <1>3, <3>1, <3>2, <3>3 DEF Ordered, Has
  <2>5. ~Has(queue', Answers)
    <3>1. m.t \notin Answers
      BY <1>3 DEF Answers
    <3> HIDE DEF m
    <3>2. queue' = Append(queue, m)
      BY <1>3 DEF m
    <3> QED
      BY <1>3, <1>l, <3>1, <3>2, AtAppend
  <2>6. NotYet'
    BY <1>0, <2>3, <2>4, <2>5 DEF NotYet, NoAnswer, Shut
  <2>7. Posts(Owing) /\ Posts({"NEWKEYS"})
    BY <1>1 DEF Posts
  <2>8. Turns'
    BY <1>t, <1>0, <1>1, <2>1, <2>6, <2>7, TurnsKept DEF Chose
  <2>9. ~Stuck
    BY <2>2 DEF Stuck
  <2> QED
    BY <1>t, <1>0, <1>1, <2>1, <2>7, <2>8, <2>9, FrameKeeps
<1>4. \/ /\ c'.exch = c.exch /\ c'.kst = c.kst /\ c'.low = c.low /\ c'.ready = c.ready
         /\ c'.auth = c.auth /\ (c.failed => c'.failed)
      \/ /\ ~c.exch /\ c' = [KexBegin(c, TRUE) EXCEPT !.inAdd = TRUE]
         /\ Head(toCli).t = "KEXINIT" /\ queue' = Append(queue, Head(toCli))
  <2>1. \/ c' = c
        \/ \E a : c' = [c EXCEPT !.signAlgs = a]
        \/ /\ ~c.exch /\ c' = [KexBegin(c, TRUE) EXCEPT !.inAdd = TRUE]
           /\ Head(toCli).t = "KEXINIT" /\ queue' = Append(queue, Head(toCli))
    BY Zenon DEF Receive
  <2>2. ASSUME NEW a, c' = [c EXCEPT !.signAlgs = a]
        PROVE  /\ c'.exch = c.exch /\ c'.kst = c.kst /\ c'.low = c.low /\ c'.ready = c.ready
               /\ c'.auth = c.auth /\ (c.failed => c'.failed)
    BY <1>t, <2>2 DEF Types, Shaped, Fields
  <2> QED
    BY <2>1, <2>2
<1> QED
  BY <1>2, <1>3, <1>4

(* packet_askv() finds a packet of the codes that it is given.              *)
LEMMA AskFinds ==
  ASSUME IsList(queue), NEW t, Has(queue, {t})
  PROVE  Ask(t) # 0
<1> DEFINE I == {i \in 1..Len(queue) : queue[i].t = t}
           i == IF I # {} THEN Min(I) ELSE 0
<1>1. Ask(t) = i
  BY Zenon DEF Ask, SelectInSeq
<1>2. I \subseteq 1..Len(queue) /\ I # {}
  BY DEF Has
<1> HIDE DEF I
<1> QED
  BY <1>1, <1>2, FirstOf

LEMMA AskVFinds ==
  ASSUME IsList(queue), NEW codes, IsList(codes), NEW j \in 1..Len(codes),
         Has(queue, {codes[j]})
  PROVE  AskV(codes) # 0
<1> DEFINE I == {i \in 1..Len(codes) : Ask(codes[i]) # 0}
           h == IF I # {} THEN Min(I) ELSE 0
<1>1. AskV(codes) = IF h = 0 THEN 0 ELSE Ask(codes[h])
  BY Zenon DEF AskV, SelectInSeq
<1>2. I \subseteq 1..Len(codes) /\ I # {}
  <2>1. j \in I
    BY AskFinds
  <2> QED
    BY <2>1
<1>3. h # 0 /\ h \in I
  <2> HIDE DEF I
  <2> QED
    BY <1>2, FirstOf
<1> HIDE DEF h
<1>4. Ask(codes[h]) # 0
  BY <1>3
<1> QED
  BY <1>1, <1>3, <1>4

(* When a function finds no answer to its request, there is none at all.    *)
LEMMA NoneUnread ==
  ASSUME Types, VerdictInv, NEW f \in Methods, call = f, sock = "up", AskV(Awaits(f)) = 0
  PROVE  ~Has(queue, Answers)
<1> SUFFICES ASSUME NEW i \in 1..Len(queue), queue[i].t \in Answers PROVE FALSE
  BY DEF Has
<1>t. Alone /\ Owed /\ IsList(queue)
  BY DEF VerdictInv, Types
<1> DEFINE m == queue[i]
<1>1. ~Stuck /\ m.t \in Owing
  BY DEF Stuck, NoAnswer, Has, Owing
<1>2. OwedTo(m)
  BY <1>t, <1>1 DEF Owed, OwedBy
<1>3. PICK g \in Methods : Owner(m, g)
  BY <1>2 DEF OwedTo
<1>4. g = f
  BY <1>t, <1>3, OnlyOwner
<1>5. Owner(m, f) /\ Awaiting(f)
  BY <1>3, <1>4 DEF Owner
<1> HIDE DEF m
<1>6. \E j \in 1..Len(Awaits(f)) : IsList(Awaits(f)) /\ Awaits(f)[j] = m.t
  <2>0. m.t \in {"SUCCESS", "FAILURE", "M60"} /\ f \in {"list", "pswd", "host", "pblc", "kybd"}
    BY LoginAssumption DEF Answers, m
  <2>a. m.t = "M60" => f \in {"pswd", "pblc", "kybd"} /\ st[f] = "sent"
    BY <1>5 DEF Owner, MayAsk
  <2>l. \A x, y, z : /\ IsList(<<x, y, z>>) /\ Len(<<x, y, z>>) = 3 /\ <<x, y, z>>[1] = x
                     /\ <<x, y, z>>[2] = y /\ <<x, y, z>>[3] = z
    <3>1. \A x, y, z : <<x, y, z>> \in Seq({x, y, z}) /\ Len(<<x, y, z>>) = 3
      OBVIOUS
    <3> QED
      BY <3>1 DEF IsList
  <2>1. CASE st[f] = "sent" /\ f \in {"pswd", "pblc", "kybd"}
    <3>1. Awaits(f) = <<"SUCCESS", "FAILURE", "M60">>
      BY <2>1 DEF Awaits, Codes
    <3> QED
      BY <2>0, <2>l, <3>1
  <2>2. CASE st[f] = "sent" /\ f = "list"
    <3>1. Awaits(f) = <<"SUCCESS", "FAILURE", "BANNER">>
      BY <2>2 DEF Awaits, Codes
    <3> QED
      BY <2>0, <2>a, <2>2, <2>l, <3>1
  <2>3. CASE (st[f] = "sent" /\ f = "host") \/ st[f] # "sent"
    <3>1. Awaits(f) = <<"SUCCESS", "FAILURE">>
      BY <1>5, <2>3 DEF Awaits, Codes, Final, Awaiting
    <3> QED
      BY <2>0, <2>a, <2>3, <3>1, ShortLists
  <2> QED
    BY <2>0, <2>1, <2>2, <2>3
<1>7. PICK j \in 1..Len(Awaits(f)) : IsList(Awaits(f)) /\ Awaits(f)[j] = m.t
  BY <1>6
<1>8. Has(queue, {Awaits(f)[j]})
  BY <1>7 DEF Has, m
<1> QED
  BY <1>t, <1>7, <1>8, AskVFinds

LEMMA ReadReplyVerdict ==
  ASSUME KexInv, VerdictInv, NEW f \in Methods, ReadReply(f)
  PROVE  VerdictInv'
<1>t. Types
  BY DEF KexInv
<1>0. call = f /\ AskV(Awaits(f)) = 0
  BY DEF ReadReply
<1>1. CASE Receive /\ UNCHANGED authVars
  <2>1. sock = "up"
    BY <1>1 DEF Receive
  <2>2. ~Has(queue, Answers)
    BY <1>t, <1>0, <2>1, NoneUnread
  <2> QED
    BY <1>1, <2>2, ReadsKeep DEF authVars
<1>2. CASE NothingYet /\ UNCHANGED authVars
  BY <1>t, <1>2, BlockedVerdict DEF NothingYet, authVars
<1>3. CASE SocketFails(f)
  BY <1>t, <1>0, <1>3, BreaksQuietly, StepsKeep
<1> QED
  BY <1>1, <1>2, <1>3 DEF ReadReply

LEMMA AuthenticateVerdict ==
  ASSUME KexInv, VerdictInv, Authenticate
  PROVE  VerdictInv'
<1>t. Types
  BY DEF KexInv
<1>1. CASE \E f \in Methods : ReadReply(f)
  BY <1>1, ReadReplyVerdict
<1>2. CASE ~\E f \in Methods : ReadReply(f)
  <2>1. \E f \in Methods : Steps(f)
    BY <1>t, <1>2, ListSteps, PasswordSteps, HostSteps, PublickeySteps, KybdSteps, Zenon
       DEF Authenticate
  <2> QED
    BY <2>1, StepsKeep
<1> QED
  BY <1>1, <1>2

-----------------------------------------------------------------------------
(* The exchange                                                             *)

(* A call that ends with an exchange has no answer.                         *)
Void == result' = result \/ (result'.rc # "ok" /\ result'.answer = 0)

LEMMA FailVerdict ==
  ASSUME KexInv, VerdictInv, KexRunning, NEW s, SameBut(c, s), KexFail(s),
         UNCHANGED <<srv, sock, toSrv, reqs, own>>, Void,
         Moves(queue, toCli, queue', toCli'),
         sock = "down" \/ (Shut /\ ~Has(toCli', {"KEXINIT"}) /\ NoAnswer)
  PROVE  VerdictInv'
<1>t. Types /\ Turns /\ Alone /\ Owed /\ Truth
  BY DEF KexInv, VerdictInv
<1>0. /\ c.exch /\ call # None /\ call \in Methods \cup {"handshake"} /\ call \in Functions
      /\ st["handshake"] \in {"idle", "sent1", "sent2", "sent4"}
      /\ st["handshake"] = "idle" => c.ready
  BY Running
<1>1. Over(s, c')
  BY KexEnds DEF KexFail, SameBut
<1>2. ~c'.exch /\ c'.ready = c.ready /\ c'.auth = c.auth /\ c'.failed
  <2>1. c'.auth = s.auth /\ c'.failed
    BY DEF KexFail, KexEnd, SameBut, Shaped, Fields
  <2> QED
    BY <1>1, <2>1 DEF Over, SameBut
<1>3. /\ call' \in {call, None} /\ st'["handshake"] = st["handshake"]
      /\ \A g \in Methods :
           \/ st'[g] = st[g]
           \/ g = call /\ st'[g] = "idle"
           \/ g = call /\ g = "kybd" /\ st[g] = "sent1" /\ st'[g] = "sent"
  <2>1. CASE c.inAdd
    BY <2>1 DEF KexFail
  <2>2. CASE ~c.inAdd
    <3>1. /\ call' = (IF Resumes THEN call ELSE None)
          /\ st' = [st EXCEPT ![call] = AfterError]
      BY <2>2 DEF KexFail
    <3>2. /\ call \in DOMAIN st /\ "handshake" \in DOMAIN st
          /\ \A g \in Methods : g \in DOMAIN st /\ g # "handshake"
      BY <1>t, <1>0, Names DEF Types
    <3>3. /\ \/ AfterError = st[call]
             \/ AfterError = "idle"
             \/ call = "kybd" /\ st[call] = "sent1" /\ AfterError = "sent"
          /\ call = "handshake" => AfterError = st[call]
      BY DEF AfterError, Resumes
    <3>4. call' \in {call, None}
      BY <3>1
    <3> QED
      BY <3>1, <3>2, <3>3, <3>4
  <2> QED
    BY <2>1, <2>2
<1>4. \A T : Posts(T)
  BY DEF Posts
<1>5. Turns'
  <2>1. ~Chose' /\ ~Before'
    BY <1>0, <1>2, <1>3 DEF Chose, Before
  <2> QED
    BY <1>t, <1>4, <2>1, TurnsKept
<1>6. Alone'
  <2>1. call \in Methods => \A g \in Methods \ {call} : Rests(g)
    BY <1>t DEF Alone
  <2>2. \A g \in Methods : (Past(g)' => Past(g)) /\ (Rests(g) => Rests(g)')
    BY <1>3 DEF Past, Rests, Half
  <2>3. \A f, g \in Methods : f # g /\ (call' = f \/ ~Rests(f)') => Rests(g)
    BY <1>t, <1>3, <2>2, Names DEF Alone
  <2> QED
    BY <1>t, <2>2, <2>3 DEF Alone
<1>7. Owed'
  <2>1. CASE sock = "down"
    BY <1>t, <1>2, <1>4, <2>1, OwedKept
  <2>2. CASE Shut /\ ~Has(toCli', {"KEXINIT"}) /\ NoAnswer
    <3>1. /\ \A T : Has(toCli', T) => Has(toCli, T)
          /\ \A T : Has(queue', T) => Has(queue, T) \/ Has(toCli, T)
      BY <1>t, MovesHas DEF Types
    <3>2. Stuck'
      BY <1>2, <2>2, <3>1 DEF Stuck, Shut, NoAnswer
    <3>3. NoneOwed => NoneOwed'
      BY <3>1 DEF NoneOwed
    <3> QED
      BY <1>t, <1>2, <3>2, <3>3 DEF Owed
  <2> QED
    BY <2>1, <2>2
<1>8. Truth'
  <2>1. Plainly
    BY <1>2 DEF Plainly, Void
  <2>2. NoneAsked
    BY <1>3 DEF NoneAsked, Asking
  <2> QED
    BY <1>t, <1>2, <2>1, <2>2, TruthKept
<1> QED
  BY <1>5, <1>6, <1>7, <1>8 DEF VerdictInv

LEMMA DownVerdict ==
  ASSUME KexInv, VerdictInv, KexRunning, sock = "down", KexFail(c), UNCHANGED <<reqs, own>>, Void,
         UNCHANGED <<offer, sock, toSrv, toCli, queue, srv, garbled>>
  PROVE  VerdictInv'
<1>1. SameBut(c, c) /\ Moves(queue, toCli, queue', toCli')
  BY DEF SameBut, Moves, KexInv, Types
<1> QED
  BY <1>1, FailVerdict

(* What KeyExchange says of the result.                                     *)
Ending == UNCHANGED <<reqs, own>> /\ Void /\ (c'.exch \/ call' # None => result' = result)

LEMMA BlockedExchange ==
  ASSUME KexInv, VerdictInv, KexRunning, WouldBlock, Ending
  PROVE  VerdictInv'
<1>1. Types /\ c.exch
  BY Running DEF KexInv
<1>2. c'.exch
  BY <1>1 DEF WouldBlock, Types, Shaped, Fields
<1> QED
  BY <1>1, <1>2, BlockedVerdict DEF Ending

LEMMA KexinitVerdict ==
  ASSUME KexInv, VerdictInv, kexinit, Ending
  PROVE  VerdictInv'
<1>t. Types /\ Turns /\ Exchange
  BY DEF KexInv, VerdictInv
<1>r. KexRunning /\ c.kst = "sent" /\ UNCHANGED <<reqs, own>> /\ Void
  BY DEF kexinit, Ending
<1>0. c.exch
  BY <1>r, Running
<1>1. ASSUME Send("KEXINIT", c.nkex + 1), UNCHANGED <<call, st>>,
             c' = [c EXCEPT !.kst = "sent1", !.nkex = @ + 1, !.lkex = c.nkex + 1]
      PROVE  VerdictInv'
  <2>1. /\ c'.exch = c.exch /\ c'.kst = "sent1" /\ c'.low = c.low
        /\ c'.ready = c.ready /\ c'.auth = c.auth /\ (c.failed => c'.failed)
    BY <1>t, <1>1 DEF Types, Shaped, Fields
  <2>2. "KEXINIT" \notin Owing /\ "KEXINIT" \notin {"NEWKEYS"}
    BY DEF Owing, Answers
  <2>3. /\ Posts(Owing) /\ Posts({"NEWKEYS"}) /\ UNCHANGED <<srv, sock, toCli, queue>>
        /\ Moves(queue, toCli, queue', toCli')
    BY <1>1, <2>2, SendPosts
  <2>4. c.low = "idle"
    BY <1>t, <1>r DEF Exchange
  <2>5. ~Chose' /\ Before /\ ~Stuck
    BY <1>0, <2>1, <2>4 DEF Chose, Before, Stuck
  <2>6. Turns'
    BY <1>t, <2>3, <2>5, TurnsKept
  <2>7. Plainly
    BY <1>0, <2>1 DEF Ending, Plainly
  <2> QED
    BY <1>t, <1>r, <1>1, <2>1, <2>3, <2>5, <2>6, <2>7, FrameKeeps
<1>2. ASSUME WouldBlock
      PROVE  VerdictInv'
  BY <1>r, <1>2, BlockedExchange
<1>3. ASSUME sock = "down", KexFail(c), UNCHANGED <<offer, sock, toSrv, toCli, queue, srv, garbled>>
      PROVE  VerdictInv'
  BY <1>r, <1>3, DownVerdict
<1> QED
  BY <1>1, <1>2, <1>3 DEF kexinit

LEMMA KexSendVerdict ==
  ASSUME KexInv, VerdictInv, KexSend, Ending
  PROVE  VerdictInv'
<1>t. Types /\ Turns /\ Exchange
  BY DEF KexInv, VerdictInv
<1>r. /\ KexRunning /\ c.kst = "sent2" /\ c.low \in {"request", "init", "sendnew"}
      /\ UNCHANGED <<reqs, own>> /\ Void
  BY DEF KexSend, LowNext, Ending
<1>0. /\ c.exch /\ st["handshake"] \in {"idle", "sent1", "sent2", "sent4"}
      /\ st["handshake"] = "idle" => c.ready
  BY <1>r, Running
<1>1. ASSUME Send(LowSends[c.low], 0), c' = [c EXCEPT !.low = LowNext[c.low]],
             UNCHANGED <<call, st>>
      PROVE  VerdictInv'
  <2>1. M.init \in {"INIT", "GEX_INIT"}
    <3>1. c.kex \in DOMAIN kex_methods
      BY <1>t, <1>r, <1>0 DEF Exchange, Agreed
    <3> QED
      BY <3>1, Table DEF M, Usable
  <2>2. LowSends[c.low] \notin Owing /\ (c.low # "sendnew" => LowSends[c.low] # "NEWKEYS")
    BY <1>r, <2>1 DEF LowSends, Owing, Answers
  <2>3. c'.low = LowNext[c.low] /\ c'.exch = c.exch /\ c'.kst = c.kst /\ c'.ready = c.ready
        /\ c'.auth = c.auth /\ (c.failed => c'.failed)
    BY <1>t, <1>1 DEF Types, Shaped, Fields
  <2>4. /\ Posts(Owing) /\ UNCHANGED <<srv, sock, toCli, queue>>
        /\ Moves(queue, toCli, queue', toCli')
    BY <1>1, <2>2, SendPosts
  <2>5. Chose /\ Before /\ NotYet /\ NoKexinit /\ ~Stuck
    BY <1>t, <1>r, <1>0 DEF Chose, Before, Turns, Stuck
  <2>6. Turns'
    <3>1. CASE c.low # "sendnew"
      <4>1. Posts({"NEWKEYS"})
        BY <1>1, <2>2, <3>1, SendPosts
      <4> QED
        BY <1>t, <2>4, <2>5, <4>1, TurnsKept
    <3>2. CASE c.low = "sendnew"
      <4>1. ~Chose' /\ ~Before'
        BY <1>0, <1>1, <2>3, <3>2 DEF Chose, Before, LowNext
      <4>2. srv.phase # "open" /\ ~Has(toSrv, {"NEWKEYS"})
        <5>1. srv.n # 0
          BY <1>t, <1>r, <1>0 DEF Exchange, Types
        <5> QED
          BY <2>5, <5>1 DEF NotYet
      <4>3. PICK m : toSrv' = Append(toSrv, m)
        BY <1>1 DEF Send
      <4>4. Lone(toSrv', {"NEWKEYS"})
        BY <1>t, <4>2, <4>3, AtAppend DEF Types, Turns
      <4>5. NoKexinit'
        BY <2>4, <2>5 DEF NoKexinit
      <4> QED
        BY <1>t, <2>4, <4>1, <4>2, <4>4, <4>5 DEF Turns
    <3> QED
      BY <3>1, <3>2
  <2>7. Plainly
    BY <1>0, <2>3 DEF Ending, Plainly
  <2> QED
    BY <1>t, <1>r, <1>1, <2>3, <2>4, <2>5, <2>6, <2>7, FrameKeeps
<1>2. ASSUME WouldBlock
      PROVE  VerdictInv'
  BY <1>r, <1>2, BlockedExchange
<1>3. ASSUME sock = "down", KexFail(c), UNCHANGED <<offer, sock, toSrv, toCli, queue, srv, garbled>>
      PROVE  VerdictInv'
  BY <1>r, <1>3, DownVerdict
<1> QED
  BY <1>1, <1>2, <1>3 DEF KexSend

LEMMA KexReadVerdict ==
  ASSUME KexInv, VerdictInv, KexRead, Ending
  PROVE  VerdictInv'
<1>r. KexRunning /\ UNCHANGED <<reqs, own>> /\ Void
  BY DEF KexRead, Ending
<1>0. c.exch /\ call # None
  BY <1>r, Running
<1>1. ASSUME Receive
      PROVE  VerdictInv'
  <2>1. result' = result
    BY <1>0, <1>1 DEF Receive, Ending
  <2> QED
    BY <1>r, <1>0, <1>1, <2>1, ReadsKeep
<1>2. ASSUME WouldBlock
      PROVE  VerdictInv'
  BY <1>r, <1>2, BlockedExchange
<1>3. ASSUME sock = "down", KexFail(c), UNCHANGED <<offer, sock, toSrv, toCli, queue, srv, garbled>>
      PROVE  VerdictInv'
  BY <1>r, <1>3, DownVerdict
<1> QED
  BY <1>1, <1>2, <1>3 DEF KexRead, NothingYet

-----------------------------------------------------------------------------
LEMMA TakeVerdict ==
  ASSUME KexInv, VerdictInv, KexTake, Ending
  PROVE  VerdictInv'
<1>t. Types /\ Exchange /\ Progress /\ FlowOK(queue, toCli, offer, srv.n) /\ Turns
  BY DEF KexInv, VerdictInv
<1>r. KexRunning /\ KexWaits /\ KexFound # 0 /\ UNCHANGED <<reqs, own>> /\ Void
  BY DEF KexTake, Ending
<1>0. /\ c.exch /\ call # None /\ c.kst \in {"sent", "sent1", "sent2"}
      /\ st["handshake"] \in {"idle", "sent1", "sent2", "sent4"}
      /\ st["handshake"] = "idle" => c.ready
  BY <1>r, Running
<1>l. c.kst # "sent2" => c.low = "idle"
  BY <1>t DEF Exchange
<1> DEFINE k == KexFound
           m == queue[k]
           s == agree_methods(c, offer.cli, m.p.lists, m.p.follows)
<1>1. k \in 1..Len(queue) /\ (c.kst = "sent1" => m.t = "KEXINIT")
  BY <1>t, <1>r, <1>l, Found
<1>2. /\ queue' = RemoveAt(queue, k)
      /\ UNCHANGED <<offer, sock, toSrv, toCli, srv, garbled>>
  BY DEF KexTake
<1>3. Moves(queue, toCli, queue', toCli') /\ \A T : Posts(T)
  BY <1>1, <1>2 DEF Moves, Posts
<1>h. IsList(queue) /\ \A T : Has(queue', T) => Has(queue, T)
  BY <1>t, <1>1, <1>2, AtRemove DEF Types
<1>u. ~Stuck
  BY <1>0 DEF Stuck
<1>4. CASE c.kst = "sent1"
  <2>0. c.low = "idle" /\ c.kst # "sent2"
    BY <1>4, <1>l
  <2>1. \/ /\ s.agreed /\ UNCHANGED <<call, st>>
           /\ c' = [s EXCEPT !.kst = "sent2", !.rkex = m.p.n,
                             !.low = IF kex_methods[s.kex].request
                                     THEN "request" ELSE "init"]
        \/ ~s.agreed /\ KexFail(s)
    BY <1>4, <2>0, Zenon DEF KexTake
  <2>2. m.p.n \in 1..srv.n /\ m.p.lists = ListsOf(offer, m.p.n)
    BY <1>t, <1>1, <1>4 DEF FlowOK, AllServed, FromServer
  <2>3. \A l \in Lists : IsList(offer.cli[l]) /\ IsList(m.p.lists[l])
    <3>1. offer \in Offers
      BY <1>t DEF Types
    <3>2. \A l \in Lists : IsList(offer.cli[l]) /\ IsList(offer.srv[l]) /\ IsList(offer.later[l])
      BY <3>1, KexAssumption DEF IsList
    <3> QED
      BY <2>2, <3>2 DEF ListsOf
  <2>4. SameBut(c, s)
    BY <1>t, <2>3, Agreement DEF Types
  <2>5. Has(queue, {"KEXINIT"})
    BY <1>1, <1>4 DEF Has
  <2>6. /\ Shut /\ ~Has(toCli, {"KEXINIT"}) /\ ~Has(queue', {"KEXINIT"})
    <3>1. Shut /\ Lone(queue, {"KEXINIT"}) /\ ~Has(toCli, {"KEXINIT"})
      BY <1>t, <2>5 DEF Turns, NoKexinit, Single
    <3>2. queue[k].t \in {"KEXINIT"}
      BY <1>1, <1>4
    <3> HIDE DEF k
    <3> QED
      BY <1>h, <1>1, <1>2, <3>1, <3>2, AtRemove
  <2>7. NoKexinit'
    BY <1>2, <2>6 DEF NoKexinit
  <2>8. Before /\ NoAnswer
    BY <1>t, <1>0, <2>0 DEF Before, Turns, NotYet
  <2> HIDE DEF s
  <2>9. CASE ~s.agreed /\ KexFail(s)
    BY <1>r, <1>2, <1>3, <2>4, <2>6, <2>8, <2>9, FailVerdict
  <2>10. CASE /\ s.agreed /\ UNCHANGED <<call, st>>
              /\ c' = [s EXCEPT !.kst = "sent2", !.rkex = m.p.n,
                                !.low = IF kex_methods[s.kex].request
                                        THEN "request" ELSE "init"]
    <3>1. c'.exch = c.exch /\ c'.ready = c.ready /\ c'.auth = c.auth /\ (c.failed => c'.failed)
      BY <2>4, <2>10 DEF SameBut, Shaped, Fields
    <3>2. Turns'
      BY <1>t, <1>2, <1>3, <2>7, <2>8, TurnsKept
    <3>3. Plainly
      BY <1>0, <3>1 DEF Ending, Plainly
    <3> QED
      BY <1>t, <1>r, <1>2, <1>3, <1>u, <2>10, <3>1, <3>2, <3>3, FrameKeeps
  <2> QED
    BY <2>1, <2>9, <2>10
<1>5. CASE c.kst # "sent1"
  <2>0. c.kst = "sent2"
    BY <1>r, <1>0, <1>l, <1>5 DEF KexWaits
  <2>1. ASSUME UNCHANGED <<call, st>>, c.low # "waitnew",
               c'.exch = c.exch, c'.kst = c.kst, c'.ready = c.ready, c'.auth = c.auth /\ (c.failed => c'.failed)
        PROVE  VerdictInv'
    <3>1. Chose /\ Before
      BY <1>0, <2>0, <2>1 DEF Chose, Before
    <3>2. Turns'
      BY <1>t, <1>2, <1>3, <3>1, TurnsKept
    <3>3. Plainly
      BY <1>0, <2>1 DEF Ending, Plainly
    <3> QED
      BY <1>t, <1>r, <1>2, <1>3, <1>u, <2>1, <3>2, <3>3, FrameKeeps
  <2>2. CASE c.low # "waitnew" /\ UNCHANGED <<call, st>> /\ c' = [c EXCEPT !.low = "init"]
    BY <1>t, <2>1, <2>2 DEF Types, Shaped, Fields
  <2>3. CASE /\ c.low # "waitnew" /\ UNCHANGED <<call, st>>
             /\ c' = [c EXCEPT !.low = "waitreply", !.burn = FALSE]
    BY <1>t, <2>1, <2>3 DEF Types, Shaped, Fields
  <2>4. CASE /\ c.low # "waitnew" /\ UNCHANGED <<call, st>>
             /\ c' = [c EXCEPT !.low = "sendnew", !.h = m.p.h]
    <3> HIDE DEF m
    <3> QED
      BY <1>t, <2>1, <2>4 DEF Types, Shaped, Fields
  <2>5. CASE c.low # "waitnew" /\ KexFail(c)
    <3>1. SameBut(c, c)
      BY <1>t DEF SameBut, Types
    <3>2. Chose /\ Before
      BY <1>0, <2>0, <2>5 DEF Chose, Before
    <3>3. srv.n # 0
      BY <1>t, <1>0, <2>0 DEF Exchange, Types
    <3>4. Shut /\ ~Has(toCli', {"KEXINIT"}) /\ NoAnswer
      BY <1>t, <1>2, <3>2, <3>3 DEF Turns, NoKexinit, NotYet, Shut
    <3> QED
      BY <1>r, <1>2, <1>3, <2>5, <3>1, <3>4, FailVerdict
  <2>6. CASE /\ c' = KexEnd(Installed(c)) /\ UNCHANGED call
             /\ st' = [st EXCEPT !["handshake"] =
                          IF @ = "sent1" THEN "sent2" ELSE @]
    <3>1. ~c'.exch /\ c'.ready = c.ready /\ c'.auth = c.auth /\ (c.failed => c'.failed)
      <4>1. Agreed(c, offer, c.rkex)
        BY <1>t, <1>0, <2>0 DEF Exchange
      <4>2. Shaped(Installed(c)) /\ Installed(c).ready = c.ready
        BY <1>t, <4>1, InstallMakes DEF Agreed
      <4>3. Installed(c).auth = c.auth /\ Installed(c).failed = c.failed
        BY <1>t DEF Installed, Install, Types, Shaped, Fields
      <4> QED
        BY <2>6, <4>2, <4>3 DEF KexEnd, Shaped, Fields
    <3>2. /\ \A g \in Methods : st'[g] = st[g]
          /\ st'["handshake"] = IF st["handshake"] = "sent1" THEN "sent2" ELSE st["handshake"]
      BY <1>t, <2>6, Names DEF Types
    <3>3. ~Chose' /\ ~Before'
      BY <1>0, <3>1, <3>2 DEF Chose, Before
    <3>4. Turns'
      BY <1>t, <1>2, <1>3, <3>3, TurnsKept
    <3>5. Plainly
      BY <1>0, <2>6 DEF Ending, Plainly
    <3> QED
      BY <1>t, <1>r, <1>2, <1>3, <1>u, <2>6, <3>1, <3>2, <3>4, <3>5, FrameKeeps
  <2>7. c.low # "waitnew" \/ c.low = "waitnew"
    OBVIOUS
  <2>8. c.low = "waitnew" => c.low # "waitgroup" /\ c.low # "burn" /\ c.low # "waitreply"
    OBVIOUS
  <2>9. /\ c.low = "waitgroup" => c.low # "waitnew"
        /\ c.low = "burn" => c.low # "waitnew"
        /\ c.low = "waitreply" => c.low # "waitnew"
    OBVIOUS
  <2> HIDE DEF s
  <2> QED
    BY <1>5, <2>2, <2>3, <2>4, <2>5, <2>6, <2>7, <2>9, Zenon DEF KexTake
<1> QED
  BY <1>4, <1>5

LEMMA KeyExchangeVerdict ==
  ASSUME KexInv, VerdictInv, KeyExchange
  PROVE  VerdictInv'
<1>1. Ending
  <2>1. CASE call' = None /\ ~c'.exch
    <3>1. result'.rc = TransportError(call) /\ result'.answer = 0
      BY <2>1 DEF KeyExchange, Ended
    <3>2. result'.rc # "ok"
      BY <3>1, NotAccepted
    <3> QED
      BY <2>1, <3>1, <3>2 DEF KeyExchange, Ending, Void
  <2>2. CASE ~(call' = None /\ ~c'.exch)
    <3>1. result' = result
      BY <2>2, Zenon DEF KeyExchange
    <3> QED
      BY <3>1 DEF KeyExchange, Ending, Void
  <2> QED
    BY <2>1, <2>2
<1> QED
  BY <1>1, KexinitVerdict, KexSendVerdict, TakeVerdict, KexReadVerdict, Zenon
     DEF KeyExchange, KexStep

-----------------------------------------------------------------------------
(* Startup, disconnect and the calls of the program                         *)

LEMMA StartupVerdict ==
  ASSUME KexInv, VerdictInv, StartupStep
  PROVE  VerdictInv'
<1>t. Types /\ Exchange /\ Progress /\ Turns /\ Owed
  BY DEF KexInv, VerdictInv
<1>0. /\ call = "handshake" /\ ~c.exch /\ ~c.ready /\ UNCHANGED <<reqs, own>>
      /\ "handshake" \in DOMAIN st
  BY <1>t, Names DEF StartupStep, Startup, BannerSend, BannerReceive, ServiceRequest,
     ServiceAccept, InStartup, Progress, Types
<1>p. Plainly
  <2>1. [NoResult EXCEPT !.f = "handshake"].rc = None
    BY DEF NoResult
  <2>2. result' = result \/ result' = [NoResult EXCEPT !.f = "handshake"]
    BY Zenon DEF StartupStep
  <2> QED
    BY <2>1, <2>2 DEF Plainly, Verdicts, Refusals, None
<1>r. call' # None => result' = result
  BY DEF StartupStep
<1>n. ~Has(queue, Answers)
  BY <1>t, <1>0 DEF Owed, NoneOwed, Has, Owing
<1>b. ASSUME WouldBlock
      PROVE  VerdictInv'
  <2>1. sock = "up" /\ c'.ready = c.ready
    BY <1>t, <1>b DEF WouldBlock, Types, Shaped, Fields
  <2>2. result' = result
    BY <1>0, <2>1 DEF StartupStep
  <2> QED
    BY <1>t, <1>0, <1>b, <2>2, BlockedVerdict
<1>f. ASSUME StartupFails
      PROVE  VerdictInv'
  <2>1. Moves(queue, toCli, queue', toCli') /\ Posts(Owing \cup {"NEWKEYS"})
    BY <1>f DEF StartupFails, Moves, Posts
  <2>2. UNCHANGED <<srv, sock, st, c>> /\ call' = None
    BY <1>f DEF StartupFails
  <2> QED
    BY <1>t, <1>0, <1>p, <2>1, <2>2, Names, IdleKeeps
<1>s. ASSUME NEW x, StartupTo(x)
      PROVE  st'["handshake"] = x /\ \A g \in Methods : st'[g] = st[g]
  BY <1>t, <1>0, <1>s, Names DEF StartupTo, Types
<1>m. ASSUME NEW t, t \in {"IDENT", "SERVICE_REQUEST"}, Send(t, 0)
      PROVE  /\ Posts(Owing \cup {"NEWKEYS"}) /\ UNCHANGED <<srv, sock, toCli, queue>>
             /\ Moves(queue, toCli, queue', toCli')
  <2>1. t \notin Owing \cup {"NEWKEYS"}
    BY <1>m DEF Owing, Answers
  <2> QED
    BY <1>m, <2>1, SendPosts
<1>1. ASSUME BannerSend
      PROVE  VerdictInv'
  <2>1. ASSUME Send("IDENT", 0), StartupTo("sent"), UNCHANGED <<call, c>>
        PROVE  VerdictInv'
    <3>1. st["handshake"] = "created"
      BY <1>1 DEF BannerSend, InStartup
    <3>2. /\ Posts(Owing \cup {"NEWKEYS"}) /\ UNCHANGED <<srv, sock, toCli, queue>>
          /\ Moves(queue, toCli, queue', toCli')
      BY <1>m, <2>1
    <3> QED
      BY <1>t, <1>0, <1>p, <1>s, <2>1, <3>1, <3>2, IdleKeeps
  <2> QED
    BY <1>1, <1>b, <1>f, <2>1 DEF BannerSend
<1>2. ASSUME BannerReceive
      PROVE  VerdictInv'
  <2>h. st["handshake"] = "sent"
    BY <1>2 DEF BannerReceive, InStartup
  <2>1. ASSUME toCli # <<>>, toCli' = Tail(toCli),
               UNCHANGED <<offer, sock, toSrv, queue, call, srv, garbled>>
        PROVE  Moves(queue, toCli, queue', toCli') /\ \A T : Posts(T)
    BY <2>1 DEF Moves, Posts
  <2>2. ASSUME toCli # <<>>, toCli' = Tail(toCli), StartupTo("sent1"), c' = KexBegin(c, FALSE),
               UNCHANGED <<offer, sock, toSrv, queue, call, srv, garbled>>
        PROVE  VerdictInv'
    <3>1. c.kex = None
      BY <1>t, <1>0, <2>h DEF Progress
    <3>2. c'.kst = "sent" /\ c'.ready = c.ready
      BY <1>t, <2>2, <3>1, KexBegins DEF Begun, Types
    <3>3. c'.auth = c.auth /\ (c.failed => c'.failed)
      BY <1>t, <2>2 DEF KexBegin, Types, Shaped, Fields
    <3>4. ~Chose' /\ Before
      BY <1>0, <2>h, <3>2 DEF Chose, Before
    <3>5. Turns'
      BY <1>t, <2>1, <2>2, <3>4, TurnsKept
    <3> QED
      BY <1>t, <1>0, <1>p, <1>s, <2>1, <2>2, <3>2, <3>3, <3>5, FrameKeeps
  <2>3. ASSUME toCli # <<>>, toCli' = Tail(toCli),
               UNCHANGED <<offer, sock, toSrv, queue, call, srv, garbled, st, c>>
        PROVE  VerdictInv'
    BY <1>t, <1>0, <1>p, <2>1, <2>3, IdleKeeps
  <2> QED
    BY <1>2, <1>b, <1>f, <2>2, <2>3 DEF BannerReceive, NothingYet
<1>3. ASSUME ServiceRequest
      PROVE  VerdictInv'
  <2>1. ASSUME Send("SERVICE_REQUEST", 0), StartupTo("sent4"), UNCHANGED <<call, c>>
        PROVE  VerdictInv'
    <3>2. /\ Posts(Owing \cup {"NEWKEYS"}) /\ UNCHANGED <<srv, sock, toCli, queue>>
          /\ Moves(queue, toCli, queue', toCli')
      BY <1>m, <2>1
    <3> QED
      BY <1>t, <1>0, <1>p, <1>s, <2>1, <3>2, IdleKeeps
  <2> QED
    BY <1>3, <1>b, <1>f, <2>1 DEF ServiceRequest
<1>4. ASSUME ServiceAccept
      PROVE  VerdictInv'
  <2>1. ASSUME Ask("SERVICE_ACCEPT") # 0, queue' = RemoveAt(queue, Ask("SERVICE_ACCEPT")),
               StartupTo("idle"), call' = None, c' = [c EXCEPT !.ready = TRUE],
               UNCHANGED <<offer, sock, toSrv, toCli, srv, garbled>>
        PROVE  VerdictInv'
    <3>1. Ask("SERVICE_ACCEPT") \in 1..Len(queue)
      BY <1>t, <2>1, Asked DEF Types
    <3>2. Moves(queue, toCli, queue', toCli') /\ \A T : Posts(T)
      BY <2>1, <3>1 DEF Moves, Posts
    <3>3. c'.ready /\ ~c'.exch /\ c'.auth = c.auth /\ (c.failed => c'.failed)
      BY <1>t, <1>0, <2>1 DEF Types, Shaped, Fields
    <3>4. ~Chose' /\ ~Before'
      BY <3>3 DEF Chose, Before
    <3>5. Turns'
      BY <1>t, <2>1, <3>2, <3>4, TurnsKept
    <3> QED
      BY <1>t, <1>0, <1>p, <1>s, <2>1, <3>2, <3>3, <3>5, Names, FrameKeeps
  <2>2. ASSUME Receive
        PROVE  VerdictInv'
    <3>1. result' = result
      BY <1>0, <1>r, <2>2, Names DEF Receive
    <3> QED
      BY <1>0, <1>n, <2>2, <3>1, ReadsKeep
  <2> QED
    BY <1>4, <1>b, <1>f, <2>1, <2>2 DEF ServiceAccept, NothingYet
<1> QED
  BY <1>1, <1>2, <1>3, <1>4 DEF StartupStep, Startup

LEMMA DisconnectVerdict ==
  ASSUME KexInv, VerdictInv, session_disconnect
  PROVE  VerdictInv'
<1>t. Types
  BY DEF KexInv
<1>0. UNCHANGED <<reqs, own>> /\ "disconnect" \in DOMAIN st
  BY <1>t, Names DEF session_disconnect, Types
<1>1. ASSUME call' = None, To("disconnect", "idle"), c' = [c EXCEPT !.closed = TRUE],
             result' = result, UNCHANGED <<srv, sock, toCli, queue>>,
             Posts(Owing \cup {"NEWKEYS"})
      PROVE  VerdictInv'
  <2>1. /\ c'.exch = c.exch /\ c'.kst = c.kst /\ c'.low = c.low /\ c'.ready = c.ready
        /\ c'.auth = c.auth /\ (c.failed => c'.failed)
    BY <1>t, <1>1 DEF Types, Shaped, Fields
  <2>2. st'["handshake"] = st["handshake"] /\ \A g \in Methods : st'[g] = st[g]
    BY <1>t, <1>0, <1>1, Names DEF To, Types
  <2>3. Moves(queue, toCli, queue', toCli') /\ Plainly
    BY <1>1 DEF Moves, Plainly
  <2> QED
    BY <1>t, <1>0, <1>1, <2>1, <2>2, <2>3, Names, IdleKeeps
<1>2. ASSUME Send("DISCONNECT", 0)
      PROVE  Posts(Owing \cup {"NEWKEYS"}) /\ UNCHANGED <<srv, sock, toCli, queue>>
  <2>1. "DISCONNECT" \notin Owing \cup {"NEWKEYS"}
    BY DEF Owing, Answers
  <2> QED
    BY <1>2, <2>1, SendPosts
<1>3. ASSUME UNCHANGED <<queue, Rest>>
      PROVE  Posts(Owing \cup {"NEWKEYS"}) /\ UNCHANGED <<srv, sock, toCli, queue>>
  BY <1>3 DEF Rest, Posts
<1>4. ASSUME WouldBlock, result' = result
      PROVE  VerdictInv'
  BY <1>t, <1>0, <1>4, BlockedVerdict
<1> QED
  BY <1>1, <1>2, <1>3, <1>4 DEF session_disconnect

LEMMA CallVerdict ==
  ASSUME KexInv, VerdictInv, NEW f \in Functions, Call(f), "retry" \notin Troubles,
         "abandon" \notin Troubles
  PROVE  VerdictInv'
<1>t. Types /\ Progress /\ Alone /\ Owed /\ Turns /\ Truth
  BY DEF KexInv, VerdictInv
<1>0. /\ call = None /\ call' = f /\ MayCall(f)
      /\ UNCHANGED <<srv, sock, toSrv, toCli, queue, result, reqs, own>>
      /\ "handshake" \in DOMAIN st /\ "disconnect" \in DOMAIN st /\ f \in DOMAIN st
  BY <1>t, Names DEF Call, Rest, Types
<1>1. Moves(queue, toCli, queue', toCli') /\ Plainly /\ \A T : Posts(T)
  BY <1>0 DEF Moves, Posts, Plainly
<1>2. CASE f = "handshake"
  <2>1. ~c.ready /\ result.f # "handshake"
    BY <1>0, <1>2 DEF MayCall
  <2>2. ~(st["handshake"] = "sent1" /\ c.kst = "idle")
    BY <1>t, <2>1 DEF Progress
  <2>3. /\ st' = [st EXCEPT !["handshake"] = IF @ = "idle" THEN "created" ELSE @]
        /\ c' = c
    BY <1>2, <2>2 DEF Call
  <2>4. /\ \A g \in Methods : st'[g] = st[g]
        /\ st'["handshake"] = st["handshake"] \/ st["handshake"] = "idle"
    BY <1>t, <1>0, <2>3, Names DEF Types
  <2> QED
    BY <1>t, <1>0, <1>1, <1>2, <2>1, <2>3, <2>4, Names, IdleKeeps
<1>3. CASE f = "disconnect"
  <2>1. c' = [c EXCEPT !.exch = FALSE] /\ To("disconnect", "created")
    BY <1>3 DEF Call
  <2>2. /\ ~c'.exch /\ c'.kst = c.kst /\ c'.low = c.low
        /\ c'.ready = c.ready /\ c'.auth = c.auth /\ (c.failed => c'.failed)
    BY <1>t, <2>1 DEF Types, Shaped, Fields
  <2>3. st'["handshake"] = st["handshake"] /\ \A g \in Methods : st'[g] = st[g]
    BY <1>t, <1>0, <2>1, Names DEF Types, To
  <2> QED
    BY <1>t, <1>0, <1>1, <1>3, <2>2, <2>3, Names, IdleKeeps
<1>4. CASE f \in Methods
  <2>0. f # "handshake" /\ f # "disconnect"
    BY <1>4, Names
  <2>1. \A g \in Functions \ {f} : ~Busy(g)
    BY <1>0, <2>0 DEF MayCall
  <2>2. \A g \in Methods \ {f} : Rests(g)
    BY <2>1, Names DEF Busy, HalfEnded, Rests, Half
  <2>3. /\ c' = c
        /\ st' = st \/ (f = "list" /\ To(f, IF st[f] = "banner" THEN "sent" ELSE st[f]))
    BY <2>0, Zenon DEF Call
  <2>4. /\ \A g \in Functions \ {f} : st'[g] = st[g]
        /\ st'[f] = st[f] \/ (f = "list" /\ st[f] = "banner" /\ st'[f] = "sent")
    BY <1>t, <1>0, <2>3 DEF Types, To
  <2>5. \A g \in Methods \ {f} : Rests(g)'
    BY <2>2, <2>4, Names DEF Rests, Half
  <2>6. \A g \in Methods : Past(g)' => Past(g)
    BY <2>4, Names DEF Past, Half
  <2>7. Alone'
    <3>1. \A g \in Methods \ {f} : call' # g
      BY <1>0
    <3>2. DOMAIN own' = Functions /\ \A g \in Methods : Past(g)' => own'[g] = reqs'
      BY <1>t, <1>0, <2>6 DEF Alone
    <3> QED
      BY <2>5, <3>1, <3>2 DEF Alone
  <2>8. \A m : \A g \in Methods : Owner(m, g) => Owner(m, g)'
    BY <2>4, Names DEF Owner, Awaiting
  <2>9. st'["handshake"] = st["handshake"]
    BY <2>0, <2>4, Names
  <2>10. (Chose' => Chose) /\ (Before' => Before) /\ (Stuck => ~c'.exch)
    BY <2>3, <2>9 DEF Chose, Before, Stuck
  <2>11. Turns'
    BY <1>t, <1>0, <1>1, <2>10, TurnsKept
  <2>12. Owed'
    BY <1>t, <1>0, <1>1, <2>3, <2>8, <2>10, OwedKept
  <2>13. Truth'
    <3>1. \A g \in Methods : g \in Functions
      BY Names
    <3>2. NoneAsked
      BY <1>0, <2>4, <3>1 DEF NoneAsked, Asking
    <3> QED
      BY <1>t, <1>0, <1>1, <2>3, <3>2, TruthKept
  <2> QED
    BY <2>7, <2>11, <2>12, <2>13 DEF VerdictInv
<1> QED
  BY <1>2, <1>3, <1>4, Names

-----------------------------------------------------------------------------
(* The server                                                               *)

(* t2 is t with packets of none of the types T at its end.                  *)
Grown(t, t2, T) ==
  /\ \A i \in 1..Len(t2) : t2[i].t \in T => \E j \in 1..Len(t) : t2[i] = t[j]
  /\ \A S \in SUBSET T : (Has(t2, S) <=> Has(t, S)) /\ (Lone(t, S) => Lone(t2, S))

LEMMA GrownJoin ==
  ASSUME NEW t, IsList(t), NEW a, IsList(a), NEW T, ~Has(a, T)
  PROVE  IsList(t \o a) /\ Grown(t, t \o a, T)
<1>1. IsList(t \o a)
  BY Joined
<1>2. /\ \A i \in 1..Len(t \o a) : \/ \E j \in 1..Len(t) : (t \o a)[i] = t[j]
                                   \/ \E j \in 1..Len(a) : (t \o a)[i] = a[j]
      /\ \A S : /\ Has(t \o a, S) <=> Has(t, S) \/ Has(a, S)
                /\ Lone(t, S) /\ Lone(a, S) /\ ~(Has(t, S) /\ Has(a, S)) => Lone(t \o a, S)
  BY AtJoin
<1>3. \A S \in SUBSET T : ~Has(a, S) /\ Lone(a, S)
  BY DEF Has, Lone
<1>4. Grown(t, t \o a, T)
  BY <1>2, <1>3 DEF Grown, Has
<1> QED
  BY <1>1, <1>4

LEMMA OrderedJoin ==
  ASSUME NEW t, IsList(t), NEW a, IsList(a), Ordered(t), Ordered(a),
         ~(Has(t, {"KEXINIT"}) /\ Has(a, Answers))
  PROVE  Ordered(t \o a)
<1> DEFINE s == t \o a
           n == Len(t)
<1>1. /\ n \in Nat /\ Len(a) \in Nat /\ Len(s) = n + Len(a)
      /\ \A i \in 1..n : s[i] = t[i]
      /\ \A i \in 1..Len(s) : i > n => i - n \in 1..Len(a) /\ s[i] = a[i - n]
  BY Joined, ListLen
<1> HIDE DEF s, n
<1> SUFFICES ASSUME NEW i \in 1..Len(s), NEW j \in 1..Len(s), i < j, s[i].t = "KEXINIT"
             PROVE  s[j].t \notin Answers
  BY DEF Ordered, s
<1>2. CASE j \in 1..n
  <2>1. i \in 1..n
    BY <1>1, <1>2
  <2> QED
    BY <1>1, <1>2, <2>1 DEF Ordered, n
<1>3. CASE i \in 1..n /\ j > n
  <2>1. Has(t, {"KEXINIT"})
    BY <1>1, <1>3 DEF Has, n
  <2>2. j - n \in 1..Len(a) /\ s[j] = a[j - n]
    BY <1>1, <1>3
  <2>3. s[j].t \in Answers => Has(a, Answers)
    BY <2>2, Zenon DEF Has
  <2> QED
    BY <2>1, <2>3
<1>4. CASE i > n /\ j > n
  <2>1. /\ i - n \in 1..Len(a) /\ s[i] = a[i - n] /\ j - n \in 1..Len(a) /\ s[j] = a[j - n]
        /\ i - n < j - n
    BY <1>1, <1>4
  <2> QED
    BY <2>1 DEF Ordered
<1> QED
  BY <1>1, <1>2, <1>3, <1>4

(* What the server has read or handled leaves the one list, for the other   *)
(* or for good.                                                             *)
Handles ==
  /\ Part(toSrv', toSrv)
  /\ \A i \in 1..Len(srv'.todo) : \/ \E j \in 1..Len(srv.todo) : srv'.todo[i] = srv.todo[j]
                                  \/ \E j \in 1..Len(toSrv) : srv'.todo[i] = toSrv[j]
  /\ Has(toSrv', Owing) => Has(toSrv, Owing)
  /\ Has(srv'.todo, Owing) => Has(srv.todo, Owing) \/ Has(toSrv, Owing)
  /\ Single(srv.todo, toSrv, Owing) => Single(srv'.todo, toSrv', Owing)

LEMMA ReadHandles ==
  ASSUME Types, toSrv # <<>>, toSrv' = Tail(toSrv),
         srv'.todo = srv.todo \/ srv'.todo = Append(srv.todo, Head(toSrv))
  PROVE  Handles
<1>1. Moves(srv.todo, toSrv, srv'.todo, toSrv')
  BY DEF Moves
<1>2. IsList(srv.todo) /\ IsList(toSrv)
  BY DEF Types
<1>3. /\ Part(toSrv', toSrv)
      /\ \A i \in 1..Len(srv'.todo) : \/ \E j \in 1..Len(srv.todo) : srv'.todo[i] = srv.todo[j]
                                      \/ \E j \in 1..Len(toSrv) : srv'.todo[i] = toSrv[j]
      /\ \A T : /\ Has(toSrv', T) => Has(toSrv, T)
                /\ Has(srv'.todo, T) => Has(srv.todo, T) \/ Has(toSrv, T)
                /\ Single(srv.todo, toSrv, T) => Single(srv'.todo, toSrv', T)
  BY <1>1, <1>2, MovesHas
<1> QED
  BY <1>3 DEF Handles

LEMMA AnswerHandles ==
  ASSUME Types, toSrv' = toSrv, srv.todo # <<>>, srv'.todo \in {srv.todo, Tail(srv.todo)}
  PROVE  Handles
<1>1. IsList(srv.todo) /\ IsList(toSrv)
  BY DEF Types
<1>2. /\ Part(Tail(srv.todo), srv.todo)
      /\ Has(Tail(srv.todo), Owing) => Has(srv.todo, Owing)
      /\ Lone(srv.todo, Owing) => Lone(Tail(srv.todo), Owing)
  BY <1>1, AtTail
<1>3. Part(toSrv', toSrv)
  BY DEF Part
<1>4. CASE srv'.todo = srv.todo
  BY <1>3, <1>4 DEF Handles
<1>5. CASE srv'.todo = Tail(srv.todo)
  BY <1>2, <1>3, <1>5 DEF Handles, Part, Single
<1> QED
  BY <1>4, <1>5

ClientRests == UNCHANGED <<queue, call, st, c, result, reqs, own>>

LEMMA AloneServed ==
  ASSUME Alone, ClientRests
  PROVE  Alone'
BY DEF Alone, ClientRests, Rests, Past, Half

(* The server takes no login up, and sends no answer to one.                *)
LEMMA OwedServed ==
  ASSUME Types, Owed, ClientRests, Grown(toCli, toCli', Owing), Handles,
         sock' \in {sock, "down"}, Stuck => Stuck'
  PROVE  Owed'
<1>1. /\ Has(toCli', Owing) <=> Has(toCli, Owing)
      /\ Lone(toCli, Owing) => Lone(toCli', Owing)
      /\ \A i \in 1..Len(toCli') : toCli'[i].t \in Owing
                                     => \E j \in 1..Len(toCli) : toCli'[i] = toCli[j]
  BY DEF Grown
<1>2. \A m : OwedTo(m) => OwedTo(m)'
  BY DEF OwedTo, Id, Owner, Awaiting, ClientRests
<1>3. queue' = queue /\ c' = c
  BY DEF ClientRests
<1>4. NoneOwed => NoneOwed'
  BY <1>1, <1>3 DEF NoneOwed, Handles
<1>5. One => One'
  BY <1>1, <1>3 DEF One, Single, Handles
<1> HIDE DEF OwedTo
<1>6. OwedBy(queue) => OwedBy(queue)'
  BY <1>2, <1>3 DEF OwedBy
<1>7. OwedBy(toCli) => OwedBy(toCli)'
  BY <1>1, <1>2 DEF OwedBy
<1>8. OwedBy(toSrv) => OwedBy(toSrv)'
  BY <1>2 DEF OwedBy, Handles, Part
<1>9. OwedBy(toSrv) /\ OwedBy(srv.todo) => OwedBy(srv.todo)'
  BY <1>2 DEF OwedBy, Handles
<1> QED
  BY <1>3, <1>4, <1>5, <1>6, <1>7, <1>8, <1>9 DEF Owed

LEMMA TruthServed ==
  ASSUME Truth, ClientRests, Grown(toCli, toCli', Owing), sock' \in {sock, "down"},
         srv'.auth = srv.auth, srv'.accepted = srv.accepted, srv'.refused = srv.refused /\ srv'.asked = srv.asked
  PROVE  Truth'
<1>1. AllTruthful(toCli')
  <2> SUFFICES ASSUME NEW i \in 1..Len(toCli') PROVE Truthful(toCli'[i])
    BY DEF AllTruthful
  <2>1. CASE toCli'[i].t \in Owing
    BY <2>1 DEF Grown, Truth, AllTruthful
  <2>2. CASE toCli'[i].t \notin Owing
    BY <2>2 DEF Owing, Answers, Truthful
  <2> QED
    BY <2>1, <2>2
<1>2. AllTruthful(queue)' /\ AllTruthful(toCli)'
  BY <1>1 DEF Truth, AllTruthful, Truthful, ClientRests
<1>3. \A f \in Methods : Asking(f)' => own'[f] \in srv'.asked
  BY DEF Truth, Asking, ClientRests
<1>4. TrueVerdict' /\ (result'.rc = "ok" => srv'.auth)
  BY DEF Truth, TrueVerdict, ClientRests
<1> QED
  BY <1>2, <1>3, <1>4 DEF Truth

(* The server does not open its end.                                        *)
LEMMA TurnsServed ==
  ASSUME Turns, ClientRests, Grown(toCli, toCli', Owing \cup {"KEXINIT"}), Ordered(toCli'),
         srv'.n = srv.n, srv'.phase = srv.phase \/ srv'.phase # "open",
         Has(toSrv', {"NEWKEYS"}) => Has(toSrv, {"NEWKEYS"}), Lone(toSrv', {"NEWKEYS"})
  PROVE  Turns' /\ (Stuck => Stuck')
<1>1. {"KEXINIT"} \in SUBSET (Owing \cup {"KEXINIT"}) /\ Answers \in SUBSET (Owing \cup {"KEXINIT"})
  BY DEF Owing
<1>2. /\ Has(toCli', {"KEXINIT"}) <=> Has(toCli, {"KEXINIT"})
      /\ Lone(toCli, {"KEXINIT"}) => Lone(toCli', {"KEXINIT"})
      /\ Has(toCli', Answers) <=> Has(toCli, Answers)
  BY <1>1 DEF Grown
<1>3. queue' = queue /\ c' = c /\ st' = st
  BY DEF ClientRests
<1>4. /\ Shut => Shut'
      /\ NoKexinit <=> NoKexinit'
      /\ NoAnswer <=> NoAnswer'
  BY <1>2, <1>3 DEF Shut, NoKexinit, NoAnswer
<1>5. (Chose' => Chose) /\ (Before' => Before)
  BY <1>3 DEF Chose, Before
<1>6. NotYet => NotYet'
  BY <1>4 DEF NotYet
<1>7. Single(queue, toCli, {"KEXINIT"}) => Single(queue, toCli, {"KEXINIT"})'
  BY <1>2, <1>3 DEF Single
<1>8. Stuck => Stuck'
  BY <1>2, <1>3, <1>4 DEF Stuck
<1>9. Has(toSrv', {"NEWKEYS"}) => srv'.phase # "open"
  BY DEF Turns
<1> QED
  BY <1>4, <1>5, <1>6, <1>7, <1>8, <1>9 DEF Turns

(* Packets that neither answer a login nor start an exchange.               *)
Major == Owing \cup {"KEXINIT"}
Minor(ms) == IsList(ms) /\ \A i \in 1..Len(ms) : ms[i][1] \notin Major
Longer(t, t2) == IsList(t2) /\ Grown(t, t2, Major) /\ (Ordered(t) => Ordered(t2))

LEMMA MinorListed ==
  /\ Minor(<<>>)
  /\ \A x, y : x \notin Major => Minor(<< <<x, y>> >>)
  /\ \A x, y, u, v : x \notin Major /\ u \notin Major => Minor(<< <<x, y>>, <<u, v>> >>)
<1>1. Minor(<<>>)
  BY ShortLists DEF Minor
<1>2. ASSUME NEW x, NEW y, x \notin Major
      PROVE  Minor(<< <<x, y>> >>)
  <2> DEFINE w == <<x, y>>
  <2>1. w[1] = x
    OBVIOUS
  <2> HIDE DEF w
  <2>2. Minor(<<w>>)
    BY <1>2, <2>1, ShortLists DEF Minor
  <2> QED
    BY <2>2 DEF w
<1>3. ASSUME NEW x, NEW y, NEW u, NEW v, x \notin Major, u \notin Major
      PROVE  Minor(<< <<x, y>>, <<u, v>> >>)
  <2> DEFINE w == <<x, y>>
             z == <<u, v>>
  <2>1. w[1] = x /\ z[1] = u
    OBVIOUS
  <2> HIDE DEF w, z
  <2>2. Minor(<<w, z>>)
    BY <1>3, <2>1, ShortLists DEF Minor
  <2> QED
    BY <2>2 DEF w, z
<1> QED
  BY <1>1, <1>2, <1>3

LEMMA MinorSealed ==
  ASSUME NEW ms, Minor(ms), NEW e, NEW auth
  PROVE  /\ IsList(SrvSeals(ms, e, auth))
         /\ \A i \in 1..Len(SrvSeals(ms, e, auth)) : SrvSeals(ms, e, auth)[i].t \notin Major
BY Sealed DEF Minor

LEMMA MinorJoin ==
  ASSUME NEW t, IsList(t), NEW ms, Minor(ms), NEW e, NEW auth
  PROVE  Longer(t, t \o SrvSeals(ms, e, auth))
<1> DEFINE a == SrvSeals(ms, e, auth)
<1>1. IsList(a) /\ \A i \in 1..Len(a) : a[i].t \notin Major
  BY MinorSealed
<1> HIDE DEF a
<1>2. ~Has(a, Major) /\ ~Has(a, Answers) /\ Ordered(a)
  BY <1>1 DEF Has, Major, Owing, Ordered
<1>3. IsList(t \o a) /\ Grown(t, t \o a, Major)
  BY <1>1, <1>2, GrownJoin
<1>4. Ordered(t) => Ordered(t \o a)
  BY <1>1, <1>2, OrderedJoin
<1>5. Longer(t, t \o a)
  BY <1>3, <1>4 DEF Longer
<1> QED
  BY <1>5 DEF a

LEMMA MinorNone ==
  ASSUME NEW t, IsList(t)
  PROVE  Longer(t, t)
BY DEF Longer, Grown

LEMMA MinorTwice ==
  ASSUME NEW t, NEW u, NEW v, Longer(t, u), Longer(u, v)
  PROVE  Longer(t, v)
<1>1. \A i \in 1..Len(v) : v[i].t \in Major => \E j \in 1..Len(t) : v[i] = t[j]
  <2> SUFFICES ASSUME NEW i \in 1..Len(v), v[i].t \in Major
               PROVE  \E j \in 1..Len(t) : v[i] = t[j]
    OBVIOUS
  <2>1. PICK k \in 1..Len(u) : v[i] = u[k]
    BY DEF Longer, Grown
  <2> QED
    BY <2>1 DEF Longer, Grown
<1>2. \A S \in SUBSET Major : (Has(v, S) <=> Has(t, S)) /\ (Lone(t, S) => Lone(v, S))
  BY DEF Longer, Grown
<1> QED
  BY <1>1, <1>2 DEF Longer, Grown

LEMMA ServedVerdict ==
  ASSUME Types, VerdictInv, ClientRests, Longer(toCli, toCli'), Handles,
         sock' \in {sock, "down"}, srv'.n = srv.n,
         srv'.auth = srv.auth, srv'.accepted = srv.accepted, srv'.refused = srv.refused /\ srv'.asked = srv.asked,
         srv'.phase = srv.phase \/ srv'.phase # "open",
         Has(toSrv', {"NEWKEYS"}) => Has(toSrv, {"NEWKEYS"}),
         Lone(toSrv, {"NEWKEYS"}) => Lone(toSrv', {"NEWKEYS"})
  PROVE  VerdictInv'
<1>t. Turns /\ Alone /\ Owed /\ Truth /\ Ordered(toCli) /\ Lone(toSrv, {"NEWKEYS"})
  BY DEF VerdictInv, Turns
<1>1. Grown(toCli, toCli', Owing \cup {"KEXINIT"}) /\ Ordered(toCli')
  BY <1>t DEF Longer, Major
<1>2. Grown(toCli, toCli', Owing)
  BY <1>1 DEF Grown
<1>3. Turns' /\ (Stuck => Stuck')
  BY <1>t, <1>1, TurnsServed
<1>4. Owed'
  BY <1>t, <1>2, <1>3, OwedServed
<1>5. Truth' /\ Alone'
  BY <1>t, <1>2, TruthServed, AloneServed
<1> QED
  BY <1>3, <1>4, <1>5 DEF VerdictInv

(* The server has our NEWKEYS: its end is open for what waits.              *)
LEMMA OpenedVerdict ==
  ASSUME Types, VerdictInv, ClientRests, toCli' = toCli, Handles, sock' = sock,
         srv'.auth = srv.auth, srv'.accepted = srv.accepted, srv'.refused = srv.refused /\ srv'.asked = srv.asked,
         Has(toSrv, {"NEWKEYS"}), ~Has(toSrv', {"NEWKEYS"}), Lone(toSrv', {"NEWKEYS"})
  PROVE  VerdictInv'
<1>t. Turns /\ Alone /\ Owed /\ Truth
  BY DEF VerdictInv
<1>1. NoKexinit /\ ~Before /\ ~Stuck
  BY <1>t DEF Turns, Shut, NotYet, Stuck
<1>2. /\ queue' = queue /\ c' = c /\ st' = st
  BY DEF ClientRests
<1>3. NoKexinit' /\ ~Before'
  BY <1>1, <1>2 DEF NoKexinit, Before
<1>4. Single(queue, toCli, {"KEXINIT"})' /\ Ordered(toCli')
  BY <1>t, <1>2 DEF Turns
<1>5. Turns'
  BY <1>3, <1>4 DEF Turns
<1>6. Grown(toCli, toCli', Owing)
  BY DEF Grown
<1> QED
  BY <1>t, <1>1, <1>5, <1>6, OwedServed, TruthServed, AloneServed DEF VerdictInv

LEMMA SrvReadVerdict ==
  ASSUME KexInv, VerdictInv, SrvRead, UNCHANGED authVars
  PROVE  VerdictInv'
<1>t. Types
  BY DEF KexInv
<1> DEFINE m == Head(toSrv)
           new == SrvEnd("sc", "BDF")
           hash == SrvHash
           in == SrvEnd("cs", "ACE")
<1>0. toSrv # <<>> /\ toSrv' = Tail(toSrv) /\ ClientRests /\ IsList(toSrv) /\ IsList(toCli)
  BY <1>t DEF SrvRead, authVars, ClientRests, Types
<1>1. /\ Has(toSrv, {"NEWKEYS"}) <=> m.t \in {"NEWKEYS"} \/ Has(toSrv', {"NEWKEYS"})
      /\ Lone(toSrv, {"NEWKEYS"}) => /\ Lone(toSrv', {"NEWKEYS"})
                                     /\ m.t \in {"NEWKEYS"} => ~Has(toSrv', {"NEWKEYS"})
  BY <1>0, AtTail
<1>2. ASSUME Longer(toCli, toCli'), srv'.n = srv.n, sock' \in {sock, "down"},
             srv'.auth = srv.auth, srv'.accepted = srv.accepted, srv'.refused = srv.refused /\ srv'.asked = srv.asked,
             srv'.phase = srv.phase \/ srv'.phase # "open",
             srv'.todo = srv.todo \/ srv'.todo = Append(srv.todo, m)
      PROVE  VerdictInv'
  <2>1. Handles
    BY <1>t, <1>0, <1>2, ReadHandles
  <2> HIDE DEF m
  <2> QED
    BY <1>t, <1>0, <1>1, <1>2, <2>1, ServedVerdict
<1>l. Longer(toCli, toCli)
  BY <1>0, MinorNone
<1>3. CASE m.t = "IDENT"
  <2>1. UNCHANGED <<srv, toCli, sock>>
    BY <1>3 DEF SrvRead
  <2> QED
    BY <1>2, <1>l, <2>1
<1>4. CASE m.t = "KEXINIT"
  <2>1. /\ srv' = [srv EXCEPT !.phase = "init", !.ck = m.p] /\ UNCHANGED toCli
        /\ sock' \in {sock, "down"}
    BY <1>4 DEF SrvRead
  <2> HIDE DEF m
  <2> QED
    BY <1>t, <1>2, <1>l, <2>1 DEF Types, SrvFields
<1>5. CASE m.t = "GEX_REQUEST"
  <2>1. /\ toCli' = toCli \o SrvSeals(<<<<"T31", Group>>>>, srv.out, srv.auth)
        /\ UNCHANGED <<srv, sock>>
    BY <1>5 DEF SrvRead
  <2>2. "T31" \notin Major
    BY DEF Major, Owing, Answers
  <2>3. Longer(toCli, toCli')
    BY <1>0, <2>1, <2>2, MinorListed, MinorJoin
  <2> QED
    BY <1>2, <2>1, <2>3
<1>6. CASE m.t \in {"INIT", "GEX_INIT"}
  <2> DEFINE ns == IF srv.n = 1 /\ offer.algs # NoAlgs
                   THEN <<<<"EXT_INFO", offer.algs>>>> ELSE <<>>
             u == toCli \o SrvSeals(SrvReply, srv.out, srv.auth)
  <2>1. /\ toCli' = u \o SrvSeals(ns, new, srv.auth)
        /\ srv' = [srv EXCEPT !.phase = "newkeys", !.out = new,
                     !.sid = IF @ = NoKeys THEN hash ELSE @]
        /\ UNCHANGED sock
    BY <1>6 DEF SrvRead
  <2>0. "T31" \notin Major /\ "T33" \notin Major /\ "NEWKEYS" \notin Major /\ "EXT_INFO" \notin Major
    BY DEF Major, Owing, Answers
  <2>2. Minor(SrvReply)
    <3>1. (IF Head(toSrv).t = "INIT" THEN "T31" ELSE "T33") \notin Major
      BY <2>0
    <3> QED
      BY <2>0, <3>1, MinorListed DEF SrvReply
  <2>3. Minor(ns)
    BY <2>0, MinorListed
  <2>4. Longer(toCli, u)
    BY <1>0, <2>2, MinorJoin
  <2> HIDE DEF new, ns, u, hash
  <2>5. Longer(u, toCli')
    BY <2>1, <2>3, <2>4, MinorJoin DEF Longer
  <2>6. Longer(toCli, toCli')
    BY <2>4, <2>5, MinorTwice
  <2> QED
    BY <1>t, <1>2, <2>1, <2>6 DEF Types, SrvFields
<1>7. CASE m.t = "NEWKEYS"
  <2>1. srv' = [srv EXCEPT !.phase = "open", !.in = in] /\ UNCHANGED <<toCli, sock>>
    BY <1>7 DEF SrvRead
  <2> HIDE DEF in
  <2>2. /\ srv'.auth = srv.auth /\ srv'.accepted = srv.accepted
        /\ srv'.refused = srv.refused /\ srv'.asked = srv.asked /\ srv'.todo = srv.todo
    BY <1>t, <2>1 DEF Types, SrvFields
  <2>3. Handles
    BY <1>t, <1>0, <2>2, ReadHandles
  <2>4. Lone(toSrv, {"NEWKEYS"})
    BY DEF VerdictInv, Turns
  <2> HIDE DEF m
  <2> QED
    BY <1>t, <1>0, <1>1, <1>7, <2>1, <2>2, <2>3, <2>4, OpenedVerdict
<1>8. CASE m.t \notin {"IDENT", "KEXINIT", "GEX_REQUEST", "INIT", "GEX_INIT", "NEWKEYS"}
  <2>1. srv' = [srv EXCEPT !.todo = Append(@, m)] /\ UNCHANGED <<toCli, sock>>
    BY <1>8 DEF SrvRead
  <2> HIDE DEF m
  <2> QED
    BY <1>t, <1>2, <1>l, <2>1 DEF Types, SrvFields
<1> QED
  BY <1>3, <1>4, <1>5, <1>6, <1>7, <1>8

LEMMA SrvKexInitVerdict ==
  ASSUME KexInv, VerdictInv, SrvKexInit, UNCHANGED authVars
  PROVE  VerdictInv'
<1>t. Types /\ Exchange /\ Turns /\ Alone /\ Owed /\ Truth
  BY DEF KexInv, VerdictInv
<1> DEFINE n == srv.n
           lists == IF n = 0 THEN offer.srv ELSE offer.later
<1>1. PICK follows : toCli' = toCli \o SrvSeals(
                <<<<"KEXINIT", [n |-> n + 1, lists |-> lists, follows |-> follows]>>>>
                \o (IF follows THEN <<<<"T31", Guess>>>> ELSE <<>>), srv.out, srv.auth)
  BY Zenon DEF SrvKexInit
<1> DEFINE x == <<"KEXINIT", [n |-> n + 1, lists |-> lists, follows |-> follows]>>
           y == <<"T31", Guess>>
           rest == IF follows THEN <<y>> ELSE <<>>
           ms == <<x>> \o rest
           a == SrvSeals(ms, srv.out, srv.auth)
<1>2. x[1] = "KEXINIT" /\ y[1] = "T31"
  OBVIOUS
<1>3. toCli' = toCli \o a
  BY <1>1
<1> HIDE DEF x, y
<1>4. /\ IsList(<<x>>) /\ Len(<<x>>) = 1 /\ <<x>>[1] = x
      /\ IsList(rest) /\ \A i \in 1..Len(rest) : rest[i] = y
  BY ShortLists
<1> HIDE DEF rest
<1>5. IsList(ms) /\ \A i \in 1..Len(ms) : (i = 1 /\ ms[i] = x) \/ ms[i] = y
  BY <1>4, Joined
<1> HIDE DEF ms
<1>6. /\ IsList(a)
      /\ \A i \in 1..Len(a) : (i = 1 /\ a[i].t = "KEXINIT") \/ a[i].t = "T31"
  BY <1>2, <1>5, Sealed
<1> HIDE DEF a
<1>7. ~Has(a, Owing) /\ ~Has(a, Answers) /\ Lone(a, {"KEXINIT"}) /\ Ordered(a)
  BY <1>6 DEF Has, Owing, Answers, Lone, Ordered
<1>8. /\ sock' = sock /\ toSrv' = toSrv /\ ClientRests /\ srv.phase = "open"
      /\ srv' = [srv EXCEPT !.n = @ + 1, !.phase = "kex"]
  BY DEF SrvKexInit, authVars, ClientRests
<1>9. /\ srv'.phase = "kex" /\ srv'.todo = srv.todo /\ srv'.auth = srv.auth
      /\ srv'.accepted = srv.accepted /\ srv'.refused = srv.refused /\ srv'.asked = srv.asked
  BY <1>t, <1>8 DEF Types, SrvFields
<1>10. NoKexinit /\ ~Has(toSrv, {"NEWKEYS"}) /\ ~Stuck
  BY <1>t, <1>8 DEF Turns, Shut, Stuck
<1>11. ~Chose
  <2> SUFFICES ASSUME Chose PROVE FALSE
    OBVIOUS
  <2>1. Before
    BY DEF Chose, Before
  <2>2. srv.n = 0
    BY <1>t, <1>8, <2>1 DEF Turns, NotYet
  <2> QED
    BY <1>t, <2>2 DEF Chose, Exchange
<1>12. queue' = queue /\ c' = c /\ st' = st
  BY <1>8 DEF ClientRests
<1>13. IsList(toCli) /\ IsList(toSrv) /\ IsList(srv.todo)
  BY <1>t DEF Types
<1>14. Grown(toCli, toCli', Owing)
  BY <1>3, <1>6, <1>7, <1>13, GrownJoin
<1>15. Ordered(toCli')
  BY <1>t, <1>3, <1>6, <1>7, <1>13, OrderedJoin DEF Turns
<1>16. Single(queue, toCli, {"KEXINIT"})'
  <2>1. Lone(toCli', {"KEXINIT"})
    BY <1>t, <1>3, <1>6, <1>7, <1>10, <1>13, AtJoin DEF Turns, Single, NoKexinit
  <2> QED
    BY <1>t, <1>10, <1>12, <2>1 DEF Turns, Single, NoKexinit
<1>17. Before' => NotYet'
  <2>1. Answers \in SUBSET Owing
    BY DEF Owing
  <2>2. Has(toCli', Answers) <=> Has(toCli, Answers)
    BY <1>14, <2>1 DEF Grown
  <2>3. Before' => Before
    BY <1>12 DEF Before
  <2> QED
    BY <1>t, <1>8, <1>9, <1>10, <1>12, <2>2, <2>3 DEF Turns, NotYet, NoAnswer
<1>18. Shut' /\ ~Chose'
  BY <1>8, <1>9, <1>10, <1>11, <1>12 DEF Shut, Chose
<1>19. Turns'
  BY <1>t, <1>8, <1>9, <1>15, <1>16, <1>17, <1>18 DEF Turns
<1>20. Handles
  BY <1>8, <1>9 DEF Handles, Part
<1> QED
  BY <1>t, <1>8, <1>9, <1>10, <1>14, <1>19, <1>20, OwedServed, TruthServed, AloneServed
     DEF VerdictInv

(* A login is answered: by the type a, with its own identity, and perhaps   *)
(* a banner first.                                                          *)
Answered(a, id, v) ==
  /\ srv.phase = "open" /\ srv.todo # <<>> /\ Head(srv.todo).t = "REQUEST" /\ ~srv.auth
  /\ a \in Answers /\ (a = "M60" => MayAsk(Head(srv.todo))) /\ id = Head(srv.todo).p.id
  /\ IsList(v) /\ toCli' = toCli \o v
  /\ \A i \in 1..Len(v) : v[i].t = "BANNER" \/ (i = Len(v) /\ v[i].t = a /\ v[i].p = id)
  /\ srv'.todo = Tail(srv.todo) /\ srv'.phase = srv.phase /\ srv'.n = srv.n
  /\ srv'.auth = (a = "SUCCESS") /\ (a = "SUCCESS" => srv'.accepted = id)
  /\ srv.refused \subseteq srv'.refused /\ (a = "FAILURE" => id \in srv'.refused)
  /\ srv.asked \subseteq srv'.asked /\ (a = "M60" => id \in srv'.asked)

LEMMA AnswerVerdict ==
  ASSUME KexInv, VerdictInv, ClientRests, toSrv' = toSrv, sock' = sock,
         NEW a, NEW id, NEW v, Answered(a, id, v)
  PROVE  VerdictInv'
<1> USE DEF Answered
<1> DEFINE m == Head(srv.todo)
<1>t. Types /\ Progress /\ Turns /\ Alone /\ Owed /\ Truth
  BY DEF KexInv, VerdictInv
<1>0. IsList(toCli) /\ IsList(toSrv) /\ IsList(srv.todo)
  BY <1>t DEF Types
<1>1. queue' = queue /\ c' = c /\ st' = st /\ reqs' = reqs /\ result' = result
  BY DEF ClientRests
<1>2. m.t \in Owing /\ \E j \in 1..Len(srv.todo) : m = srv.todo[j]
  BY <1>0, AtTail DEF Owing
<1>3. Has(srv.todo, Owing)
  BY <1>2 DEF Has
<1>4. c.ready /\ ~Stuck
  BY <1>t, <1>3 DEF Owed, NoneOwed, Stuck, Shut
<1>5. /\ One /\ OwedBy(srv.todo)
      /\ ~Has(queue, Owing) /\ ~Has(toCli, Owing) /\ ~Has(toSrv, Owing)
  BY <1>t, <1>3, <1>4 DEF Owed, One
<1>6. ~Has(srv'.todo, Owing)
  BY <1>0, <1>2, <1>5, AtTail DEF One
<1>7. OwedTo(m)
  BY <1>2, <1>5 DEF OwedBy
<1>8. ~Before /\ NoKexinit
  <2>1. srv.n # 0
    BY <1>t, <1>4 DEF Progress, FirstDone, Types
  <2> QED
    BY <1>t, <2>1 DEF Turns, NotYet, Shut
<1>9. /\ ~Has(v, {"KEXINIT"}) /\ Ordered(v) /\ Lone(v, Owing)
  BY DEF Has, Ordered, Lone, Owing, Answers
<1>10. /\ \A i \in 1..Len(toCli') : \/ \E j \in 1..Len(toCli) : toCli'[i] = toCli[j]
                                    \/ \E j \in 1..Len(v) : toCli'[i] = v[j]
       /\ \A T : /\ Has(toCli', T) <=> Has(toCli, T) \/ Has(v, T)
                 /\ Lone(toCli, T) /\ Lone(v, T) /\ ~(Has(toCli, T) /\ Has(v, T))
                      => Lone(toCli', T)
  <2>1. IsList(v) /\ toCli' = toCli \o v
    OBVIOUS
  <2> HIDE DEF Answered
  <2> QED
    BY <1>0, <2>1, AtJoin
<1>11. Turns'
  <2>1. Ordered(toCli')
    BY <1>t, <1>0, <1>8, <1>9, OrderedJoin DEF Turns, NoKexinit
  <2>2. ~Before' /\ ~Chose' /\ NoKexinit'
    BY <1>1, <1>8, <1>9, <1>10 DEF Before, Chose, NoKexinit
  <2>3. Single(queue, toCli, {"KEXINIT"})'
    BY <2>2 DEF NoKexinit, Single, Has, Lone
  <2> QED
    BY <1>t, <2>1, <2>2, <2>3 DEF Turns
<1>12. One'
  <2>1. Lone(toCli', Owing) /\ Lone(queue', Owing)
    BY <1>1, <1>5, <1>9, <1>10 DEF One, Single
  <2>2. Lone(srv'.todo, Owing) /\ ~Has(queue', Owing) /\ ~Has(toSrv', Owing)
        /\ Lone(toSrv', Owing)
    BY <1>1, <1>5, <1>6 DEF One, Has, Lone
  <2> QED
    BY <1>6, <2>1, <2>2 DEF One, Single
<1>13. ASSUME NEW k, k.t = a, k.p = id
       PROVE  OwedTo(k) /\ OwedTo(k)'
  <2>1. Id(k) = Id(m)
    BY <1>13 DEF Id, Answers
  <2>2. MayAsk(k) => MayAsk(m)
    BY <1>13 DEF MayAsk, Answers
  <2>3. OwedTo(k)
    BY <1>7, <2>1, <2>2 DEF OwedTo, Owner
  <2> QED
    BY <2>3 DEF OwedTo, Id, Owner, Awaiting, ClientRests
<1>14. \A i \in 1..Len(toCli') : toCli'[i].t \in Owing => toCli'[i].t = a /\ toCli'[i].p = id
  <2>1. \A i \in 1..Len(v) : v[i].t \in Owing => v[i].t = a /\ v[i].p = id
    BY DEF Owing, Answers
  <2> HIDE DEF Answered
  <2> QED
    BY <1>5, <1>10, <2>1 DEF Has
<1>15. OwedBy(toCli)'
  BY <1>13, <1>14 DEF OwedBy
<1>16. OwedBy(queue)' /\ OwedBy(toSrv)' /\ OwedBy(srv.todo)'
  BY <1>1, <1>5, <1>6 DEF OwedBy, Has
<1>17. Owed'
  BY <1>1, <1>4, <1>12, <1>15, <1>16 DEF Owed
<1>18. Truth'
  <2>1. AllTruthful(queue)'
    BY <1>1, <1>5 DEF AllTruthful, Truthful, Has, Owing, Answers
  <2>2. AllTruthful(toCli)'
    BY <1>14 DEF AllTruthful, Truthful, Owing, Answers
  <2>3. result.rc # "ok" /\ ~c.auth
    BY <1>t DEF Truth, TrueVerdict
  <2>4. \A f \in Methods : Asking(f)' => own'[f] \in srv'.asked
    BY <1>t, <1>1 DEF Truth, Asking, ClientRests
  <2>5. TrueVerdict'
    BY <1>t, <1>1, <2>3 DEF Truth, TrueVerdict
  <2> QED
    BY <1>1, <2>1, <2>2, <2>3, <2>4, <2>5 DEF Truth
<1> QED
  BY <1>t, <1>11, <1>17, <1>18, AloneServed DEF VerdictInv

LEMMA SrvAnswerVerdict ==
  ASSUME KexInv, VerdictInv, SrvAnswer, UNCHANGED authVars
  PROVE  VerdictInv'
<1>t. Types
  BY DEF KexInv
<1> DEFINE m == Head(srv.todo)
<1>0. /\ srv.todo # <<>> /\ srv.phase = "open" /\ toSrv' = toSrv /\ ClientRests
      /\ IsList(toCli) /\ Longer(toCli, toCli)
  BY <1>t, MinorNone DEF SrvAnswer, authVars, ClientRests, Types
<1>2. ASSUME Longer(toCli, toCli'), srv'.n = srv.n, sock' \in {sock, "down"},
             srv'.auth = srv.auth, srv'.accepted = srv.accepted, srv'.refused = srv.refused /\ srv'.asked = srv.asked,
             srv'.phase = srv.phase, srv'.todo \in {srv.todo, Tail(srv.todo)}
      PROVE  VerdictInv'
  <2>1. Handles
    BY <1>t, <1>0, <1>2, AnswerHandles
  <2> QED
    BY <1>t, <1>0, <1>2, <2>1, ServedVerdict
<1>3. CASE m.t = "SERVICE_REQUEST"
  <2>1. /\ toCli' = toCli \o SrvSeals(<<<<"SERVICE_ACCEPT", 0>>>>, srv.out, srv.auth)
        /\ srv' = [srv EXCEPT !.service = TRUE, !.todo = Tail(@)] /\ UNCHANGED sock
    BY <1>3 DEF SrvAnswer
  <2>2. "SERVICE_ACCEPT" \notin Major
    BY DEF Major, Owing, Answers
  <2>3. Longer(toCli, toCli')
    BY <1>0, <2>1, <2>2, MinorListed, MinorJoin
  <2> HIDE DEF m
  <2> QED
    BY <1>t, <1>2, <2>1, <2>3 DEF Types, SrvFields
<1>4. CASE m.t = "DISCONNECT"
  <2>1. UNCHANGED <<toCli, srv>> /\ sock' = "down"
    BY <1>4 DEF SrvAnswer
  <2> QED
    BY <1>0, <1>2, <2>1
<1>5. CASE m.t = "REQUEST" /\ ~srv.auth
  <2>1. PICK a \in Outcomes(m.p), b \in BOOLEAN :
          /\ toCli' = toCli \o SrvSeals((IF b THEN <<<<"BANNER", 0>>>> ELSE <<>>)
                                        \o <<<<a, m.p.id>>>>, srv.out, srv.auth)
          /\ srv' = [srv EXCEPT
                       !.todo = Tail(@), !.bannered = @ \/ b,
                       !.auth = a = "SUCCESS",
                       !.accepted = IF a = "SUCCESS" THEN m.p.id ELSE @,
                       !.refused = IF a = "FAILURE" THEN @ \cup {m.p.id} ELSE @,
                       !.asked = IF a = "M60" THEN @ \cup {m.p.id} ELSE @]
          /\ UNCHANGED sock
    BY <1>5, Zenon DEF SrvAnswer
  <2>2. a \in Answers /\ (a = "M60" => MayAsk(m))
    BY <1>5 DEF Outcomes, Answers, MayAsk
  <2> DEFINE id == m.p.id
             z == <<"BANNER", 0>>
             w == <<a, id>>
             x == IF b THEN <<z>> ELSE <<>>
             ms == x \o <<w>>
             v == SrvSeals(ms, srv.out, srv.auth)
  <2>3. z[1] = "BANNER" /\ w[1] = a /\ w[2] = id
    OBVIOUS
  <2>4. toCli' = toCli \o v
    BY <2>1
  <2> HIDE DEF z, w
  <2>5. /\ IsList(<<w>>) /\ Len(<<w>>) = 1 /\ <<w>>[1] = w
        /\ IsList(x) /\ \A i \in 1..Len(x) : x[i] = z
    BY ShortLists
  <2> HIDE DEF x
  <2>6. IsList(ms) /\ \A i \in 1..Len(ms) : ms[i] = z \/ (i = Len(ms) /\ ms[i] = w)
    <3>1. /\ Len(x) \in Nat /\ Len(ms) = Len(x) + 1 /\ IsList(ms)
          /\ (\A i \in 1..Len(x) : ms[i] = x[i]) /\ ms[Len(x) + 1] = w
      BY <2>5, Joined, ListLen
    <3>2. \A i \in 1..Len(ms) : i \in 1..Len(x) \/ (i = Len(x) + 1 /\ i = Len(ms))
      BY <3>1
    <3> QED
      BY <2>5, <3>1, <3>2
  <2> HIDE DEF ms
  <2>7. /\ IsList(v)
        /\ \A i \in 1..Len(v) : \/ v[i].t = "BANNER"
                                \/ i = Len(v) /\ v[i].t = a /\ v[i].p = id
    BY <2>3, <2>6, Sealed
  <2>8. /\ srv'.todo = Tail(srv.todo) /\ srv'.phase = srv.phase /\ srv'.n = srv.n
        /\ srv'.auth = (a = "SUCCESS") /\ (a = "SUCCESS" => srv'.accepted = id)
        /\ srv.refused \subseteq srv'.refused /\ (a = "FAILURE" => id \in srv'.refused)
        /\ srv.asked \subseteq srv'.asked /\ (a = "M60" => id \in srv'.asked)
    <3> HIDE DEF m
    <3> QED
      BY <1>t, <2>1 DEF Types, SrvFields
  <2>9. /\ sock' = sock /\ Head(srv.todo).t = "REQUEST" /\ ~srv.auth /\ id = Head(srv.todo).p.id
        /\ a = "M60" => MayAsk(Head(srv.todo))
    BY <1>5, <2>1, <2>2
  <2> HIDE DEF v, m, id
  <2>10. Answered(a, id, v)
    BY <1>0, <2>2, <2>4, <2>7, <2>8, <2>9 DEF Answered
  <2> QED
    BY <1>0, <2>9, <2>10, AnswerVerdict
<1>6. CASE m.t \notin {"SERVICE_REQUEST", "DISCONNECT"} /\ ~(m.t = "REQUEST" /\ ~srv.auth)
  <2>1. srv' = [srv EXCEPT !.todo = Tail(@)] /\ UNCHANGED <<toCli, sock>>
    BY <1>6, Zenon DEF SrvAnswer
  <2> HIDE DEF m
  <2> QED
    BY <1>t, <1>0, <1>2, <2>1 DEF Types, SrvFields
<1> QED
  BY <1>3, <1>4, <1>5, <1>6

LEMMA LostVerdict ==
  ASSUME Types, VerdictInv, ClientRests, UNCHANGED <<toCli, toSrv, srv>>, sock' \in {sock, "down"}
  PROVE  VerdictInv'
<1>1. Longer(toCli, toCli') /\ Handles
  BY MinorNone DEF Types, Handles, Part
<1> QED
  BY <1>1, ServedVerdict

-----------------------------------------------------------------------------
(* The verdict                                                              *)

LEMMA VerdictInit ==
  ASSUME Init
  PROVE  VerdictInv
<1>0. KexStart(Functions) /\ result = NoResult /\ reqs = 0 /\ own = [f \in Functions |-> 0]
  BY DEF Init
<1>1. /\ toSrv = <<>> /\ queue = <<>> /\ call = None /\ st = [f \in Functions |-> "idle"]
      /\ srv.todo = <<>> /\ srv.n = 0 /\ srv.phase = "open" /\ ~c.exch /\ ~c.auth /\ ~c.ready
  BY <1>0 DEF KexStart
<1>2. IsList(toCli) /\ \A i \in 1..Len(toCli) : toCli[i].t \notin Major
  <2>1. PICK ms \in {<<<<"SSH", 0>>>>, <<<<"LINE", 0>>, <<"SSH", 0>>>>} :
          toCli = SrvSeals(ms, Plain, FALSE)
    BY <1>0 DEF KexStart
  <2>2. "SSH" \notin Major /\ "LINE" \notin Major
    BY DEF Major, Owing, Answers
  <2>3. Minor(ms)
    BY <2>2, MinorListed
  <2> QED
    BY <2>1, <2>3, MinorSealed, Zenon
<1>3. Len(<<>>) = 0
  BY ShortLists
<1>4. /\ ~Has(toCli, Answers) /\ ~Has(toCli, Owing) /\ ~Has(toCli, {"KEXINIT"})
      /\ \A T : ~Has(<<>>, T) /\ Lone(<<>>, T)
  <2>1. \A T : ~Has(<<>>, T) /\ Lone(<<>>, T)
    BY <1>3 DEF Has, Lone
  <2> QED
    BY <1>2, <2>1 DEF Has, Major, Owing
<1>5. Lone(toCli, {"KEXINIT"}) /\ Lone(toCli, Owing) /\ Ordered(toCli)
  BY <1>4 DEF Has, Lone, Ordered
<1>6. Turns
  BY <1>1, <1>4, <1>5 DEF Turns, Single, NoKexinit, Chose, NotYet, NoAnswer
<1>7. Alone
  BY <1>0, <1>1, Names DEF Alone, Rests, Past, Half
<1>8. Owed
  <2>1. NoneOwed /\ One
    BY <1>1, <1>4, <1>5 DEF NoneOwed, One, Single
  <2>2. OwedBy(queue) /\ OwedBy(toCli) /\ OwedBy(srv.todo) /\ OwedBy(toSrv)
    BY <2>1 DEF NoneOwed, OwedBy, Has
  <2> QED
    BY <2>1, <2>2 DEF Owed
<1>9. Truth
  <2>1. AllTruthful(queue) /\ AllTruthful(toCli)
    BY <1>1, <1>2, <1>3 DEF AllTruthful, Truthful, Major, Owing, Answers
  <2>2. result.rc = None
    BY <1>0 DEF NoResult
  <2>3. \A f \in Methods : ~Asking(f)
    BY <1>1, Names DEF Asking
  <2> QED
    BY <1>1, <2>1, <2>2, <2>3 DEF Truth, TrueVerdict, Refusals, None
<1> QED
  BY <1>6, <1>7, <1>8, <1>9 DEF VerdictInv

LEMMA VerdictStep ==
  ASSUME KexInv, VerdictInv, [Next]_vars, "retry" \notin Troubles, "abandon" \notin Troubles
  PROVE  VerdictInv'
<1>t. Types
  BY DEF KexInv
<1>1. CASE \E f \in Functions : Call(f)
  BY <1>1, CallVerdict
<1>2. CASE StartupStep
  BY <1>2, StartupVerdict
<1>3. CASE KeyExchange
  BY <1>3, KeyExchangeVerdict
<1>4. CASE Authenticate
  BY <1>4, AuthenticateVerdict
<1>5. CASE session_disconnect
  BY <1>5, DisconnectVerdict
<1>6. CASE Environment
  <2>1. UNCHANGED authVars /\ (SrvKexInit \/ SrvRead \/ SrvAnswer \/ ConnectionLost)
    BY <1>6 DEF Environment, Server
  <2>2. CASE ConnectionLost
    BY <1>t, <2>1, <2>2, LostVerdict DEF ConnectionLost, authVars, ClientRests
  <2> QED
    BY <2>1, <2>2, SrvKexInitVerdict, SrvReadVerdict, SrvAnswerVerdict
<1>7. CASE UNCHANGED vars
  BY <1>t, <1>7, LostVerdict DEF vars, kexVars, authVars, ClientRests
<1> QED
  BY <1>1, <1>2, <1>3, <1>4, <1>5, <1>6, <1>7 DEF Next, Finished

(* userauth.c on packet.c's queue: whatever functions the program calls one *)
(* after the other, and however banners, late answers, repeated calls and   *)
(* exchanges of keys fall between, a function that returns success returns  *)
(* what the server decided on that function's own last request.  The code   *)
(* of a refusal is returned for that request's refusal too, or when no      *)
(* decision can come any more: the connection is lost, an exchange of keys  *)
(* has failed, or the server asked for a password or a signature and the    *)
(* program gave none (the code returns the same codes for these).  And the  *)
(* session believes itself logged in only when the server does.  Two        *)
(* programs are left out: one that repeats a failed handshake,              *)
(* and one that drops a function that returned EAGAIN and calls another     *)
(* (which takes the answer to the first one's request for its own).         *)
THEOREM VerdictsAreTrue ==
  ASSUME "retry" \notin Troubles, "abandon" \notin Troubles
  PROVE  Spec => []TrueVerdict
<1>1. Init => VerdictInv
  BY VerdictInit
<1>2. KexInv /\ VerdictInv /\ [Next]_vars => VerdictInv'
  BY VerdictStep
<1>3. VerdictInv => TrueVerdict
  BY DEF VerdictInv, Truth
<1>4. Spec => []KexInv
  BY InvAlways
<1> QED
  BY <1>1, <1>2, <1>3, <1>4, PTL DEF Spec
=============================================================================
