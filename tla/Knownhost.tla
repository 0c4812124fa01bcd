----------------------------- MODULE Knownhost -----------------------------
(***************************************************************************)
(* The collection of known hosts (src/libssh2/src/knownhost.c): entries    *)
(* are added, read from the lines of a file, deleted, written to a         *)
(* file, and a host key is checked against them.                           *)
(*                                                                         *)
(* An entry has a host name, plain or as the hash of a salt and the name,  *)
(* or of a custom kind; a key type, a key, perhaps a comment.  A line of a *)
(* file is what the parser tells apart: the first field (names separated   *)
(* by commas, or a hash) and the words after it.  A word is a string; the  *)
(* words of an RSA1 key begin with a number.                               *)
(***************************************************************************)
EXTENDS Integers, Sequences, FiniteSets, SequencesExt

CONSTANTS
  KhHosts,       \* host names
  KhShort,       \* those of at most two characters
  KhKeys,        \* keys: words
  KhMax,         \* bound on the entries of the collection
  KhFormats      \* entries beyond the plain and hashed ones with a known
                 \* key type

(* Words whose length the parser refuses: a name of 255 characters or      *)
(* more, a salt of 31 or more, a key that makes no 20 with its type.       *)
Long == "long"
LongSalt == "longsalt"
Tiny == "tiny"

ASSUME KhAssumption ==
  /\ KhShort \subseteq KhHosts /\ Long \notin KhHosts /\ Tiny \notin KhKeys
  /\ KhMax \in Nat
  /\ KhFormats \subseteq {"custom", "rsa1comment", "rsa1raw", "short", "unnamed",
                         "long", "longsalt", "tiny"}

VARIABLES
  hosts,     \* the collection: a sequence of entries
  file,      \* the known_hosts file: a sequence of lines
  saved,     \* the collection the file was written from
  khState    \* "edited", "written", "broken" (writefile failed), "reading"
             \* (in readfile), "loaded" or "refused" (readfile failed)

khVars == <<hosts, file, saved, khState>>

None == "nil"
NoComment == <<"nil">>

(* The names as words: plain, or as the hash hides them.  A port makes a   *)
(* name of its own, "[host]:port".                                         *)
Plain(h) == [hash |-> None, name |-> h, port |-> 0]
Ported(h, p) == [hash |-> None, name |-> h, port |-> p]
Hashed(salt, n) == [hash |-> salt, name |-> n.name, port |-> n.port]

(* The key types: the ones with a name of their own and RSA1, which has    *)
(* none; a type the code does not know keeps its name in the entry.        *)
NamedTypes == {"ssh-rsa", "ssh-ed25519"}
KeyTypes == NamedTypes \cup {"rsa1", "unknown"}

Entry(type, n, kt, ktname, k, c) ==
  [type |-> type, name |-> n, keytype |-> kt, typename |-> ktname,
   key |-> k, comment |-> c]

(* The words of an RSA1 key that is given as text begin with a number.  A  *)
(* raw key is one word of base64, whatever its type.                       *)
KeyWords(kt, k) == IF kt = "rsa1" THEN <<"bits", k>> ELSE <<k>>

Comments == {NoComment, <<>>, <<"comment">>}

(* The entries that are added: ordinary ones, and those of the formats     *)
(* that do not survive a file.                                             *)
Names == {Plain(h) : h \in KhHosts \ KhShort} \cup {Ported(h, 22) : h \in KhHosts}

Ordinary ==
  {Entry("plain", n, kt, None, KeyWords(kt, k), c) :
     n \in Names, kt \in NamedTypes, k \in KhKeys, c \in Comments}
  \cup {Entry("sha1", Hashed("salt", n), kt, None, KeyWords(kt, k), NoComment) :
          n \in Names, kt \in {"ssh-rsa"}, k \in KhKeys}
  \cup {Entry("plain", n, "rsa1", None, KeyWords("rsa1", k), NoComment) :
          n \in Names, k \in KhKeys}

Lossy ==
  LET long == KhHosts \ KhShort
      like(type, hs, kt, c) ==
        {Entry(type, Plain(h), kt, None, KeyWords(kt, k), c) : h \in hs, k \in KhKeys}
      given(type, n, kt, k) == Entry(type, n, kt, None, <<k>>, NoComment)
  IN  [custom      |-> like("custom", long, "ssh-rsa", NoComment),
       rsa1comment |-> like("plain", long, "rsa1", <<"comment">>),
       rsa1raw     |-> {given("plain", Plain(h), "rsa1", k) : h \in long, k \in KhKeys},
       short       |-> like("plain", KhShort, "ssh-rsa", NoComment),
       unnamed     |-> like("plain", long, "unknown", NoComment),
       long        |-> like("plain", {Long}, "ssh-rsa", NoComment),
       longsalt    |-> {given("sha1", Hashed(LongSalt, Plain(h)), "ssh-rsa", k) :
                          h \in long, k \in KhKeys},
       tiny        |-> {given("plain", Plain(h), "ssh-rsa", Tiny) : h \in long}]

Addable == Ordinary \cup UNION {Lossy[f] : f \in KhFormats}

----------------------------------------------------------------------------
(* knownhost_check()                                                       *)

(* The name of an entry against the name that is looked for: a hash is     *)
(* made of the latter where the entry holds one.                           *)
NameMatches(e, type, n) ==
  \/ e.type \in {"plain", "custom"} /\ type = e.type /\ e.name = n
  \/ e.type = "sha1" /\ type = "plain" /\ e.name = Hashed(e.name.hash, n)

(* No type given matches every type; an unknown type matches none.         *)
TypeMatches(e, kt) == kt # "unknown" /\ (kt = None \/ kt = e.keytype)

(* One pass over the list: it ends at the first entry with the key, and    *)
(* otherwise remembers the first one with another key.                     *)
Pass(hs, type, n, kt, k) ==
  [match |-> SelectInSeq(hs, LAMBDA e : /\ NameMatches(e, type, n)
                                        /\ TypeMatches(e, kt) /\ e.key = k),
   bad   |-> SelectInSeq(hs, LAMBDA e : /\ NameMatches(e, type, n)
                                        /\ TypeMatches(e, kt) /\ e.key # k)]

(* A bug: the name with the port is never looked for.                      *)
LateCheck(hs, type, h, port, kt, k) ==
  LET p == Pass(hs, type, Plain(h), kt, k)
  IN  IF p.match # 0 THEN [rc |-> "match", at |-> p.match]
      ELSE IF p.bad # 0 THEN [rc |-> "mismatch", at |-> p.bad]
      ELSE [rc |-> "notfound", at |-> 0]

(* With a port the name with the port is looked for first, then, unless a  *)
(* match was found, the plain one; the first bad key is reported when      *)
(* there is no match.                                                      *)
Check(hs, type, h, port, kt, k) ==
  LET p1 == Pass(hs, type, IF port = 0 THEN Plain(h) ELSE Ported(h, port), kt, k)
      p2 == IF port = 0 \/ p1.match # 0 THEN p1 ELSE Pass(hs, type, Plain(h), kt, k)
      bad == IF p1.bad # 0 THEN p1.bad ELSE p2.bad
  IN  IF p2.match # 0 THEN [rc |-> "match", at |-> p2.match]
      ELSE IF bad # 0 THEN [rc |-> "mismatch", at |-> bad]
      ELSE [rc |-> "notfound", at |-> 0]

----------------------------------------------------------------------------
(* Writing: knownhost_writeline()                                          *)

Writable(e) == e.keytype # "unknown" \/ e.typename # None

Line(e) ==
  [field |-> [hash |-> e.type = "sha1", names |-> <<e.name>>],
   words |-> (CASE e.keytype = "rsa1"    -> <<>>
                [] e.keytype = "unknown" -> <<e.typename>>
                [] OTHER                 -> <<e.keytype>>)
             \o e.key \o (IF e.comment = NoComment THEN <<>>
                          ELSE IF e.comment = <<>> THEN <<"">> ELSE e.comment)]

(* The collection is changed: the model forgets the file, which is then    *)
(* out of date.                                                            *)
Edited ==
  /\ khState # "reading" /\ khState' = "edited"
  /\ file' = <<>> /\ saved' = <<>>

(* libssh2_knownhost_writefile(): the first entry that cannot be written   *)
(* ends the file.                                                          *)
WriteFile ==
  /\ khState = "edited"
  /\ LET bad == SelectInSeq(hosts, LAMBDA e : ~Writable(e))
         n   == IF bad = 0 THEN Len(hosts) ELSE bad - 1
     IN  /\ file' = [i \in 1..n |-> Line(hosts[i])]
         /\ khState' = IF bad = 0 THEN "written" ELSE "broken"
  /\ saved' = hosts
  /\ UNCHANGED hosts

----------------------------------------------------------------------------
(* Reading: libssh2_knownhost_readline(), hostline()                       *)

(* A bug: the comment is taken for a part of the key.                      *)
GreedyParseKey(ws) ==
  IF ws[1] = "bits"
  THEN [keytype |-> "rsa1", typename |-> None, key |-> ws, comment |-> NoComment]
  ELSE [keytype |-> IF ws[1] \in NamedTypes THEN ws[1] ELSE "unknown",
        typename |-> IF ws[1] \in NamedTypes THEN None ELSE ws[1],
        key |-> Tail(ws), comment |-> NoComment]

(* The key part of a line: a number is the beginning of an RSA1 key, which *)
(* takes the rest of the line; else a type, a key, perhaps empty, and a    *)
(* comment.                                                                *)
ParseKey(ws) ==
  IF ws[1] = "bits"
  THEN [keytype |-> "rsa1", typename |-> None, key |-> ws, comment |-> NoComment]
  ELSE [keytype |-> IF ws[1] \in NamedTypes THEN ws[1] ELSE "unknown",
        typename |-> IF ws[1] \in NamedTypes THEN None ELSE ws[1],
        key |-> IF Len(ws) = 1 THEN <<>> ELSE <<ws[2]>>,
        comment |-> IF Len(ws) <= 2 THEN NoComment
                    ELSE IF ws[3] = "" THEN <<>> ELSE SubSeq(ws, 3, Len(ws))]

(* oldstyle_hostline() adds the names from the last to the first;          *)
(* hashed_hostline() adds one entry.  A single name of at most two         *)
(* characters is taken for a hash, has no salt, and adds nothing.          *)
Entries(l) ==
  LET k == ParseKey(l.words)
      e(type, n) == Entry(type, n, k.keytype, k.typename, k.key, k.comment)
      ns == l.field.names
  IN  IF l.field.hash THEN <<e("sha1", ns[1])>>
      ELSE IF Len(ns) = 1 /\ ns[1].port = 0 /\ ns[1].name \in KhShort THEN <<>>
      ELSE Reverse([i \in 1..Len(ns) |-> e("plain", ns[i])])

(* A line of blanks or a comment: no name, no word.                        *)
Remark == [field |-> [hash |-> FALSE, names |-> <<>>], words |-> <<>>]

(* The lines that end in an error: a name without a key, a key that is too *)
(* short, a name or a salt that is too long.                               *)
TooShort(ws) == ws = <<>> \/ (Len(ws) = 2 /\ ws[2] = Tiny)
TooLong(n) == n.name = Long \/ n.hash = LongSalt
Refused(l) ==
  /\ l # Remark
  /\ TooShort(l.words) \/ \E i \in DOMAIN l.field.names : TooLong(l.field.names[i])

(* What a line adds.  The names behind the one that is too long were added *)
(* before it was met.                                                      *)
Fits(l) ==
  IF TooShort(l.words) THEN 0
  ELSE Len(l.field.names) - SelectLastInSeq(l.field.names, TooLong)
Adds(l) ==
  IF Refused(l) THEN [i \in 1..Fits(l) |-> Entries(l)[i]] ELSE Entries(l)

ReadLine(l) ==
  /\ Len(hosts) + Len(l.field.names) <= KhMax
  /\ hosts' = hosts \o Adds(l)
  /\ Edited

(* libssh2_knownhost_readfile() into a new collection: it opens the file,  *)
(* reads one line after the other, of which file keeps the rest, to the    *)
(* end or to a line that is refused, and closes it.                        *)
OpenFile ==
  /\ khState = "written"
  /\ hosts' = <<>> /\ khState' = "reading"
  /\ UNCHANGED <<file, saved>>

NextLine ==
  /\ khState = "reading" /\ file # <<>>
  /\ hosts' = hosts \o Adds(Head(file))
  /\ file' = Tail(file)
  /\ khState' = IF Refused(Head(file)) THEN "refused" ELSE "reading"
  /\ UNCHANGED saved

CloseFile ==
  /\ khState = "reading" /\ file = <<>>
  /\ khState' = "loaded"
  /\ UNCHANGED <<hosts, file, saved>>

ReadFile == OpenFile \/ NextLine \/ CloseFile

----------------------------------------------------------------------------
(* Adding and deleting                                                     *)

Add(e) ==
  /\ Len(hosts) < KhMax
  /\ hosts' = Append(hosts, e)
  /\ Edited

(* libssh2_knownhost_del().                                                *)
Del(i) ==
  /\ i \in 1..Len(hosts)
  /\ hosts' = RemoveAt(hosts, i)
  /\ Edited

----------------------------------------------------------------------------
(* Lines of a file somebody else wrote: several names, a type this code    *)
(* does not know, remarks, and lines that are refused.                     *)
ForeignLines ==
  LET line(ns, ws) == [field |-> [hash |-> FALSE, names |-> ns], words |-> ws]
      hs == KhHosts \ KhShort
  IN  {line(<<Plain(h), Ported(h, 22)>>, <<t, k>>) :
         h \in hs, t \in {"ssh-rsa", "ssh-other"}, k \in KhKeys}
      \cup {line(<<Plain(Long), Plain(h)>>, <<"ssh-rsa", k>>) : h \in hs, k \in KhKeys}
      \cup {line(<<Plain(h)>>, ws) : h \in hs, ws \in {<<>>, <<"ssh-rsa", Tiny>>}}
      \cup {Remark}

KhInit ==
  /\ hosts = <<>> /\ file = <<>> /\ saved = <<>>
  /\ khState = "edited"

KhNext ==
  \/ \E e \in Addable : Add(e)
  \/ \E l \in ForeignLines : ReadLine(l)
  \/ \E i \in 1..KhMax : Del(i)
  \/ WriteFile \/ ReadFile

KhSpec == KhInit /\ [][KhNext]_khVars

----------------------------------------------------------------------------
Queries == {[type |-> "plain", host |-> h, port |-> p, kt |-> kt, key |-> k] :
              h \in KhHosts \cup {Long}, p \in {0, 22}, kt \in {None} \cup KeyTypes,
              k \in {<<x>> : x \in KhKeys} \cup {<<"bits", x>> : x \in KhKeys}}

Answer(hs, q) == Check(hs, q.type, q.host, q.port, q.kt, q.key).rc

(* The verdict, said without the list: a match if some entry for the name, *)
(* with or without the port, has the key; a mismatch if there are only     *)
(* entries with other keys; not found if there is none.                    *)
Meaning(hs, q) ==
  LET names == {Plain(q.host)} \cup (IF q.port = 0 THEN {} ELSE {Ported(q.host, q.port)})
      mine  == {i \in DOMAIN hs : TypeMatches(hs[i], q.kt) /\
                  \E n \in names : NameMatches(hs[i], q.type, n)}
  IN  IF \E i \in mine : hs[i].key = q.key THEN "match"
      ELSE IF mine # {} THEN "mismatch" ELSE "notfound"

(* A check gives the verdict the collection means, whatever the order of   *)
(* its entries: a mismatch on "[host]:port" does not hide a match on the   *)
(* plain name, nor the other way round.                                    *)
VerdictIsMeant == \A q \in Queries : Answer(hosts, q) = Meaning(hosts, q)

(* A collection that was written to a file and read back gives every check *)
(* the verdict it gave before: no name, type, key or comment is lost or    *)
(* changed on the way, and no line that was written is refused.            *)
FileKeepsVerdicts ==
  khState \in {"loaded", "refused"} =>
    \A q \in Queries : Answer(hosts, q) = Answer(saved, q)

============================================================================
