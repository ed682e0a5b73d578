------------------------- MODULE DeliveryKeptProofs -------------------------
(***************************************************************************)
(* The types of sealed files on their way, for any contents, names, calls  *)
(* and changes; that `win seal` keeps the containers it finds, that what   *)
(* it answered with success verifies where it arrives and where it was     *)
(* published, and that what failed or died half way reads as damaged.      *)
(***************************************************************************)
EXTENDS DeliveryProofs

Box ==
    [magic : BOOLEAN, name : {Sanitize(n) : n \in Names}, file_len : Nat,
     tail : Seq(Bytes), have : Nat]

\* A container with nothing behind its end, and one that is all there.
Good(c) == c \in Box /\ c.have <= Size(c)

Complete(c) == c \in Box /\ c.have = Size(c)

\* Names, contents and proof texts are what a container is made of.
LEMMA NameFacts ==
    ASSUME NEW n \in Names
    PROVE  /\ IsName(n)
           /\ Sanitize(n) \in {Sanitize(m) : m \in Names}
           /\ Sanitize(n).len = n.len /\ Sanitize(n).dir_len = 0 /\ n.len \in Nat
  BY DataAssumption DEF IsName, Sanitize

\* A name that is sanitized stays as it is.
LEMMA SanitizedTwice ==
    ASSUME NEW n \in {Sanitize(m) : m \in Names}
    PROVE  Sanitize(n) = n /\ IsName(n) /\ n.dir_len = 0 /\ n.len \in Nat
<1>1. PICK m \in Names : n = Sanitize(m)
  OBVIOUS
<1>2. m \in [dir_len : Nat, len : Nat, nul : BOOLEAN, base : {m.base}]
  BY DataAssumption
<1>3. n = [dir_len |-> 0, len |-> m.len, nul |-> m.nul, base |-> m.base]
  BY <1>1, <1>2 DEF Sanitize
<1> QED
  BY <1>2, <1>3 DEF Sanitize, IsName

\* The contents of files are tokens.
LEMMA ContentBytes ==
    ASSUME NEW f \in Contents
    PROVE  f \in Seq(Bytes) /\ Len(f) \in Nat
<1>1. {f[i] : i \in DOMAIN f} \subseteq Bytes
  BY DEF Bytes
<1>2. f \in Seq({f[i] : i \in DOMAIN f})
  BY DataAssumption
<1> QED
  BY <1>1, <1>2, SeqMonotonic, LenProperties

\* Sequences that are spelled out.
LEMMA Spelled ==
    ASSUME NEW S, NEW s1 \in S, NEW s2 \in S, NEW s3 \in S, NEW s4 \in S, NEW s5 \in S,
           NEW s6 \in S, NEW s7 \in S
    PROVE  <<s1, s2, s3, s4, s5, s6, s7>> \in Seq(S)
  OBVIOUS

LEMMA SpelledOne ==
    ASSUME NEW S, NEW s \in S
    PROVE  <<s>> \in Seq(S) /\ Len(<<s>>) = 1
  OBVIOUS

\* The text of a proof is a sequence of tokens, and not empty.
LEMMA TextBytes ==
    ASSUME NEW id \in Ids
    PROVE  Text(id) \in Seq(Bytes) /\ Len(Text(id)) \in Nat \ {0}
<1> DEFINE head == <<"{", Quote, Escape, Quote, "}", Quote, id>>
           zero == IF id \in Longer THEN <<"0">> ELSE <<>>
<1>1. {"{", "}", Quote, Escape, "0", id} \subseteq Bytes
  BY DEF Bytes
<1>2. head \in Seq(Bytes)
  BY <1>1, Spelled
<1>3. zero \in Seq(Bytes)
  BY <1>1, SpelledOne, EmptySeq
<1>4. <<"}">> \in Seq(Bytes) /\ Len(<<"}">>) = 1
  BY <1>1, SpelledOne
<1>5. Text(id) = head \o zero \o <<"}">>
  BY DEF Text
<1> HIDE DEF head, zero
<1>6. head \o zero \in Seq(Bytes)
  BY <1>2, <1>3, ConcatProperties
<1>7. /\ (head \o zero) \o <<"}">> \in Seq(Bytes)
      /\ Len((head \o zero) \o <<"}">>) = Len(head \o zero) + Len(<<"}">>)
  BY <1>4, <1>6, ConcatProperties, Zenon
<1>8. Len(head \o zero) \in Nat
  BY <1>6, LenProperties
<1> DEFINE text == (head \o zero) \o <<"}">>
           n    == Len(head \o zero)
<1>9. text \in Seq(Bytes) /\ Len(text) = n + 1 /\ n \in Nat /\ Text(id) = text
  BY <1>4, <1>5, <1>7, <1>8, Zenon
<1> HIDE DEF text, n
<1> QED
  BY <1>9

\* A sequence and one token more.
LEMMA OneMore ==
    ASSUME NEW S, NEW s \in Seq(S), NEW x \in S
    PROVE  /\ s \o <<x>> \in Seq(S) /\ Len(s \o <<x>>) = Len(s) + 1
           /\ (s \o <<x>>)[Len(s) + 1] = x
           /\ \A i \in 1 .. Len(s) : (s \o <<x>>)[i] = s[i]
  OBVIOUS

\* What the text of a proof is made of.
LEMMA TextTokens ==
    ASSUME NEW id \in Ids
    PROVE  LET t == Text(id) IN
           /\ Len(t) = IF id \in Longer THEN 9 ELSE 8
           /\ t[1] = "{" /\ t[2] = Quote /\ t[3] = Escape /\ t[4] = Quote
           /\ t[5] = "}" /\ t[6] = Quote /\ t[7] = id
           /\ id \in Longer => t[8] = "0"
           /\ t[Len(t)] = "}"
<1> DEFINE head == <<"{", Quote, Escape, Quote, "}", Quote, id>>
           spelt(s) == /\ s[1] = "{" /\ s[2] = Quote /\ s[3] = Escape /\ s[4] = Quote
                       /\ s[5] = "}" /\ s[6] = Quote /\ s[7] = id
<1>1. {"{", "}", Quote, Escape, "0", id} \subseteq Bytes
  BY DEF Bytes
<1>2. head \in Seq(Bytes)
  BY <1>1, Spelled
<1>3. Len(head) = 7 /\ spelt(head)
  OBVIOUS
<1>4. Text(id) = IF id \in Longer THEN (head \o <<"0">>) \o <<"}">> ELSE (head \o <<>>) \o <<"}">>
  BY DEF Text
<1> HIDE DEF head
<1>5. ASSUME NEW s, \A i \in 1 .. 7 : s[i] = head[i]
      PROVE  spelt(s)
  <2>1. \A i \in {1, 2, 3, 4, 5, 6, 7} : i \in 1 .. 7
    OBVIOUS
  <2>2. \A i \in {1, 2, 3, 4, 5, 6, 7} : s[i] = head[i]
    BY <1>5, <2>1, Zenon
  <2>3. /\ s[1] = head[1] /\ s[2] = head[2] /\ s[3] = head[3] /\ s[4] = head[4]
        /\ s[5] = head[5] /\ s[6] = head[6] /\ s[7] = head[7]
    BY <2>2, Zenon
  <2> QED
    BY <1>3, <2>3, Zenon
<1>6. "{" \in Bytes /\ "}" \in Bytes /\ "0" \in Bytes
  BY <1>1
<1> HIDE DEF spelt
<1>7. CASE id \in Longer
  <2>1. PICK h : h = head \o <<"0">>
    OBVIOUS
  <2>2. /\ h \in Seq(Bytes) /\ Len(h) = Len(head) + 1 /\ h[Len(head) + 1] = "0"
        /\ \A i \in 1 .. Len(head) : h[i] = head[i]
    BY <1>2, <1>6, <2>1, OneMore, Zenon
  <2>3. h \in Seq(Bytes) /\ Len(h) = 8 /\ h[8] = "0" /\ \A i \in 1 .. 7 : h[i] = head[i]
    BY <1>3, <2>2
  <2>2a. h \in Seq(Bytes)
    BY <2>2
  <2>4. PICK t : t = h \o <<"}">>
    OBVIOUS
  <2>5. /\ t \in Seq(Bytes) /\ Len(t) = Len(h) + 1 /\ t[Len(h) + 1] = "}"
        /\ \A i \in 1 .. Len(h) : t[i] = h[i]
    BY <1>6, <2>2a, <2>4, OneMore, Zenon
  <2>6. Len(t) = 9 /\ t[9] = "}" /\ \A i \in 1 .. 8 : t[i] = h[i]
    <3>1. Len(h) + 1 = 9
      BY <2>3
    <3> QED
      BY <2>3, <2>5, <3>1, Zenon
  <2>7. t[8] = "0" /\ \A i \in 1 .. 7 : t[i] = head[i]
    <3>1. 8 \in 1 .. 8 /\ \A i \in 1 .. 7 : i \in 1 .. 8
      OBVIOUS
    <3> QED
      BY <2>3, <2>6, <3>1, Zenon
  <2>8. Text(id) = t
    BY <1>4, <1>7, <2>1, <2>4
  <2>9. spelt(t)
    BY <1>5, <2>7
  <2> QED
    BY <1>7, <2>6, <2>7, <2>8, <2>9 DEF spelt
<1>8. CASE id \notin Longer
  <2>1. head \o <<>> = head
    BY <1>2, ConcatEmptySeq
  <2>2. PICK t : t = head \o <<"}">>
    OBVIOUS
  <2>3. /\ t \in Seq(Bytes) /\ Len(t) = Len(head) + 1 /\ t[Len(head) + 1] = "}"
        /\ \A i \in 1 .. Len(head) : t[i] = head[i]
    BY <1>2, <1>6, <2>2, OneMore, Zenon
  <2>4. Len(t) = 8 /\ t[8] = "}" /\ \A i \in 1 .. 7 : t[i] = head[i]
    <3>1. Len(head) + 1 = 8
      BY <1>3
    <3> QED
      BY <1>3, <2>3, <3>1, Zenon
  <2>5. Text(id) = t
    BY <1>4, <1>8, <2>1, <2>2
  <2>6. spelt(t)
    BY <1>5, <2>4
  <2> QED
    BY <1>8, <2>4, <2>5, <2>6 DEF spelt
<1> QED
  BY <1>7, <1>8

\* The places of a scan: in the object, in a string of it, behind an escape
\* there, and behind the object.
Inside  == [depth |-> 1, in_string |-> FALSE, escape |-> FALSE, failed |-> FALSE]
Quoted  == [depth |-> 1, in_string |-> TRUE, escape |-> FALSE, failed |-> FALSE]
Escaped == [depth |-> 1, in_string |-> TRUE, escape |-> TRUE, failed |-> FALSE]
Behind  == [depth |-> 0, in_string |-> FALSE, escape |-> FALSE, failed |-> FALSE]

\* How the scan goes from one to the other.
LEMMA ScanGoes ==
    /\ Scan(ScanStart, "{") = Inside
    /\ Scan(Inside, Quote) = Quoted
    /\ \A b : b \notin {Quote} \cup Opening \cup Closing => Scan(Inside, b) = Inside
    /\ Scan(Quoted, Escape) = Escaped
    /\ \A b : b \notin {Quote, Escape} => Scan(Quoted, b) = Quoted
    /\ Scan(Quoted, Quote) = Inside
    /\ \A b : Scan(Escaped, b) = Quoted
    /\ Scan(Inside, "}") = Behind
<1> USE DEF Scan, Inside, Quoted, Escaped, Behind, Quote, Escape, Opening, Closing
<1>1. Scan(ScanStart, "{") = Inside
  <2>1. Scan(ScanStart, "{") = [ScanStart EXCEPT !.depth = 0 + 1]
    BY DEF ScanStart
  <2>2. 0 + 1 = 1
    OBVIOUS
  <2>3. Scan(ScanStart, "{") = [ScanStart EXCEPT !.depth = 1]
    BY <2>1, <2>2
  <2> QED
    BY <2>3 DEF ScanStart
<1>2. Scan(Inside, Quote) = Quoted
  OBVIOUS
<1>3. ASSUME NEW b, b \notin {Quote} \cup Opening \cup Closing
      PROVE  Scan(Inside, b) = Inside
  BY <1>3
<1>4. Scan(Quoted, Escape) = Escaped
  OBVIOUS
<1>5. ASSUME NEW b, b \notin {Quote, Escape}
      PROVE  Scan(Quoted, b) = Quoted
  BY <1>5
<1>6. Scan(Quoted, Quote) = Inside
  OBVIOUS
<1>7. ASSUME NEW b
      PROVE  Scan(Escaped, b) = Quoted
  OBVIOUS
<1>8. Scan(Inside, "}") = Behind
  <2>1. Scan(Inside, "}") = [Inside EXCEPT !.depth = 1 - 1, !.failed = (1 = 0)]
    OBVIOUS
  <2>2. 1 - 1 = 0 /\ (1 = 0) = FALSE
    OBVIOUS
  <2>3. Scan(Inside, "}") = [Inside EXCEPT !.depth = 0, !.failed = FALSE]
    BY <2>1, <2>2
  <2> QED
    BY <2>3
<1> QED
  BY <1>1, <1>2, <1>3, <1>4, <1>5, <1>6, <1>7, <1>8 DEF Scan

(***************************************************************************)
(* The text of a proof is a JSON object: its bracket closes with its last  *)
(* token and not before, whatever stands in its strings.                   *)
(***************************************************************************)
LEMMA TextBalances ==
    ASSUME NEW id \in Ids
    PROVE  /\ BracketsBalanced(Text(id))
           /\ \A k \in 1 .. Len(Text(id)) - 1 : ~ BracketsBalanced(SubSeq(Text(id), 1, k))
<1> DEFINE t == Text(id)
           n == Len(t)
           at == ScanOf(t)
<1>1. n = (IF id \in Longer THEN 9 ELSE 8) /\ t \in Seq(Bytes)
  BY TextTokens, TextBytes
<1>2. at[0] = ScanStart /\ \A i \in 1 .. n : at[i] = Scan(at[i - 1], t[i])
  BY <1>1, ScanOfText
<1>3. /\ t[1] = "{" /\ t[2] = Quote /\ t[3] = Escape /\ t[4] = Quote
      /\ t[5] = "}" /\ t[6] = Quote /\ t[7] = id
      /\ id \in Longer => t[8] = "0"
      /\ t[n] = "}"
  BY TextTokens
<1>4. /\ "}" \notin {Quote, Escape} /\ "0" \notin {Quote} \cup Opening \cup Closing
      /\ id \notin {Quote} \cup Opening \cup Closing
  BY DeliveryAssumption DEF Quote, Escape, Opening, Closing
<1> HIDE DEF t, at
<1>5. \A i \in 1 .. 7 : i \in 1 .. n
  BY <1>1
<1>6. /\ at[1] = Scan(at[0], t[1]) /\ at[2] = Scan(at[1], t[2]) /\ at[3] = Scan(at[2], t[3])
      /\ at[4] = Scan(at[3], t[4]) /\ at[5] = Scan(at[4], t[5]) /\ at[6] = Scan(at[5], t[6])
      /\ at[7] = Scan(at[6], t[7])
  <2>1. \A i \in 1 .. 7 : at[i] = Scan(at[i - 1], t[i])
    BY <1>2, <1>5
  <2> QED
    BY <2>1
<1>7. at[1] = Inside /\ at[2] = Quoted /\ at[3] = Escaped
  <2>1. at[1] = Inside
    BY <1>2, <1>3, <1>6, ScanGoes, Zenon
  <2>2. at[2] = Quoted
    BY <1>3, <1>6, <2>1, ScanGoes, Zenon
  <2> QED
    BY <1>3, <1>6, <2>1, <2>2, ScanGoes, Zenon
<1>8. at[4] = Quoted /\ at[5] = Quoted /\ at[6] = Inside
  <2>1. at[4] = Scan(Escaped, t[4])
    BY <1>6, <1>7
  <2>2. at[4] = Quoted
    BY <2>1, ScanGoes, Zenon
  <2>3. at[5] = Scan(Quoted, "}")
    BY <1>3, <1>6, <2>2
  <2>4. at[5] = Quoted
    BY <1>4, <2>3, ScanGoes, Zenon
  <2>5. at[6] = Scan(Quoted, Quote)
    BY <1>3, <1>6, <2>4
  <2>6. at[6] = Inside
    BY <2>5, ScanGoes, Zenon
  <2> QED
    BY <2>2, <2>4, <2>6
<1>9. at[7] = Inside
  <2>1. at[7] = Scan(Inside, id)
    BY <1>3, <1>6, <1>8
  <2> QED
    BY <1>4, <2>1, ScanGoes, Zenon
<1>10. id \in Longer => at[8] = Inside
  <2>1. id \in Longer => at[8] = Scan(at[7], t[8])
    BY <1>1, <1>2
  <2>2. id \in Longer => at[8] = Scan(Inside, "0")
    BY <1>3, <1>9, <2>1
  <2> QED
    BY <1>4, <2>2, ScanGoes, Zenon
<1>11. at[n] = Behind
  <2>1. at[n - 1] = Inside
    BY <1>1, <1>9, <1>10
  <2>2. at[n] = Scan(at[n - 1], t[n])
    BY <1>1, <1>2
  <2> QED
    BY <1>3, <2>1, <2>2, ScanGoes, Zenon
<1>12. \A k \in 1 .. n - 1 : at[k] \in {Inside, Quoted, Escaped}
  <2>1. \A k \in 1 .. n - 1 : k \in {1, 2, 3, 4, 5, 6, 7} \/ (k = 8 /\ id \in Longer)
    BY <1>1
  <2> QED
    BY <1>7, <1>8, <1>9, <1>10, <2>1
<1>13. BracketsBalanced(t)
  BY <1>11 DEF BracketsBalanced, at, Behind
<1>14. ASSUME NEW k \in 1 .. n - 1
       PROVE  ~ BracketsBalanced(SubSeq(t, 1, k))
  <2>1. at[k].depth # 0 /\ k \in 0 .. Len(t)
    BY <1>1, <1>12 DEF Inside, Quoted, Escaped
  <2> QED
    BY <1>1, <2>1, OpenBeginning DEF at
<1> QED
  BY <1>13, <1>14 DEF t

\* A packed container is complete, and so is one with another length field.
LEMMA PackComplete ==
    ASSUME NEW n, IsName(n), Sanitize(n) \in {Sanitize(m) : m \in Names},
           NEW f \in Seq(Bytes), NEW text \in Seq(Bytes)
    PROVE  Complete(Pack(n, f, text)) /\ Good(Pack(n, f, text))
<1> DEFINE c == Pack(n, f, text)
<1>1. /\ c.have = Header + n.len + Len(f) + Len(text) /\ Size(c) = c.have
  BY PackedParts
<1>2. f \o text \in Seq(Bytes) /\ Len(f) \in Nat /\ Len(text) \in Nat /\ n.len \in Nat
  BY DEF IsName
<1>3. c \in Box
  BY <1>2 DEF Pack, Box, Header
<1>4. c.have \in Nat
  BY <1>3 DEF Box
<1> QED
  BY <1>1, <1>3, <1>4 DEF Complete, Good

\* What a write of the first k tokens leaves is a container as well.
LEMMA OverGood ==
    ASSUME NEW old, Good(old), NEW new, Complete(new), NEW k \in 0 .. Len(new.tail)
    PROVE  Good(WrittenOver(old, new, k))
<1> DEFINE tail == Over(Present(old), new.tail, k)
<1>1. /\ new.tail \in Seq(Bytes) /\ old.tail \in Seq(Bytes)
      /\ new.name.dir_len = 0 /\ new.name.len \in Nat
      /\ old.name.dir_len = 0 /\ old.name.len \in Nat /\ old.have \in Nat
  BY SanitizedTwice DEF Good, Complete, Box
<1>2. Present(old) \in Seq(Bytes)
  <2>1. old.have - FileStart(old) <= Len(old.tail)
    BY <1>1 DEF Good, Size, FileStart, NameLen, Header
  <2>2. old.have - FileStart(old) \in Int
    BY <1>1 DEF FileStart, NameLen, Header
  <2> QED
    BY <1>1, <2>1, <2>2 DEF Present
<1>3. tail \in Seq(Bytes) /\ Len(tail) \in Nat
  <2>1. SubSeq(new.tail, 1, k) \in Seq(Bytes)
    BY <1>1
  <2>2. SubSeq(Present(old), k + 1, Len(Present(old))) \in Seq(Bytes)
    BY <1>2
  <2> QED
    BY <2>1, <2>2, ConcatProperties, LenProperties DEF Over
<1> HIDE DEF tail
<1>4. WrittenOver(old, new, k) = [new EXCEPT !.tail = tail, !.have = FileStart(new) + Len(tail)]
  BY DEF WrittenOver, tail
<1>5. WrittenOver(old, new, k) \in Box
  <2>1. FileStart(new) + Len(tail) \in Nat
    BY <1>1, <1>3 DEF FileStart, NameLen, Header
  <2> QED
    BY <1>3, <1>4, <2>1 DEF Complete, Box
<1>6. /\ WrittenOver(old, new, k).name = new.name /\ WrittenOver(old, new, k).tail = tail
      /\ WrittenOver(old, new, k).have = FileStart(new) + Len(tail)
  BY <1>4 DEF Complete, Box
<1> QED
  BY <1>1, <1>3, <1>5, <1>6 DEF Good, Size, FileStart, NameLen, Header

\* An empty file is a container of which nothing is there.
LEMMA BlankGood ==
    ASSUME NEW n \in Names
    PROVE  Good(Blank(n))
<1> DEFINE c == Pack(n, <<>>, <<>>)
<1>1. Complete(c)
  <2>1. <<>> \in Seq(Bytes)
    BY EmptySeq
  <2> QED
    BY <2>1, NameFacts, PackComplete
<1> HIDE DEF c
<1>2. Cut(c, 0) \in Box /\ Cut(c, 0).have = 0 /\ Size(Cut(c, 0)) = Size(c)
  BY <1>1 DEF Complete, Box, Cut, Size
<1>3. Size(c) \in Nat
  BY <1>1 DEF Complete, Box
<1> QED
  BY <1>2, <1>3 DEF Good, Blank, c
-----------------------------------------------------------------------------
(***************************************************************************)
(* The state, by what each call holds at its place.  A container that a    *)
(* call found when it began stays a container, and the path a call picked  *)
(* was free or carries the short hash of what it seals.                    *)
(***************************************************************************)
ProofsOK ==
    /\ DOMAIN proofs \subseteq Ids
    /\ \A id \in DOMAIN proofs : proofs[id].sealed \in Contents /\ proofs[id].claims \in Contents

WinsOK ==
    /\ wins = [p \in Paths |-> wins[p]]
    /\ \A p \in Paths : wins[p] # None => Good(wins[p])

Sealing == {"create", "write", "publish", "put", "done"}

CallOK(c) ==
    LET call == calls[c]
    IN  /\ call \in [pc : PCs, id : Ids \cup {None}, name : Names \cup {None},
                     file : Contents \cup {None}, public : BOOLEAN,
                     path : Paths \cup {None}, before : SUBSET Paths]
        /\ call.pc # "idle" => /\ call.id \in DOMAIN proofs
                               /\ call.name \in Names /\ call.file \in Contents
        /\ call.pc \in Sealing => call.path \in Paths
        /\ call.pc = "write" => wins[call.path] # None
        /\ \A p \in call.before : wins[p] # None
        /\ call.pc = "create" => call.path[2] = Short(call.file) \/ call.path \notin call.before

CallsOK == calls = [c \in Calls |-> calls[c]] /\ \A c \in Calls : CallOK(c)

SiteOK == DOMAIN site = Contents /\ spoiled \subseteq Contents

ParcelOK ==
    parcel # None =>
        /\ parcel = [container |-> parcel.container, of |-> parcel.of, changes |-> parcel.changes]
        /\ Complete(parcel.container)
        /\ parcel.changes \in 0 .. MaxChanges

DInv == ProofsOK /\ WinsOK /\ CallsOK /\ SiteOK /\ ParcelOK

\* The invariant says what TypeOK says, and more.
LEMMA DInvTypes == DInv => TypeOK
<1> SUFFICES ASSUME DInv PROVE TypeOK
  OBVIOUS
<1>1. ASSUME NEW c \in Box, c.have <= Size(c)
      PROVE  IsContainer(c)
  BY <1>1, SanitizedTwice DEF Box, IsContainer, Size, NameLen, Header
<1>2. \A c \in Containers : c \in Box /\ c.have <= Size(c)
  <2>1. ASSUME NEW c, Complete(c) PROVE c.have <= Size(c)
    BY <2>1 DEF Complete, Box
  <2> QED
    BY <2>1 DEF Containers, DInv, WinsOK, ParcelOK, Good, Complete
<1>3. \A c \in Calls :
        /\ calls[c].pc \in PCs
        /\ calls[c].pc # "idle" => calls[c].id \in DOMAIN proofs
        /\ calls[c].pc \in PCs \ {"idle", "pick", "failed"} => calls[c].path \in Paths
  BY DEF DInv, CallsOK, CallOK, Sealing, PCs
<1> QED
  BY <1>1, <1>2, <1>3 DEF DInv, TypeOK, ProofsOK, SiteOK, ParcelOK

\* Proofs and containers that are there stay there.
Grows ==
    /\ ProofsOK' /\ DOMAIN proofs \subseteq DOMAIN proofs'
    /\ WinsOK' /\ \A p \in Paths : wins[p] # None => wins'[p] # None

\* A proof is added under a fresh id.
LEMMA ProofIsAdded ==
    ASSUME ProofsOK, NEW id \in Ids, NEW f \in Contents, NEW g \in Contents, AddProof(id, f, g)
    PROVE  ProofsOK' /\ DOMAIN proofs \subseteq DOMAIN proofs' /\ id \in DOMAIN proofs'
  BY DEF ProofsOK, AddProof, With

\* A container is put where one can be.
LEMMA ContainerIsPut ==
    ASSUME WinsOK, NEW p \in Paths, NEW c, Good(c), wins' = [wins EXCEPT ![p] = c]
    PROVE  WinsOK' /\ wins'[p] # None /\ \A q \in Paths : wins[q] # None => wins'[q] # None
<1>1. c # None
  BY DataAssumption DEF Good, Box
<1>2. \A q \in Paths : wins'[q] = IF q = p THEN c ELSE wins[q]
  BY DEF WinsOK
<1>3. wins' = [q \in Paths |-> wins'[q]]
  BY DEF WinsOK
<1> QED
  BY <1>1, <1>2, <1>3 DEF WinsOK

\* What is said of a call stays true while it stands still.
LEMMA CallStays ==
    ASSUME NEW c \in Calls, CallOK(c), calls'[c] = calls[c], Grows
    PROVE  CallOK(c)'
  BY DEF CallOK, Grows, Sealing, PCs

\* A step of a call leaves the others and keeps it well typed.
LEMMA CallMoves ==
    ASSUME CallsOK, Grows, NEW c \in Calls, NEW new, calls' = [calls EXCEPT ![c] = new],
           CallOK(c)'
    PROVE  CallsOK'
<1>1. \A d \in Calls \ {c} : calls'[d] = calls[d]
  BY DEF CallsOK
<1>2. calls' = [d \in Calls |-> calls'[d]]
  BY DEF CallsOK
<1> QED
  BY <1>1, <1>2, CallStays DEF CallsOK

\* When no container is written and no proof added, nothing is lost.
LEMMA GrowsStill ==
    ASSUME ProofsOK, WinsOK, UNCHANGED <<proofs, wins>>
    PROVE  Grows
  BY DEF Grows, ProofsOK, WinsOK
-----------------------------------------------------------------------------
\* A call begins, with the containers it finds.
LEMMA WinSealOK ==
    ASSUME DInv, NEW c \in Calls, NEW id \in Ids, NEW n \in FileNames, NEW f \in Contents,
           NEW public \in BOOLEAN, WinSeal(c, id, n, f, public)
    PROVE  DInv'
<1> DEFINE found == {p \in Paths : wins[p] # None}
           new == [Idle EXCEPT !.pc = "pick", !.id = id, !.name = n, !.file = f,
                               !.public = public, !.before = found]
<1>1. ProofsOK' /\ DOMAIN proofs \subseteq DOMAIN proofs' /\ id \in DOMAIN proofs'
  BY ProofIsAdded DEF WinSeal, DInv
<1>2. Grows
  BY <1>1 DEF Grows, WinSeal, DInv, WinsOK
<1>3. calls' = [calls EXCEPT ![c] = new] /\ calls'[c] = new
  BY DEF WinSeal, DInv, CallsOK
<1>4. found \subseteq Paths /\ \A p \in found : wins[p] # None
  OBVIOUS
<1> HIDE DEF found
<1>5. /\ new.pc = "pick" /\ new.id = id /\ new.name = n /\ new.file = f
      /\ new.public = public /\ new.path = None /\ new.before = found
      /\ new = [x \in {"pc", "id", "name", "file", "public", "path", "before"} |-> new[x]]
  BY DEF Idle
<1> HIDE DEF new
<1>6. n \in Names /\ wins' = wins
  BY DeliveryAssumption DEF WinSeal
<1>7. CallOK(c)'
  BY <1>1, <1>3, <1>4, <1>5, <1>6 DEF CallOK, PCs, Sealing
<1>8. CallsOK'
  BY <1>2, <1>3, <1>7, CallMoves DEF DInv
<1> QED
  BY <1>1, <1>2, <1>8 DEF WinSeal, DInv, Grows, SiteOK, ParcelOK

\* A call picks a path that is free, or one of its content's own.
LEMMA PickOK ==
    ASSUME DInv, NEW c \in Calls, Pick(c)
    PROVE  DInv'
<1> DEFINE call == calls[c]
           path == <<call.name, IF wins[<<call.name, Plain>>] # None THEN Short(call.file) ELSE Plain>>
<1>1. CallOK(c) /\ call.pc = "pick"
  BY DEF Pick, At, DInv, CallsOK
<1>2. Grows
  BY GrowsStill DEF Pick, DInv
<1>3. calls' = [calls EXCEPT ![c] = [call EXCEPT !.pc = "create", !.path = path]]
  BY DEF Pick, DInv, CallsOK
<1>4. calls'[c] = [call EXCEPT !.pc = "create", !.path = path]
  BY <1>3 DEF DInv, CallsOK
<1>5. path \in Paths /\ (path[2] = Short(call.file) \/ path \notin call.before)
  <2>1. call.name \in Names /\ call.file \in Contents
    BY <1>1 DEF CallOK
  <2>2. <<call.name, Plain>> \in Paths /\ <<call.name, Short(call.file)>> \in Paths
    BY <2>1 DEF Paths, Suffixes
  <2> QED
    BY <1>1, <2>2 DEF CallOK
<1> HIDE DEF path
<1>6. CallOK(c)'
  <2>1. /\ calls'[c].pc = "create" /\ calls'[c].path = path /\ calls'[c].id = call.id
        /\ calls'[c].name = call.name /\ calls'[c].file = call.file
        /\ calls'[c].before = call.before
        /\ calls'[c] \in [pc : PCs, id : Ids \cup {None}, name : Names \cup {None},
                     file : Contents \cup {None}, public : BOOLEAN,
                     path : Paths \cup {None}, before : SUBSET Paths]
    BY <1>1, <1>4, <1>5 DEF CallOK, PCs
  <2>2. wins' = wins /\ proofs' = proofs
    BY DEF Pick
  <2> QED
    BY <1>1, <1>5, <2>1, <2>2 DEF CallOK, Sealing
<1>7. CallsOK'
  BY <1>2, <1>3, <1>6, CallMoves DEF DInv
<1> QED
  BY <1>2, <1>7 DEF Pick, DInv, Grows, SiteOK, ParcelOK

\* What a call writes: its container, and the beginning of it.
LEMMA ContainerFacts ==
    ASSUME ProofsOK, NEW c \in Calls, CallOK(c), calls[c].pc # "idle"
    PROVE  /\ Complete(Container(calls[c]))
           /\ Len(Container(calls[c]).tail) \in Nat \ {0}
           /\ Len(Container(calls[c]).tail) - 1 \in 0 .. Len(Container(calls[c]).tail)
           /\ Len(Container(calls[c]).tail) \in 0 .. Len(Container(calls[c]).tail)
<1> DEFINE call == calls[c]
<1>1. call.id \in Ids /\ call.name \in Names /\ call.file \in Contents
  BY DEF CallOK, ProofsOK
<1>2. /\ call.file \in Seq(Bytes) /\ Text(call.id) \in Seq(Bytes)
      /\ Len(call.file) \in Nat /\ Len(Text(call.id)) \in Nat \ {0}
  BY <1>1, ContentBytes, TextBytes
<1>3. Complete(Container(call))
  BY <1>1, <1>2, NameFacts, PackComplete DEF Container
<1>4. Container(call).tail = call.file \o Text(call.id)
  BY DEF Container, Pack
<1> DEFINE n == Len(Container(call).tail)
<1>5. n = Len(call.file) + Len(Text(call.id))
  BY <1>2, <1>4, ConcatProperties
<1> HIDE DEF n
<1>6. PICK k \in Nat, m \in Nat \ {0} : n = k + m
  BY <1>2, <1>5
<1>7. n \in Nat \ {0} /\ n - 1 \in 0 .. n /\ n \in 0 .. n
  BY <1>6
<1> QED
  BY <1>3, <1>7 DEF n

\* A call whose place and publicity alone change.
Moved(c, place, public) == calls' = [calls EXCEPT ![c].pc = place, ![c].public = public]

\* It may go on from a place where it had what the next one takes.
LEMMA MovedOK ==
    ASSUME CallsOK, Grows, NEW c \in Calls, NEW place \in PCs, NEW public \in BOOLEAN,
           Moved(c, place, public),
           place # "create",
           calls[c].pc # "idle",
           place \in Sealing => calls[c].pc \in Sealing,
           place = "write" => wins'[calls[c].path] # None
    PROVE  CallsOK'
<1> DEFINE call == calls[c]
           new == [call EXCEPT !.pc = place, !.public = public]
<1>1. CallOK(c) /\ calls' = [calls EXCEPT ![c] = new] /\ calls'[c] = new
  BY DEF CallsOK, CallOK, Moved
<1>2. /\ new.pc = place /\ new.path = call.path /\ new.id = call.id
      /\ new.name = call.name /\ new.file = call.file /\ new.before = call.before
      /\ new \in [pc : PCs, id : Ids \cup {None}, name : Names \cup {None},
                  file : Contents \cup {None}, public : BOOLEAN,
                  path : Paths \cup {None}, before : SUBSET Paths]
  BY <1>1 DEF CallOK
<1> HIDE DEF new
<1>3. CallOK(c)'
  BY <1>1, <1>2 DEF CallOK, Grows
<1> QED
  BY <1>1, <1>3, CallMoves

\* A call that changes its place only keeps its publicity.
LEMMA StepIsMoved ==
    ASSUME CallsOK, NEW c \in Calls, NEW place, calls' = [calls EXCEPT ![c].pc = place]
    PROVE  Moved(c, place, calls[c].public) /\ calls[c].public \in BOOLEAN
<1>1. CallOK(c)
  BY DEF CallsOK
<1>2. [calls[c] EXCEPT !.pc = place] = [calls[c] EXCEPT !.pc = place, !.public = calls[c].public]
  BY <1>1 DEF CallOK
<1> QED
  BY <1>1, <1>2 DEF CallsOK, CallOK, Moved

\* The file of a container is created, or truncated.
LEMMA CreateOK ==
    ASSUME DInv, NEW c \in Calls, Create(c)
    PROVE  DInv'
<1>1. CallOK(c) /\ calls[c].pc = "create" /\ calls[c].path \in Paths /\ calls[c].name \in Names
  BY DEF Create, At, DInv, CallsOK, CallOK, Sealing
<1>2. /\ WinsOK' /\ wins'[calls[c].path] # None
      /\ \A p \in Paths : wins[p] # None => wins'[p] # None
  BY <1>1, BlankGood, ContainerIsPut DEF Create, DInv
<1>3. Grows
  BY <1>2 DEF Create, Grows, DInv, ProofsOK
<1>4. CallsOK'
  BY <1>1, <1>2, <1>3, StepIsMoved, MovedOK DEF Create, DInv, PCs, Sealing
<1> QED
  BY <1>3, <1>4 DEF Create, DInv, Grows, SiteOK, ParcelOK

\* The write leaves a container, over whatever another call wrote there.
LEMMA WriteOK ==
    ASSUME DInv, NEW c \in Calls, Write(c)
    PROVE  DInv'
<1> DEFINE call == calls[c]
           new == Container(call)
<1>1. CallOK(c) /\ call.pc = "write" /\ call.path \in Paths /\ wins[call.path] # None
  BY DEF Write, At, DInv, CallsOK, CallOK, Sealing
<1>2. Good(WrittenOver(wins[call.path], new, Len(new.tail)))
  BY <1>1, ContainerFacts, OverGood DEF DInv, WinsOK
<1>3. wins' = [wins EXCEPT ![call.path] = WrittenOver(wins[call.path], new, Len(new.tail))]
  BY DEF Write
<1>4. WinsOK' /\ \A p \in Paths : wins[p] # None => wins'[p] # None
  BY <1>1, <1>2, <1>3, ContainerIsPut DEF DInv
<1>5. Grows
  BY <1>4 DEF Write, Grows, DInv, ProofsOK
<1>6. PICK place \in {"publish", "done"} : calls' = [calls EXCEPT ![c].pc = place]
  BY DEF Write
<1>7. CallsOK'
  BY <1>1, <1>5, <1>6, StepIsMoved, MovedOK DEF DInv, PCs, Sealing
<1> QED
  BY <1>5, <1>7 DEF Write, DInv, Grows, SiteOK, ParcelOK

\* Publishing the proof touches the site.
LEMMA PublicationOK ==
    ASSUME DInv, NEW c \in Calls, Announce(c) \/ Put(c)
    PROVE  DInv'
<1>1. CallOK(c) /\ calls[c].pc \in {"publish", "put"} /\ calls[c].file \in Contents
  BY DEF Announce, Put, At, DInv, CallsOK, CallOK
<1>2. Grows
  BY GrowsStill DEF Announce, Put, DInv
<1>3. PICK place \in {"put", "done"} : calls' = [calls EXCEPT ![c].pc = place]
  BY DEF Announce, Put
<1>4. CallsOK'
  BY <1>1, <1>2, <1>3, StepIsMoved, MovedOK DEF DInv, PCs, Sealing
<1>5. SiteOK'
  BY <1>1 DEF Announce, Put, DInv, SiteOK
<1> QED
  BY <1>2, <1>4, <1>5 DEF Announce, Put, DInv, Grows, ParcelOK

\* A write that fails leaves a container, or the beginning of one.
LEMMA BreaksOK ==
    ASSUME DInv, NEW c \in Calls, NEW ends \in {"done", "failed"}, Breaks(c, ends),
           calls[c].pc # "idle", ends = "done" => calls[c].pc \in Sealing
    PROVE  DInv'
<1> DEFINE call == calls[c]
           new == Container(call)
<1>1. CallOK(c) /\ call.file \in Contents
  BY DEF DInv, CallsOK, CallOK
<1>2. WinsOK' /\ \A p \in Paths : wins[p] # None => wins'[p] # None
  <2>1. CASE wins' = wins
    BY <2>1 DEF DInv, WinsOK
  <2>2. CASE wins' # wins
    <3>1. /\ call.pc = "write"
          /\ wins' = [wins EXCEPT ![call.path] = WrittenOver(wins[call.path], new, Len(new.tail) - 1)]
      BY <2>2 DEF Breaks, At, PartOfContainer
    <3>2. call.path \in Paths /\ wins[call.path] # None
      BY <1>1, <3>1 DEF CallOK, Sealing
    <3>3. Good(WrittenOver(wins[call.path], new, Len(new.tail) - 1))
      BY <1>1, <3>1, <3>2, ContainerFacts, OverGood DEF DInv, WinsOK
    <3> QED
      BY <3>1, <3>2, <3>3, ContainerIsPut DEF DInv
  <2> QED
    BY <2>1, <2>2
<1>3. Grows
  BY <1>2 DEF Breaks, Grows, DInv, ProofsOK
<1>4. CallsOK'
  BY <1>3, MovedOK DEF Breaks, Moved, DInv, PCs, Sealing
<1>5. SiteOK'
  BY <1>1 DEF Breaks, PartOfProof, DInv, SiteOK
<1> QED
  BY <1>3, <1>4, <1>5 DEF Breaks, DInv, Grows, ParcelOK
-----------------------------------------------------------------------------
\* While no call moves, what is said of them stays true.
LEMMA CallsStill ==
    ASSUME CallsOK, Grows, calls' = calls
    PROVE  CallsOK'
  BY CallStays DEF CallsOK

\* The server and the browser seal: a complete container is handed out.
LEMMA SealsOK ==
    ASSUME DInv, NEW id \in Ids, NEW n \in Names, NEW f \in Contents,
           SealFile(id, n, f) \/ SealUpload(id, n, f)
    PROVE  DInv'
<1> DEFINE new == Pack(n, f, Text(id))
<1>1. Complete(new) /\ Good(new)
  BY NameFacts, ContentBytes, TextBytes, PackComplete
<1> HIDE DEF new
<1>2. ProofsOK' /\ DOMAIN proofs \subseteq DOMAIN proofs'
  BY ProofIsAdded DEF SealFile, SealUpload, DInv
<1>3. wins' = wins \/ wins' = [wins EXCEPT ![<<n, Downloads>>] = new]
  BY DEF SealFile, SealUpload, new
<1>4. <<n, Downloads>> \in Paths
  BY DEF Paths, Suffixes
<1>5. Grows
  <2>1. CASE wins' = wins
    BY <1>2, <2>1 DEF Grows, DInv, WinsOK
  <2>2. CASE wins' = [wins EXCEPT ![<<n, Downloads>>] = new]
    BY <1>1, <1>2, <1>4, <2>2, ContainerIsPut DEF Grows, DInv
  <2> QED
    BY <1>3, <2>1, <2>2
<1>6. calls' = calls /\ SiteOK'
  BY DEF SealFile, SealUpload, DInv, SiteOK
<1>7. parcel' = [container |-> new, of |-> id, changes |-> 0]
  BY DEF SealFile, SealUpload, Hand, new
<1>8. ParcelOK'
  BY <1>1, <1>7, DeliveryAssumption DEF ParcelOK
<1> QED
  BY <1>5, <1>6, <1>8, CallsStill DEF DInv, Grows

\* A change replaces the container in the parcel by a complete one.
LEMMA ChangeOK ==
    ASSUME ParcelOK, Changeable, NEW c, Complete(c), Change(c)
    PROVE  ParcelOK'
<1>1. /\ parcel = [container |-> parcel.container, of |-> parcel.of, changes |-> parcel.changes]
      /\ parcel.changes \in 0 .. MaxChanges /\ parcel.changes < MaxChanges
  BY DEF Changeable, ParcelOK
<1>2. parcel' = [container |-> c, of |-> parcel.of, changes |-> parcel.changes + 1]
  BY <1>1 DEF Change
<1>3. parcel.changes + 1 \in 0 .. MaxChanges
  BY <1>1, DeliveryAssumption
<1> QED
  BY <1>2, <1>3 DEF ParcelOK

\* The parts of a container that is all there.
LEMMA CompleteParts ==
    ASSUME NEW c, Complete(c)
    PROVE  /\ IsName(c.name) /\ Sanitize(c.name) \in {Sanitize(n) : n \in Names}
           /\ Rest(c) \in Seq(Bytes)
           /\ c.file_len <= Len(c.tail) => FileBytes(c) \in Seq(Bytes)
<1>1. /\ c.tail \in Seq(Bytes) /\ c.file_len \in Nat /\ c.have \in Nat
      /\ c.name \in {Sanitize(n) : n \in Names} /\ c.have = Size(c)
  BY DEF Complete, Box
<1>2. IsName(c.name) /\ Sanitize(c.name) = c.name /\ c.name.dir_len = 0 /\ c.name.len \in Nat
  BY <1>1, SanitizedTwice
<1>3. Len(c.tail) \in Nat
  BY <1>1
<1>4. Rest(c) \in Seq(Bytes)
  BY <1>1, <1>3 DEF Rest
<1>5. c.have - FileStart(c) = Len(c.tail)
  BY <1>1, <1>2, <1>3 DEF Size, FileStart, NameLen, Header
<1>6. Present(c) = c.tail
  BY <1>1, <1>5, SubSeqFull DEF Present
<1>7. c.file_len <= Len(c.tail) => FileBytes(c) \in Seq(Bytes)
  BY <1>1, <1>3, <1>6 DEF FileBytes
<1> QED
  BY <1>1, <1>2, <1>4, <1>7

\* Whatever the transport makes of a container is all there.
LEMMA AlteredComplete ==
    ASSUME ProofsOK, NEW c, Complete(c), NEW d \in Altered(c)
    PROVE  Complete(d)
<1>1. c \in Box /\ c.have = Size(c) /\ Len(c.tail) \in Nat
  BY DEF Complete, Box
<1>2. CASE d = [c EXCEPT !.magic = FALSE]
  BY <1>1, <1>2 DEF Complete, Box, Size
<1>3. ASSUME NEW k \in 0 .. Len(c.tail) + 1, d = [c EXCEPT !.file_len = k]
      PROVE  Complete(d)
  BY <1>1, <1>3 DEF Complete, Box, Size
<1>4. ASSUME NEW n \in Names, c.file_len <= Len(c.tail), d = Pack(n, FileBytes(c), Rest(c))
      PROVE  Complete(d)
  BY <1>4, CompleteParts, NameFacts, PackComplete
<1>5. ASSUME NEW f \in Contents, d = Pack(c.name, f, Rest(c))
      PROVE  Complete(d)
  BY <1>5, CompleteParts, ContentBytes, PackComplete
<1>6. ASSUME NEW id \in DOMAIN proofs, c.file_len <= Len(c.tail),
             d = Pack(c.name, FileBytes(c), Text(id))
      PROVE  Complete(d)
  BY <1>6, CompleteParts, TextBytes, PackComplete DEF ProofsOK
<1>7. c.file_len > Len(c.tail) \/ c.file_len <= Len(c.tail)
  BY <1>1 DEF Box
<1> QED
  BY <1>2, <1>3, <1>4, <1>5, <1>6, <1>7 DEF Altered

\* The transport.
LEMMA AlterOK == DInv /\ Alter => DInv'
<1> SUFFICES ASSUME DInv, Alter PROVE DInv'
  OBVIOUS
<1>1. PICK c \in Altered(parcel.container) : Change(c)
  BY DEF Alter
<1>2. Complete(c) /\ Changeable
  BY AlteredComplete DEF Alter, Changeable, DInv, ParcelOK
<1>3. ParcelOK'
  BY <1>1, <1>2, ChangeOK DEF DInv
<1>4. Grows
  BY GrowsStill DEF Alter, DInv
<1> QED
  BY <1>3, <1>4, CallsStill DEF Alter, DInv, Grows, SiteOK

\* A proof is edited, and travels beside one of two files.
LEMMA EditProofOK ==
    ASSUME DInv, NEW id \in Ids, NEW f \in Contents, EditProof(id, f)
    PROVE  DInv'
<1> DEFINE c == parcel.container
           old == Parse(ProofText(c))
<1>1. Complete(c) /\ Changeable /\ UnpackError(c) = "ok" /\ old # None
  BY DEF EditProof, Readable, Changeable, DInv, ParcelOK
<1>2. proofs[old].sealed \in Contents
  BY <1>1, ParsedIsThere DEF DInv, ProofsOK
<1>3. AddProof(id, proofs[old].sealed, f)
  BY DEF EditProof
<1>4. ProofsOK' /\ DOMAIN proofs \subseteq DOMAIN proofs'
  BY <1>2, <1>3, ProofIsAdded DEF DInv
<1>5. PICK g \in {FileBytes(c), f} : Change(Pack(c.name, g, Text(id)))
  BY DEF EditProof
<1>6. FileBytes(c) \in Seq(Bytes)
  <2>1. ~ (c.have < FileStart(c) + c.file_len)
    BY <1>1, Unpackable
  <2>2. c.have = Header + NameLen(c.name) + Len(c.tail) /\ FileStart(c) = Header + NameLen(c.name)
    BY <1>1 DEF Complete, Size, FileStart
  <2>3. NameLen(c.name) \in Nat /\ Len(c.tail) \in Nat /\ c.file_len \in Nat
    BY <1>1, SanitizedTwice DEF Complete, Box, NameLen
  <2>4. c.file_len <= Len(c.tail)
    BY <2>1, <2>2, <2>3 DEF Header
  <2> QED
    BY <1>1, <2>4, CompleteParts
<1>7. Complete(Pack(c.name, g, Text(id)))
  BY <1>1, <1>6, CompleteParts, ContentBytes, TextBytes, PackComplete
<1>8. ParcelOK'
  BY <1>1, <1>5, <1>7, ChangeOK DEF DInv
<1>9. Grows
  BY <1>4 DEF EditProof, Grows, DInv, WinsOK
<1> QED
  BY <1>8, <1>9, CallsStill DEF EditProof, DInv, Grows, SiteOK

\* The receiver extracts a file, or publishes the proof.
LEMMA ReceiverOK ==
    ASSUME DInv, \/ \E force \in BOOLEAN : WinOpen(force)
                 \/ DesktopOpen \/ Publish
    PROVE  DInv'
<1>1. Grows /\ calls' = calls /\ parcel' = parcel
  BY GrowsStill DEF WinOpen, DesktopOpen, Publish, DInv
<1>2. SiteOK'
  <2>1. CASE (\E force \in BOOLEAN : WinOpen(force)) \/ DesktopOpen
    BY <2>1 DEF WinOpen, DesktopOpen, DInv, SiteOK
  <2>2. CASE Publish
    <3>1. proofs[Parse(ProofText(parcel.container))].claims \in Contents
      BY <2>2, ParsedIsThere DEF Publish, Readable, DInv, ProofsOK
    <3> QED
      BY <2>2, <3>1 DEF Publish, DInv, SiteOK
  <2> QED
    BY <2>1, <2>2
<1> QED
  BY <1>1, <1>2, CallsStill DEF DInv, Grows, ParcelOK
-----------------------------------------------------------------------------
\* The invariant holds at first.
LEMMA InitDInv == Init => DInv
<1> SUFFICES ASSUME Init PROVE DInv
  OBVIOUS
<1>1. ProofsOK
  BY DEF Init, ProofsOK
<1>2. \A c \in Calls : CallOK(c)
  BY DEF Init, CallOK, Idle, PCs, Sealing
<1> QED
  BY <1>1, <1>2 DEF Init, DInv, WinsOK, CallsOK, SiteOK, ParcelOK

\* Every step keeps the invariant.
LEMMA StepDInv == DInv /\ [Next]_vars => DInv'
<1> SUFFICES ASSUME DInv, [Next]_vars PROVE DInv'
  OBVIOUS
<1>1. ASSUME NEW c \in Calls, WinSealStep(c) \/ IoError(c) \/ Kill(c)
      PROVE  DInv'
  <2>1. CASE WinSealStep(c)
    BY <2>1, PickOK, CreateOK, WriteOK, PublicationOK DEF WinSealStep
  <2>2. CASE IoError(c)
    BY <2>2, BreaksOK DEF IoError, Sealing
  <2>3. CASE Kill(c)
    BY <2>3, BreaksOK DEF Kill
  <2> QED
    BY <1>1, <2>1, <2>2, <2>3
<1>2. CASE UNCHANGED vars
  BY <1>2, GrowsStill, CallsStill DEF vars, DInv, Grows, SiteOK, ParcelOK
<1> QED
  BY <1>1, <1>2, WinSealOK, SealsOK, AlterOK, EditProofOK, ReceiverOK DEF Next

(***************************************************************************)
(* Type correctness of the delivery, whatever is sealed, altered, fails or *)
(* dies: every container is one, and holds no more than its size.          *)
(***************************************************************************)
THEOREM DeliveryTypes == Spec => []TypeOK
<1> QED
  BY InitDInv, StepDInv, DInvTypes, PTL DEF Spec

(***************************************************************************)
(* `win seal` replaces a container it found only under the short hash of   *)
(* the very content it seals: for any number of calls and any faults.      *)
(***************************************************************************)
THEOREM ContainersAreKept == Spec => ContainersKept
<1>1. DInv /\ [Next]_vars =>
        [\A c \in Calls : \A p \in Paths :
            (p \in calls[c].before /\ calls[c]'.pc = "write" /\ calls[c].pc = "create"
               /\ calls[c].path = p) => p[2] = Short(calls[c].file)]_vars
  BY DEF DInv, CallsOK, CallOK
<1> QED
  BY <1>1, InitDInv, StepDInv, PTL DEF Spec, ContainersKept
-----------------------------------------------------------------------------
(***************************************************************************)
(* What was sealed and not edited verifies.                                *)
(***************************************************************************)
\* A signed record has the fields it was signed over, and its signature.
LEMMA SignedFields ==
    ASSUME NEW r, NEW v, "signature" \notin DOMAIN r
    PROVE  /\ With(r, "signature", v).signature = v
           /\ \A x \in DOMAIN r : With(r, "signature", v)[x] = r[x]
  BY DEF With

\* The time event of a seal is a local genesis event under its signature.
LEMMA GenesisIsSigned ==
    ASSUME NEW id, NEW file
    PROVE  LET g == Genesis(id, file) IN
           /\ g.signature = Sign(Authority, TimeSignPayload(g))
           /\ g.predecessor_event_id = None /\ g.time_source = "Local"
<1> DEFINE event == [time_event_id |-> id, timestamp |-> 0, authority |-> Authority,
                    predecessor_event_id |-> None, predecessor_hash |-> None,
                    payload_hash |-> file, time_source |-> "Local",
                    rfc3161_token |-> None, anchored_time |-> None]
           signed == {"time_event_id", "timestamp", "authority", "predecessor_event_id",
                      "predecessor_hash", "payload_hash", "time_source", "rfc3161_token",
                      "anchored_time"}
<1>1. DOMAIN event = signed /\ "signature" \notin signed
      /\ event.predecessor_event_id = None /\ event.time_source = "Local"
  OBVIOUS
<1>2. Genesis(id, file) = With(event, "signature", Sign(Authority, TimeSignPayload(event)))
  BY DEF Genesis
<1>3. TimeSignPayload(event) = [x \in signed |-> event[x]]
      /\ TimeSignPayload(Genesis(id, file)) = [x \in signed |-> Genesis(id, file)[x]]
  BY DEF TimeSignPayload
<1> HIDE DEF event
<1>4. /\ Genesis(id, file).signature = Sign(Authority, TimeSignPayload(event))
      /\ \A x \in signed : Genesis(id, file)[x] = event[x]
  BY <1>1, <1>2, SignedFields
<1>5. TimeSignPayload(Genesis(id, file)) = TimeSignPayload(event)
  BY <1>3, <1>4
<1>6. "predecessor_event_id" \in signed /\ "time_source" \in signed
  OBVIOUS
<1> QED
  BY <1>1, <1>4, <1>5, <1>6

\* Its policy proof is a permission under its signature.
LEMMA PermissionIsSigned ==
    ASSUME NEW id, NEW file
    PROVE  VerifyPolicyProof(Permission(id, file), Evaluator)
           /\ Permission(id, file).decision = "Permit"
<1> DEFINE proof == [decision |-> "Permit", policy_version |-> CURRENT_POLICY_VERSION,
                    context_hash |-> <<id, file>>, evaluator |-> Evaluator]
           signed == {"decision", "policy_version", "context_hash", "evaluator"}
<1>1. DOMAIN proof = signed /\ "signature" \notin signed
      /\ proof.decision = "Permit" /\ proof.policy_version = CURRENT_POLICY_VERSION
  OBVIOUS
<1>2. Permission(id, file) = With(proof, "signature", Sign(Evaluator, PolicySignPayload(proof)))
  BY DEF Permission
<1>3. PolicySignPayload(proof) = [x \in signed |-> proof[x]]
      /\ PolicySignPayload(Permission(id, file)) = [x \in signed |-> Permission(id, file)[x]]
  BY DEF PolicySignPayload
<1> HIDE DEF proof
<1>4. /\ Permission(id, file).signature = Sign(Evaluator, PolicySignPayload(proof))
      /\ \A x \in signed : Permission(id, file)[x] = proof[x]
  BY <1>1, <1>2, SignedFields
<1>5. PolicySignPayload(Permission(id, file)) = PolicySignPayload(proof)
  BY <1>3, <1>4
<1>6. "decision" \in signed /\ "policy_version" \in signed
  OBVIOUS
<1> QED
  BY <1>1, <1>4, <1>5, <1>6 DEF VerifyPolicyProof, SignatureOK

IsFunction(f) == f = [x \in DOMAIN f |-> f[x]]

\* The sealed object, field by field.
SealedFields(o, id, file) ==
    /\ IsFunction(o)
    /\ o.object_id = id /\ o.object_class = "Native" /\ o.payload_hash = file
    /\ o.artifact_size_bytes = Len(file) /\ o.parent_ids = {}
    /\ o.origin = [object_id |-> id, creator |-> Creator, module |-> "Document",
                   authority |-> Authority]
    /\ o.time_event = Genesis(id, file) /\ o.policy_proof = Permission(id, file)
    /\ o.protocol = "V1" /\ o.proof_chain = None
    /\ o.object_signature = Sign(Creator, ObjSignPayload(o))

\* What a seal assembles has these fields.
LEMMA SealedObjectFields ==
    ASSUME NEW id, NEW file
    PROVE  SealedFields(SealedObject(id, file), id, file)
<1>0. PICK o : o = SealedObject(id, file)
  OBVIOUS
<1> DEFINE obj == [object_id |-> id, object_class |-> "Native", payload_hash |-> file,
                artifact_size_bytes |-> Len(file), parent_ids |-> {},
                origin |-> [object_id |-> id, creator |-> Creator, module |-> "Document",
                            authority |-> Authority],
                time_event |-> Genesis(id, file), policy_proof |-> Permission(id, file),
                ai_generation |-> None, import_declaration |-> None,
                protocol |-> "V1", proof_chain |-> None]
<1>1. o = With(obj, "object_signature", Sign(Creator, ObjSignPayload(obj)))
  BY <1>0 DEF SealedObject
<1>2. /\ DOMAIN obj = {"object_id", "object_class", "payload_hash", "artifact_size_bytes",
                       "parent_ids", "origin", "time_event", "policy_proof", "ai_generation",
                       "import_declaration", "protocol", "proof_chain"}
      /\ obj.object_id = id /\ obj.object_class = "Native" /\ obj.payload_hash = file
      /\ obj.artifact_size_bytes = Len(file) /\ obj.parent_ids = {}
      /\ obj.origin = [object_id |-> id, creator |-> Creator, module |-> "Document",
                          authority |-> Authority]
      /\ obj.time_event = Genesis(id, file) /\ obj.policy_proof = Permission(id, file)
      /\ obj.protocol = "V1" /\ obj.proof_chain = None
  OBVIOUS
<1> HIDE DEF obj
<1>3. /\ DOMAIN o = DOMAIN obj \cup {"object_signature"} /\ IsFunction(o)
      /\ o.object_signature = Sign(Creator, ObjSignPayload(obj))
      /\ \A x \in DOMAIN obj : x # "object_signature" => o[x] = obj[x]
  BY <1>1 DEF With, IsFunction
<1>4. /\ o.object_id = obj.object_id /\ o.object_class = obj.object_class
      /\ o.payload_hash = obj.payload_hash
      /\ o.artifact_size_bytes = obj.artifact_size_bytes /\ o.parent_ids = obj.parent_ids
      /\ o.origin = obj.origin /\ o.time_event = obj.time_event
      /\ o.policy_proof = obj.policy_proof
      /\ o.protocol = obj.protocol /\ o.proof_chain = obj.proof_chain
  BY <1>2, <1>3
<1>5. ObjSignPayload(o) = ObjSignPayload(obj)
  BY <1>4 DEF ObjSignPayload
<1> QED
  BY <1>0, <1>2, <1>3, <1>4, <1>5 DEF SealedFields

\* The bundle of a proof that was not edited is the one that was sealed.
LEMMA GenuineBundle ==
    ASSUME NEW id, NEW f, SealedAs(id, f)
    PROVE  Bundle(id) = SealedBundle(id, f)
<1>1. PICK o : o = SealedObject(id, f)
  OBVIOUS
<1>2. PICK b : b = SealedBundle(id, f)
  OBVIOUS
<1>3. IsFunction(o) /\ o.payload_hash = f /\ o.artifact_size_bytes = Len(f)
  <2>1. SealedFields(o, id, f)
    BY <1>1, SealedObjectFields
  <2> QED
    BY <2>1 DEF SealedFields
<1>4. Bundle(id) = [b EXCEPT !.object.payload_hash = f, !.object.artifact_size_bytes = Len(f)]
  BY <1>2 DEF Bundle, SealedAs
<1>5. b.object = o /\ b = [x \in DOMAIN b |-> b[x]] /\ "object" \in DOMAIN b
  BY <1>1, <1>2 DEF SealedBundle
<1>6. [o EXCEPT !.payload_hash = f, !.artifact_size_bytes = Len(f)] = o
  BY <1>3 DEF IsFunction
<1>7. [b EXCEPT !.object.payload_hash = f, !.object.artifact_size_bytes = Len(f)]
          = [b EXCEPT !.object = [o EXCEPT !.payload_hash = f, !.artifact_size_bytes = Len(f)]]
  BY <1>5
<1>8. [b EXCEPT !.object = o] = b
  BY <1>5
<1> QED
  BY <1>2, <1>4, <1>6, <1>7, <1>8

(***************************************************************************)
(* Every numbered check of the verifier passes for a file beside the proof *)
(* that was made of it.                                                    *)
(***************************************************************************)
LEMMA GenuineVerifies ==
    ASSUME NEW id, NEW file, SealedAs(id, file)
    PROVE  Verification(id, file) = "Verified"
<1>1. proofs[id].sealed = file /\ proofs[id].claims = file
  BY DEF SealedAs
<1>2. PICK b : b = SealedBundle(id, file)
  OBVIOUS
<1>3. PICK o : o = SealedObject(id, file)
  OBVIOUS
<1>4. PICK in : in = [object      |-> b.object,
                      artifact    |-> [hash |-> file, size |-> Len(file)],
                      creator     |-> b.creator_identity,
                      module      |-> b.module_registration,
                      authority   |-> b.time_authority_identity,
                      evaluator   |-> b.policy_evaluator_identity,
                      predecessor |-> b.predecessor_time_event,
                      parents     |-> {[object_id |-> p.object_id,
                                        timestamp |-> p.time_event.timestamp] :
                                          p \in b.parent_objects},
                      tsa_roots   |-> None]
  OBVIOUS
<1>5. Verification(id, file) = FromFailures(VerifyObject(in, 0))
  BY <1>1, <1>2, <1>4, GenuineBundle DEF Verification, VerifyFromProofBundle
<1>6. /\ in.object = o /\ in.artifact.hash = file /\ in.artifact.size = Len(file)
      /\ in.creator = [id |-> Creator, key |-> Creator, kind |-> "Personal", status |-> "Active"]
      /\ in.module = [id |-> "Document", kind |-> "Document"]
      /\ in.authority = [id |-> Authority, key |-> Authority]
      /\ in.evaluator = [id |-> Evaluator, key |-> Evaluator]
  BY <1>2, <1>3, <1>4 DEF SealedBundle
<1>7. SealedFields(o, id, file)
  BY <1>3, SealedObjectFields
<1> USE DEF FailIf, SealedFields
<1>8. PayloadFailures(in) = {} /\ SignatureFailures(in) = {} /\ CreatorFailures(in) = {}
  BY <1>6, <1>7 DEF PayloadFailures, SignatureFailures, CreatorFailures, SignatureOK
<1>9. ModuleFailures(in) = {}
  BY <1>6, <1>7 DEF ModuleFailures, ExpectedKinds, ModuleKinds
<1>10. TimeSignatureFailures(in) = {} /\ TimeChainFailures(in) = {} /\ TsaFailures(in, 0) = {}
  BY <1>6, <1>7, GenesisIsSigned
     DEF TimeSignatureFailures, TimeChainFailures, TsaFailures, SignatureOK, IsGenesis
<1>11. PolicyFailures(in) = {}
  BY <1>6, <1>7, PermissionIsSigned DEF PolicyFailures
<1>12. OriginFailures(in) = {} /\ AiFailures(in) = {} /\ ImportFailures(in) = {}
  BY <1>6, <1>7 DEF OriginFailures, AiFailures, ImportFailures
<1>13. LineageFailures(in) = {} /\ ProofChainFailures(in) = {}
  BY <1>6, <1>7 DEF LineageFailures, ProofChainFailures
<1>14. VerifyObject(in, 0) = {}
  BY <1>6, <1>7, <1>8, <1>9, <1>10, <1>11, <1>12, <1>13 DEF VerifyObject, SUPPORTED_PROTOCOL
<1> QED
  BY <1>5, <1>14 DEF FromFailures
-----------------------------------------------------------------------------
(***************************************************************************)
(* The texts of two proofs differ, so a text parses to the proof it spells.*)
(***************************************************************************)
LEMMA TextParses ==
    ASSUME ProofsOK, NEW id \in DOMAIN proofs
    PROVE  Parse(Text(id)) = id
<1>1. \A i \in DOMAIN proofs : Text(i)[7] = i
  BY TextTokens DEF ProofsOK
<1>2. \A i \in DOMAIN proofs : Text(id) = Text(i) => i = id
  BY <1>1
<1> QED
  BY <1>2 DEF Parse

\* A container of a fitting name that is whole is verified by every reader.
LEMMA WholeVerifies ==
    ASSUME ProofsOK, NEW id \in DOMAIN proofs, NEW f \in Contents, SealedAs(id, f),
           NEW n, IsName(n), Fits(n)
    PROVE  LET c == Pack(n, f, Text(id)) IN
           /\ CheckBundle(c) = "Verified" /\ OpenStatus(c) = "Verified"
           /\ FileBytes(c) = f /\ c.name = Sanitize(n)
<1>1. id \in Ids /\ f \in Seq(Bytes)
  BY ContentBytes DEF ProofsOK
<1>2. Text(id) \in Seq(Bytes) /\ Text(id) # <<>> /\ BracketsBalanced(Text(id))
  <2>1. Text(id) \in Seq(Bytes) /\ Len(Text(id)) \in Nat \ {0}
    BY <1>1, TextBytes
  <2>2. Text(id) # <<>>
    BY <2>1
  <2> QED
    BY <1>1, <2>1, <2>2, TextBalances
<1>3. PICK c : c = Pack(n, f, Text(id))
  OBVIOUS
<1>4. /\ UnpackError(c) = "ok" /\ c.name = Sanitize(n)
      /\ FileBytes(c) = f /\ ProofText(c) = Text(id)
  BY <1>1, <1>2, <1>3, PackUnpack
<1>5. Parse(ProofText(c)) = id /\ id # None
  BY <1>1, <1>4, TextParses, DeliveryAssumption
<1>6. Verification(id, f) = "Verified" /\ proofs[id].claims = f
  BY GenuineVerifies DEF SealedAs
<1> QED
  BY <1>3, <1>4, <1>5, <1>6 DEF CheckBundle, OpenStatus, Readable

\* Of a name that no container can carry, a whole one reads as damaged.
LEMMA WholeIsHonest ==
    ASSUME ProofsOK, NEW id \in DOMAIN proofs, NEW f \in Contents, SealedAs(id, f),
           NEW n \in Names
    PROVE  LET c == Pack(n, f, Text(id)) IN SeenAsDamaged(c) \/ CheckBundle(c) = "Verified"
<1>1. IsName(n) /\ n.len \in Nat /\ id \in Ids /\ f \in Seq(Bytes)
  BY NameFacts, ContentBytes DEF ProofsOK
<1>2. CASE Fits(n)
  BY <1>1, <1>2, WholeVerifies
<1>3. CASE ~ Fits(n)
  <2>1. PICK c : c = Pack(n, f, Text(id))
    OBVIOUS
  <2>2. c.name.len = n.len /\ c.name.nul = n.nul /\ NameLen(c.name) = n.len
    BY <1>1, <2>1, TextBytes, PackedParts
  <2>3. NameLen(c.name) > NameCap \/ c.name.nul \/ c.name.len = 0
    BY <1>1, <1>3, <2>2, NameCapAssumption DEF Fits
  <2>4. UnpackError(c) # "ok"
    BY <2>3, Unpackable
  <2> QED
    BY <2>1, <2>4, DamagedUnlessOk
<1> QED
  BY <1>2, <1>3

\* An empty file reads as damaged.
LEMMA BlankIsDamaged ==
    ASSUME NEW n
    PROVE  SeenAsDamaged(Blank(n))
<1>1. Blank(n).have = 0
  BY DEF Blank, Cut, Pack
<1>2. Blank(n).have < Header
  BY <1>1 DEF Header
<1>3. UnpackError(Blank(n)) # "ok"
  BY <1>2, Unpackable
<1> QED
  BY <1>3, DamagedUnlessOk

\* Over an empty file a write leaves the beginning it has written.
LEMMA OverBlank ==
    ASSUME NEW n \in Names, NEW new, Complete(new), NEW k \in 0 .. Len(new.tail)
    PROVE  WrittenOver(Blank(n), new, k) =
               [new EXCEPT !.tail = SubSeq(new.tail, 1, k), !.have = FileStart(new) + k]
<1>1. Blank(n).tail = <<>> /\ Blank(n).have = 0 /\ Blank(n).name = Sanitize(n)
  BY DEF Blank, Cut, Pack
<1>2. FileStart(Blank(n)) \in Nat
  BY <1>1, NameFacts DEF FileStart, NameLen, Header
<1>3. Present(Blank(n)) = <<>>
  BY <1>1, <1>2 DEF Present
<1>4. new.tail \in Seq(Bytes)
  BY DEF Complete, Box
<1>5. Over(<<>>, new.tail, k) = SubSeq(new.tail, 1, k)
  BY <1>4 DEF Over
<1>6. Len(SubSeq(new.tail, 1, k)) = k
  BY <1>4
<1> QED
  BY <1>3, <1>5, <1>6 DEF WrittenOver

\* Over an empty file a whole write leaves the container.
LEMMA WholeOverBlank ==
    ASSUME NEW n \in Names, NEW new, Complete(new)
    PROVE  WrittenOver(Blank(n), new, Len(new.tail)) = new
<1>1. new.tail \in Seq(Bytes) /\ Len(new.tail) \in 0 .. Len(new.tail)
  BY DEF Complete, Box
<1>2. SubSeq(new.tail, 1, Len(new.tail)) = new.tail
  BY <1>1, SubSeqFull
<1>3. FileStart(new) + Len(new.tail) = new.have
  BY DEF Complete, Size, FileStart
<1>4. [new EXCEPT !.tail = new.tail, !.have = new.have] = new
  BY DEF Complete, Box
<1>5. WrittenOver(Blank(n), new, Len(new.tail)) =
          [new EXCEPT !.tail = SubSeq(new.tail, 1, Len(new.tail)),
                      !.have = FileStart(new) + Len(new.tail)]
  BY <1>1, OverBlank
<1> QED
  BY <1>2, <1>3, <1>4, <1>5

\* Unpack looks at the header of a container and at the bytes that are there.
LEMMA SamePresent ==
    ASSUME NEW c, NEW d, c.magic = d.magic, c.name = d.name, c.file_len = d.file_len,
           c.have = d.have, Present(c) = Present(d)
    PROVE  UnpackError(c) = UnpackError(d)
<1>1. FileStart(c) = FileStart(d)
  BY DEF FileStart
<1>2. ProofText(c) = ProofText(d)
  BY <1>1 DEF ProofText
<1> QED
  BY <1>1, <1>2 DEF UnpackError

\* What a write over an empty file leaves when its last token is missing.
Part(call) == WrittenOver(Blank(call.name), Container(call), Len(Container(call).tail) - 1)

\* It reads as damaged, like a container that was cut there.
LEMMA PartIsDamaged ==
    ASSUME ProofsOK, NEW c \in Calls, CallOK(c), calls[c].pc # "idle"
    PROVE  SeenAsDamaged(Part(calls[c]))
<1>1. PICK call : call = calls[c]
  OBVIOUS
<1>2. PICK new : new = Container(call)
  OBVIOUS
<1>3. call.id \in Ids /\ call.name \in Names /\ call.file \in Contents
  BY <1>1 DEF CallOK, ProofsOK
<1>4. IsName(call.name) /\ call.file \in Seq(Bytes) /\ Text(call.id) \in Seq(Bytes)
  BY <1>3, NameFacts, ContentBytes, TextBytes
<1>5. /\ Complete(new) /\ Len(new.tail) \in Nat \ {0}
      /\ Len(new.tail) - 1 \in 0 .. Len(new.tail)
  BY <1>1, <1>2, ContainerFacts
<1>6. new = Pack(call.name, call.file, Text(call.id))
  BY <1>2 DEF Container
<1>7. PICK k : k = Len(new.tail) - 1
  OBVIOUS
<1>8. PICK part : part = Part(call)
  OBVIOUS
<1>9. part = [new EXCEPT !.tail = SubSeq(new.tail, 1, k), !.have = FileStart(new) + k]
  <2>1. k \in 0 .. Len(new.tail) /\ part = WrittenOver(Blank(call.name), new, k)
    BY <1>2, <1>5, <1>7, <1>8 DEF Part
  <2> QED
    BY <1>3, <1>5, <2>1, OverBlank
<1>10. PICK cut : cut = Cut(new, Size(new) - 1)
  OBVIOUS
<1>11. new.tail \in Seq(Bytes) /\ new.name.dir_len = 0 /\ new.name.len \in Nat
  BY <1>5, SanitizedTwice DEF Complete, Box
<1>12. FileStart(new) \in Nat /\ Size(new) - 1 = FileStart(new) + k /\ k \in Nat
  <2>1. NameLen(new.name) \in Nat
    BY <1>11 DEF NameLen
  <2>2. PICK m \in Nat \ {0} : m = Len(new.tail)
    BY <1>5
  <2>3. FileStart(new) = Header + NameLen(new.name) /\ Size(new) = Header + NameLen(new.name) + m
    BY <2>2 DEF FileStart, Size
  <2> QED
    BY <1>7, <2>1, <2>2, <2>3 DEF Header
<1>13. /\ part.magic = new.magic /\ part.name = new.name /\ part.file_len = new.file_len
       /\ part.tail = SubSeq(new.tail, 1, k) /\ part.have = FileStart(new) + k
       /\ cut.magic = new.magic /\ cut.name = new.name /\ cut.file_len = new.file_len
       /\ cut.tail = new.tail /\ cut.have = FileStart(new) + k
  BY <1>5, <1>9, <1>10, <1>12 DEF Complete, Box, Cut
<1>14. Present(part) = Present(cut)
  <2>1. FileStart(part) = FileStart(new) /\ FileStart(cut) = FileStart(new)
    BY <1>13 DEF FileStart
  <2>2. Present(part) = SubSeq(SubSeq(new.tail, 1, k), 1, k) /\ Present(cut) = SubSeq(new.tail, 1, k)
    BY <1>12, <1>13, <2>1 DEF Present
  <2>3. SubSeq(SubSeq(new.tail, 1, k), 1, k) = SubSeq(new.tail, 1, k)
    BY <1>5, <1>7, <1>11, <1>12
  <2> QED
    BY <2>2, <2>3
<1>15. UnpackError(cut) # "ok"
  <2>1. Size(new) - 1 \in 0 .. Size(new) - 1
    BY <1>12
  <2>2. \A j \in 1 .. Len(Text(call.id)) - 1 : ~ BracketsBalanced(SubSeq(Text(call.id), 1, j))
    BY <1>3, TextBalances
  <2> QED
    BY <1>4, <1>6, <1>10, <2>1, <2>2, CutIsDamaged
<1> QED
  BY <1>1, <1>8, <1>13, <1>14, <1>15, SamePresent, DamagedUnlessOk
-----------------------------------------------------------------------------
(***************************************************************************)
(* What the calls, the transport and the site hold.  A call that shares    *)
(* its path with no other finds there what it has written so far; a parcel *)
(* nobody changed is the container that was handed out; and the proof the  *)
(* site shows for a content is blank while one call writes it and whole    *)
(* after a call that announced it.                                         *)
(***************************************************************************)
SealedCalls ==
    \A c \in Calls : calls[c].pc # "idle" => SealedAs(calls[c].id, calls[c].file)

OwnPaths ==
    \A c \in Calls :
        /\ calls[c].path # None => calls[c].path[2] # Downloads
        /\ calls[c].pc \in {"idle", "pick"} => calls[c].path = None

Owned ==
    \A p \in Paths :
        wins[p] # None => p[2] = Downloads \/ \E c \in Calls : calls[c].path = p

\* What a call may find at its path when nobody else writes there.
Own(call, found) ==
    /\ call.pc = "create" => found = None
    /\ call.pc = "write" => found = Blank(call.name)
    /\ call.pc \in {"publish", "put", "done"} => found = Container(call)
    /\ call.pc = "failed" => found \in {None, Blank(call.name), Part(call), Container(call)}

OwnContainers ==
    \A c \in Calls :
        (calls[c].path # None /\ Alone(c)) => Own(calls[c], wins[calls[c].path])

PathInv == OwnPaths /\ Owned /\ OwnContainers

HandedOver ==
    (parcel # None /\ parcel.changes = 0) =>
        /\ parcel.of \in DOMAIN proofs
        /\ proofs[parcel.of].claims = proofs[parcel.of].sealed
        /\ \E n \in Names :
               parcel.container = Pack(n, proofs[parcel.of].sealed, Text(parcel.of))

\* This call writes the proof of the content f.
Puts(c, f) == At(c, "put") /\ calls[c].file = f

SiteSound(f) ==
    /\ Writing(f, Calls) => site[f] = <<>>
    /\ \A c, d \in Calls : Puts(c, f) /\ Puts(d, f) => c = d
    /\ (Announced(f) /\ ~ Writing(f, Calls)) =>
           \E id \in DOMAIN proofs : SealedAs(id, f) /\ site[f] = Text(id)

SiteInv == \A f \in Contents \ spoiled : SiteSound(f)

KInv == DInv /\ SealedCalls /\ PathInv /\ HandedOver /\ SiteInv
-----------------------------------------------------------------------------
\* A proof that is there stays as it is.
ProofsStay == \A id \in DOMAIN proofs : id \in DOMAIN proofs' /\ proofs'[id] = proofs[id]

LEMMA EveryProofStays == [Next]_vars => ProofsStay
<1> SUFFICES ASSUME [Next]_vars PROVE ProofsStay
  OBVIOUS
<1>1. \/ proofs' = proofs
      \/ \E id, p, q : Fresh(id) /\ AddProof(id, p, q)
  BY DEF Next, WinSealStep, WinSeal, Pick, Create, Write, Announce, Put, IoError, Kill, Breaks,
         SealFile, SealUpload, Alter, EditProof, WinOpen, DesktopOpen, Publish, vars
<1> QED
  BY <1>1 DEF ProofsStay, Fresh, AddProof, With

\* A proof that is added is there, with what it was given.
LEMMA AddedProof ==
    ASSUME NEW id, NEW f, AddProof(id, f, f)
    PROVE  id \in DOMAIN proofs' /\ SealedAs(id, f)'
  BY DEF AddProof, With, SealedAs

\* A step of a running `win seal` moves that call and no other.
LEMMA OneCallMoves ==
    ASSUME DInv, NEW c \in Calls, WinSealStep(c) \/ IoError(c) \/ Kill(c)
    PROVE  /\ calls[c].pc \notin {"idle", "done", "failed"}
           /\ calls'[c].pc \notin {"idle", "pick"}
           /\ \A d \in Calls \ {c} : calls'[d] = calls[d]
           /\ calls'[c].id = calls[c].id /\ calls'[c].name = calls[c].name
           /\ calls'[c].file = calls[c].file
           /\ ~ Pick(c) => calls'[c].path = calls[c].path
           /\ UNCHANGED <<proofs, parcel, received>>
<1>1. CallOK(c) /\ calls = [d \in Calls |-> calls[d]]
  BY DEF DInv, CallsOK
<1>2. ASSUME NEW new, calls' = [calls EXCEPT ![c] = new]
      PROVE  calls'[c] = new /\ \A d \in Calls \ {c} : calls'[d] = calls[d]
  BY <1>1, <1>2
<1>3. CASE Pick(c)
  <2>1. PICK path : calls' = [calls EXCEPT ![c] = [calls[c] EXCEPT !.pc = "create", !.path = path]]
    BY <1>1, <1>3 DEF Pick
  <2>2. calls'[c] = [calls[c] EXCEPT !.pc = "create", !.path = path]
        /\ \A d \in Calls \ {c} : calls'[d] = calls[d]
    BY <1>2, <2>1
  <2> QED
    BY <1>1, <1>3, <2>2 DEF Pick, At, CallOK
<1>4. CASE Create(c) \/ Write(c) \/ Announce(c) \/ Put(c)
  <2>1. PICK place \in {"write", "publish", "put", "done"} : calls' = [calls EXCEPT ![c].pc = place]
    BY <1>4 DEF Create, Write, Announce, Put
  <2>2. calls' = [calls EXCEPT ![c] = [calls[c] EXCEPT !.pc = place]]
    BY <1>1, <2>1
  <2>3. calls'[c] = [calls[c] EXCEPT !.pc = place]
        /\ \A d \in Calls \ {c} : calls'[d] = calls[d]
    BY <1>2, <2>2
  <2>4. calls[c].pc \in {"create", "write", "publish", "put"} /\ UNCHANGED <<proofs, parcel, received>>
    BY <1>4 DEF Create, Write, Announce, Put, At
  <2> QED
    BY <1>1, <2>1, <2>3, <2>4 DEF CallOK
<1>5. CASE IoError(c) \/ Kill(c)
  <2>1. PICK ends \in {"done", "failed"} : Breaks(c, ends)
    BY <1>5 DEF IoError, Kill
  <2>2. calls[c].pc \notin {"idle", "done", "failed"}
    BY <1>5 DEF IoError, Kill
  <2>3. calls' = [calls EXCEPT ![c] = [calls[c] EXCEPT !.pc = ends, !.public = FALSE]]
    BY <1>1, <2>1 DEF Breaks
  <2>4. calls'[c] = [calls[c] EXCEPT !.pc = ends, !.public = FALSE]
        /\ \A d \in Calls \ {c} : calls'[d] = calls[d]
    BY <1>2, <2>3
  <2> QED
    BY <1>1, <2>1, <2>2, <2>4 DEF Breaks, CallOK
<1> QED
  BY <1>3, <1>4, <1>5 DEF WinSealStep

\* A call that begins is a new one; its proof was made before.
LEMMA CallBegins ==
    ASSUME DInv, NEW c \in Calls, NEW id, NEW n, NEW f, NEW public, WinSeal(c, id, n, f, public)
    PROVE  /\ calls[c].pc = "idle"
           /\ \A d \in Calls \ {c} : calls'[d] = calls[d]
           /\ calls'[c].pc = "pick" /\ calls'[c].id = id /\ calls'[c].file = f
           /\ calls'[c].path = None
           /\ AddProof(id, f, f)
           /\ UNCHANGED <<wins, site, spoiled, parcel, received>>
<1> DEFINE found == {p \in Paths : wins[p] # None}
           new == [Idle EXCEPT !.pc = "pick", !.id = id, !.name = n, !.file = f,
                               !.public = public, !.before = found]
<1>1. calls' = [calls EXCEPT ![c] = new] /\ calls'[c] = new
  BY DEF WinSeal, DInv, CallsOK
<1>2. \A d \in Calls \ {c} : calls'[d] = calls[d]
  BY <1>1 DEF DInv, CallsOK
<1> HIDE DEF found
<1>3. new.pc = "pick" /\ new.id = id /\ new.file = f /\ new.path = None
  BY DEF Idle
<1> HIDE DEF new
<1> QED
  BY <1>1, <1>2, <1>3 DEF WinSeal

\* Every step begins a call, moves one, or leaves all of them alone.
LEMMA StepKinds ==
    ASSUME [Next]_vars
    PROVE  \/ \E c \in Calls : WinSealStep(c) \/ IoError(c) \/ Kill(c)
           \/ \E c \in Calls, id \in Ids, n \in FileNames, f \in Contents, public \in BOOLEAN :
                  WinSeal(c, id, n, f, public)
           \/ /\ calls' = calls
              /\ \/ wins' = wins
                 \/ \E n \in Names : \E new : wins' = [wins EXCEPT ![<<n, Downloads>>] = new]
              /\ UNCHANGED <<site, spoiled>> \/ Publish
<1>1. ASSUME NEW id \in Ids, NEW n \in Names, NEW f \in Contents,
             SealFile(id, n, f) \/ SealUpload(id, n, f)
      PROVE  /\ calls' = calls
             /\ \/ wins' = wins
                \/ \E m \in Names : \E new : wins' = [wins EXCEPT ![<<m, Downloads>>] = new]
             /\ UNCHANGED <<site, spoiled>>
  <2>1. PICK new : new = Pack(n, f, Text(id))
    OBVIOUS
  <2>2. wins' = wins \/ wins' = [wins EXCEPT ![<<n, Downloads>>] = new]
    BY <1>1, <2>1 DEF SealFile, SealUpload
  <2> QED
    BY <1>1, <2>2 DEF SealFile, SealUpload
<1>2. CASE Alter \/ (\E id \in Ids, f \in Contents : EditProof(id, f))
           \/ (\E force \in BOOLEAN : WinOpen(force)) \/ DesktopOpen
           \/ Publish \/ UNCHANGED vars
  BY <1>2 DEF Alter, EditProof, WinOpen, DesktopOpen, Publish, vars
<1> QED
  BY <1>1, <1>2 DEF Next

\* What a call works on is what was sealed under its id.
LEMMA SealedCallsStep ==
    ASSUME DInv, SealedCalls, [Next]_vars
    PROVE  SealedCalls'
<1>1. ProofsStay
  BY EveryProofStays
<1>2. ASSUME NEW d \in Calls, calls[d].pc # "idle"
      PROVE  SealedAs(calls[d].id, calls[d].file)'
             \/ calls'[d].id # calls[d].id \/ calls'[d].file # calls[d].file
  <2>1. calls[d].id \in DOMAIN proofs
    BY <1>2 DEF DInv, CallsOK, CallOK
  <2> QED
    BY <1>1, <1>2, <2>1 DEF ProofsStay, SealedCalls, SealedAs
<1>3. ASSUME NEW c \in Calls, WinSealStep(c) \/ IoError(c) \/ Kill(c)
      PROVE  SealedCalls'
  BY <1>2, <1>3, OneCallMoves DEF SealedCalls
<1>4. ASSUME NEW c \in Calls, NEW id \in Ids, NEW n \in FileNames, NEW f \in Contents,
             NEW public \in BOOLEAN, WinSeal(c, id, n, f, public)
      PROVE  SealedCalls'
  <2>1. SealedAs(calls[c].id, calls[c].file)'
    BY <1>4, CallBegins, AddedProof DEF SealedAs
  <2> QED
    BY <1>2, <1>4, <2>1, CallBegins DEF SealedCalls
<1>5. CASE calls' = calls
  BY <1>2, <1>5 DEF SealedCalls
<1> QED
  BY <1>3, <1>4, <1>5, StepKinds
-----------------------------------------------------------------------------
\* A call that goes on at its own path leaves the paths of the others alone.
LEMMA PathsMove ==
    ASSUME DInv, PathInv, NEW c \in Calls,
           \A d \in Calls \ {c} : calls'[d] = calls[d],
           calls'[c].path = calls[c].path,
           calls'[c].pc \notin {"idle", "pick"},
           \A p \in Paths : p # calls[c].path => wins'[p] = wins[p],
           (calls[c].path # None /\ Alone(c)) => Own(calls'[c], wins'[calls[c].path])
    PROVE  PathInv'
<1>1. \A d \in Calls : calls'[d].path = calls[d].path
  OBVIOUS
<1>2. \A d \in Calls : Alone(d)' <=> Alone(d)
  BY <1>1 DEF Alone
<1>3. \A d \in Calls : calls[d].path # None => calls[d].path \in Paths
  BY DEF DInv, CallsOK, CallOK
<1>4. OwnPaths'
  BY <1>1 DEF PathInv, OwnPaths
<1>5. Owned'
  BY <1>1 DEF PathInv, Owned
<1>6. ASSUME NEW d \in Calls, calls[d].path # None, Alone(d)
      PROVE  Own(calls'[d], wins'[calls'[d].path])
  <2>1. CASE d = c
    BY <1>6, <2>1
  <2>2. CASE d # c
    <3>1. calls[c].path # calls[d].path
      BY <1>6, <2>2 DEF Alone
    <3>2. wins'[calls[d].path] = wins[calls[d].path] /\ calls'[d] = calls[d]
      BY <1>3, <1>6, <2>2, <3>1
    <3>3. Own(calls[d], wins[calls[d].path])
      BY <1>6 DEF PathInv, OwnContainers
    <3> QED
      BY <3>2, <3>3
  <2> QED
    BY <2>1, <2>2
<1>7. OwnContainers'
  BY <1>1, <1>2, <1>6 DEF OwnContainers
<1> QED
  BY <1>4, <1>5, <1>7 DEF PathInv

\* A path that is picked is free, or another call has it too.
LEMMA PickPaths ==
    ASSUME DInv, PathInv, NEW c \in Calls, Pick(c)
    PROVE  PathInv'
<1> DEFINE call == calls[c]
<1>1. CallOK(c) /\ call.pc = "pick" /\ call.path = None /\ call.name \in Names
      /\ call.file \in Contents
  BY DEF Pick, At, DInv, CallsOK, CallOK, PathInv, OwnPaths
<1>2. PICK suffix \in {Plain, Short(call.file)} :
          /\ calls' = [calls EXCEPT ![c] = [call EXCEPT !.pc = "create", !.path = <<call.name, suffix>>]]
          /\ suffix = Plain => wins[<<call.name, suffix>>] = None
  <2>1. CASE wins[<<call.name, Plain>>] # None
    <3>1. calls' = [calls EXCEPT ![c] = [call EXCEPT !.pc = "create",
                                            !.path = <<call.name, Short(call.file)>>]]
      BY <2>1 DEF Pick, DInv, CallsOK
    <3>2. Short(call.file) # Plain
      BY DEF Short, Plain
    <3> QED
      BY <3>1, <3>2
  <2>2. CASE wins[<<call.name, Plain>>] = None
    BY <2>2 DEF Pick, DInv, CallsOK
  <2> QED
    BY <2>1, <2>2
<1>3. PICK path : path = <<call.name, suffix>>
  OBVIOUS
<1>4. /\ calls'[c] = [call EXCEPT !.pc = "create", !.path = path]
      /\ \A d \in Calls \ {c} : calls'[d] = calls[d]
      /\ wins' = wins
  BY <1>2, <1>3 DEF Pick, DInv, CallsOK
<1>5. calls'[c].pc = "create" /\ calls'[c].path = path
  BY <1>1, <1>4 DEF CallOK
<1>6. path \in Paths /\ path[2] # Downloads /\ path # None
  <2>1. Short(call.file) # Downloads /\ Plain # Downloads
    BY DEF Short, Plain, Downloads
  <2>2. path \in Paths
    BY <1>1, <1>3 DEF Paths, Suffixes
  <2> QED
    BY <1>3, <2>1, <2>2, PathsAssumption
<1>7. OwnPaths'
  BY <1>4, <1>5, <1>6 DEF PathInv, OwnPaths
<1>8. Owned'
  BY <1>1, <1>4, PathsAssumption DEF PathInv, Owned
<1>9. ASSUME NEW d \in Calls, calls'[d].path # None, Alone(d)'
      PROVE  Own(calls'[d], wins'[calls'[d].path])
  <2>1. CASE d = c
    <3>1. wins[path] = None
      <4>1. \A e \in Calls : calls[e].path # path
        <5>1. \A e \in Calls \ {c} : calls'[e].path # calls'[c].path
          BY <1>9, <2>1 DEF Alone
        <5>2. \A e \in Calls \ {c} : calls[e].path # path
          BY <1>4, <1>5, <5>1
        <5> QED
          BY <1>1, <1>6, <5>2
      <4> QED
        BY <1>6, <4>1 DEF PathInv, Owned
    <3> QED
      BY <1>4, <1>5, <2>1, <3>1 DEF Own
  <2>2. CASE d # c
    <3>1. calls'[d] = calls[d] /\ Alone(d)
      <4>1. \A e \in Calls \ {d} : calls[e].path # calls[d].path
        BY <1>1, <1>4, <1>9, <2>2 DEF Alone
      <4> QED
        BY <1>4, <2>2, <4>1 DEF Alone
    <3> QED
      BY <1>4, <1>9, <3>1 DEF PathInv, OwnContainers
  <2> QED
    BY <2>1, <2>2
<1>10. OwnContainers'
  BY <1>9 DEF OwnContainers
<1> QED
  BY <1>7, <1>8, <1>10 DEF PathInv

\* A call that creates its file finds none there, and leaves it empty.
LEMMA CreatePaths ==
    ASSUME DInv, PathInv, NEW c \in Calls, Create(c)
    PROVE  PathInv'
<1>1. CallOK(c) /\ wins = [p \in Paths |-> wins[p]] /\ calls[c].path \in Paths
  BY DEF Create, At, DInv, WinsOK, CallsOK, CallOK, Sealing
<1>2. calls'[c].pc = "write" /\ calls'[c].name = calls[c].name
      /\ calls'[c].path = calls[c].path
      /\ \A d \in Calls \ {c} : calls'[d] = calls[d]
  BY <1>1 DEF Create, DInv, CallsOK, CallOK
<1>3. /\ wins'[calls[c].path] = Blank(calls[c].name)
      /\ \A p \in Paths : p # calls[c].path => wins'[p] = wins[p]
  BY <1>1 DEF Create
<1>4. Own(calls'[c], wins'[calls[c].path])
  BY <1>2, <1>3 DEF Own
<1> QED
  BY <1>2, <1>3, <1>4, PathsMove

\* A call that writes finds its file empty, and leaves its container there.
LEMMA WritePaths ==
    ASSUME DInv, PathInv, NEW c \in Calls, Write(c)
    PROVE  PathInv'
<1>1. /\ CallOK(c) /\ wins = [p \in Paths |-> wins[p]] /\ calls[c].path \in Paths
      /\ calls[c].pc = "write" /\ calls[c].name \in Names
  BY DEF Write, At, DInv, WinsOK, CallsOK, CallOK, Sealing
<1>2. PICK new : new = Container(calls[c])
  OBVIOUS
<1>3. PICK place \in {"publish", "done"} : calls' = [calls EXCEPT ![c].pc = place]
  BY DEF Write
<1>4. /\ calls'[c].pc \in {"publish", "done"} /\ calls'[c].name = calls[c].name
      /\ calls'[c].path = calls[c].path /\ calls'[c].id = calls[c].id
      /\ calls'[c].file = calls[c].file
      /\ \A d \in Calls \ {c} : calls'[d] = calls[d]
  BY <1>1, <1>3 DEF DInv, CallsOK, CallOK
<1>5. /\ wins'[calls[c].path] = WrittenOver(wins[calls[c].path], new, Len(new.tail))
      /\ \A p \in Paths : p # calls[c].path => wins'[p] = wins[p]
  BY <1>1, <1>2 DEF Write
<1>6. Container(calls'[c]) = new
  BY <1>2, <1>4 DEF Container
<1>7. ASSUME calls[c].path # None, Alone(c)
      PROVE  Own(calls'[c], wins'[calls[c].path])
  <2>1. wins[calls[c].path] = Blank(calls[c].name)
    BY <1>1, <1>7 DEF PathInv, OwnContainers, Own
  <2>2. Complete(new)
    BY <1>1, <1>2, ContainerFacts DEF DInv
  <2>3. wins'[calls[c].path] = new
    BY <1>1, <1>5, <2>1, <2>2, WholeOverBlank
  <2> QED
    BY <1>4, <1>6, <2>3 DEF Own
<1>8. calls'[c].pc \notin {"idle", "pick"}
  BY <1>4
<1> QED
  BY <1>4, <1>5, <1>7, <1>8, PathsMove

\* A publication leaves the containers alone.
LEMMA PublicationPaths ==
    ASSUME DInv, PathInv, NEW c \in Calls, Announce(c) \/ Put(c)
    PROVE  PathInv'
<1>1. CallOK(c) /\ calls[c].pc \in {"publish", "put"} /\ wins' = wins
  BY DEF Announce, Put, At, DInv, CallsOK
<1>2. PICK place \in {"put", "done"} : calls' = [calls EXCEPT ![c].pc = place]
  BY DEF Announce, Put
<1>3. /\ calls'[c].pc \in {"put", "done"} /\ calls'[c].name = calls[c].name
      /\ calls'[c].path = calls[c].path /\ calls'[c].id = calls[c].id
      /\ calls'[c].file = calls[c].file
      /\ \A d \in Calls \ {c} : calls'[d] = calls[d]
  BY <1>1, <1>2 DEF DInv, CallsOK, CallOK
<1>4. Container(calls'[c]) = Container(calls[c])
  BY <1>3 DEF Container
<1>5. (calls[c].path # None /\ Alone(c)) => Own(calls'[c], wins'[calls[c].path])
  BY <1>1, <1>3, <1>4 DEF PathInv, OwnContainers, Own
<1>6. calls'[c].pc \notin {"idle", "pick"}
  BY <1>3
<1> QED
  BY <1>1, <1>3, <1>5, <1>6, PathsMove

\* A write that breaks off leaves nothing, an empty file, a part or the whole.
LEMMA BreaksPaths ==
    ASSUME DInv, PathInv, NEW c \in Calls, NEW ends \in {"done", "failed"}, Breaks(c, ends),
           calls[c].pc \notin {"idle", "done", "failed"},
           ends = "done" => calls[c].pc \in {"publish", "put"}
    PROVE  PathInv'
<1>1. CallOK(c) /\ wins = [p \in Paths |-> wins[p]]
  BY DEF DInv, WinsOK, CallsOK
<1>2. /\ calls'[c].pc = ends /\ calls'[c].name = calls[c].name
      /\ calls'[c].path = calls[c].path /\ calls'[c].id = calls[c].id
      /\ calls'[c].file = calls[c].file
      /\ \A d \in Calls \ {c} : calls'[d] = calls[d]
  BY <1>1 DEF Breaks, DInv, CallsOK, CallOK
<1>3. /\ Container(calls'[c]) = Container(calls[c]) /\ Part(calls'[c]) = Part(calls[c])
  <2>1. Container(calls'[c]) = Container(calls[c])
    BY <1>2 DEF Container
  <2> QED
    BY <1>2, <2>1 DEF Part
<1>4. CASE wins' = wins
  <2>1. (calls[c].path # None /\ Alone(c)) => Own(calls[c], wins[calls[c].path])
    BY DEF PathInv, OwnContainers
  <2>2. calls[c].path # None => calls[c].pc \in {"create", "write", "publish", "put"}
    BY <1>1 DEF CallOK, PCs, PathInv, OwnPaths
  <2>3. (calls[c].path # None /\ Alone(c)) => Own(calls'[c], wins'[calls[c].path])
    BY <1>2, <1>3, <1>4, <2>1, <2>2 DEF Own
  <2> QED
    BY <1>2, <1>4, <2>3, PathsMove
<1>5. CASE wins' # wins
  <2>1. PICK new : new = Container(calls[c])
    OBVIOUS
  <2>2. /\ calls[c].pc = "write" /\ ends = "failed"
        /\ wins' = [wins EXCEPT ![calls[c].path] =
                        WrittenOver(wins[calls[c].path], new, Len(new.tail) - 1)]
    BY <1>5, <2>1 DEF Breaks, At, PartOfContainer
  <2>3. calls[c].path \in Paths
    BY <1>1, <2>2 DEF CallOK, Sealing
  <2>4. /\ wins'[calls[c].path] = WrittenOver(wins[calls[c].path], new, Len(new.tail) - 1)
        /\ \A p \in Paths : p # calls[c].path => wins'[p] = wins[p]
    BY <1>1, <2>2, <2>3
  <2>5. ASSUME calls[c].path # None, Alone(c)
        PROVE  Own(calls'[c], wins'[calls[c].path])
    <3>1. wins[calls[c].path] = Blank(calls[c].name)
      BY <2>2, <2>5 DEF PathInv, OwnContainers, Own
    <3>2. wins'[calls[c].path] = Part(calls[c])
      BY <2>1, <2>4, <3>1 DEF Part
    <3> QED
      BY <1>2, <1>3, <2>2, <3>2 DEF Own
  <2> QED
    BY <1>2, <2>4, <2>5, PathsMove
<1> QED
  BY <1>4, <1>5

\* While no call moves, only containers in Downloads are written.
LEMMA StillPaths ==
    ASSUME DInv, PathInv, calls' = calls,
           \A p \in Paths : p[2] # Downloads => wins'[p] = wins[p]
    PROVE  PathInv'
<1>1. OwnPaths'
  BY DEF PathInv, OwnPaths
<1>2. Owned'
  BY DEF PathInv, Owned
<1>3. ASSUME NEW d \in Calls, calls[d].path # None
      PROVE  wins'[calls[d].path] = wins[calls[d].path]
  BY <1>3 DEF DInv, CallsOK, CallOK, PathInv, OwnPaths
<1>4. OwnContainers'
  BY <1>3 DEF PathInv, OwnContainers, Alone
<1> QED
  BY <1>1, <1>2, <1>4 DEF PathInv

\* A call that begins has no path yet.
LEMMA BeginPaths ==
    ASSUME DInv, PathInv, NEW c \in Calls, calls[c].pc = "idle",
           calls'[c].pc = "pick", calls'[c].path = None, wins' = wins,
           \A d \in Calls \ {c} : calls'[d] = calls[d]
    PROVE  PathInv'
<1>1. calls[c].path = None
  BY DEF PathInv, OwnPaths
<1>2. \A d \in Calls : calls'[d].path = calls[d].path
  BY <1>1
<1>3. OwnPaths' /\ Owned'
  BY <1>2 DEF PathInv, OwnPaths, Owned
<1>4. \A d \in Calls : Alone(d)' <=> Alone(d)
  BY <1>2 DEF Alone
<1>5. OwnContainers'
  BY <1>1, <1>2, <1>4 DEF PathInv, OwnContainers
<1> QED
  BY <1>3, <1>5 DEF PathInv

\* Every step keeps what the calls find at their paths.
LEMMA PathInvStep ==
    ASSUME DInv, PathInv, [Next]_vars
    PROVE  PathInv'
<1>1. ASSUME NEW c \in Calls, WinSealStep(c) \/ IoError(c) \/ Kill(c)
      PROVE  PathInv'
  <2>1. CASE WinSealStep(c)
    BY <2>1, PickPaths, CreatePaths, WritePaths, PublicationPaths DEF WinSealStep
  <2>2. CASE IoError(c)
    BY <2>2, BreaksPaths DEF IoError
  <2>3. CASE Kill(c)
    BY <2>3, BreaksPaths DEF Kill
  <2> QED
    BY <1>1, <2>1, <2>2, <2>3
<1>2. ASSUME NEW c \in Calls, NEW id \in Ids, NEW n \in FileNames, NEW f \in Contents,
             NEW public \in BOOLEAN, WinSeal(c, id, n, f, public)
      PROVE  PathInv'
  BY <1>2, CallBegins, BeginPaths
<1>3. CASE calls' = calls /\ wins' = wins
  BY <1>3, StillPaths
<1>4. ASSUME NEW n \in Names, NEW new, wins' = [wins EXCEPT ![<<n, Downloads>>] = new],
             calls' = calls
      PROVE  PathInv'
  <2>1. \A p \in Paths : p[2] # Downloads => wins'[p] = wins[p]
    BY <1>4 DEF DInv, WinsOK
  <2> QED
    BY <1>4, <2>1, StillPaths
<1> QED
  BY <1>1, <1>2, <1>3, <1>4, StepKinds
-----------------------------------------------------------------------------
\* A parcel nobody changed is what was handed out.
LEMMA HandedOverStep ==
    ASSUME DInv, HandedOver, [Next]_vars
    PROVE  HandedOver'
<1>1. CASE parcel' = parcel
  <2>1. ProofsStay
    BY EveryProofStays
  <2> QED
    BY <1>1, <2>1 DEF ProofsStay, HandedOver
<1>2. ASSUME NEW id \in Ids, NEW n \in Names, NEW f \in Contents,
             AddProof(id, f, f), Hand(Pack(n, f, Text(id)), id)
      PROVE  HandedOver'
  <2>1. id \in DOMAIN proofs' /\ proofs'[id].sealed = f /\ proofs'[id].claims = f
    BY <1>2, AddedProof DEF SealedAs
  <2>2. PICK new : new = Pack(n, f, Text(id))
    OBVIOUS
  <2>3. parcel'.of = id /\ parcel'.container = new
    BY <1>2, <2>2 DEF Hand
  <2> QED
    BY <2>1, <2>2, <2>3 DEF HandedOver
<1>3. ASSUME NEW c, Change(c), parcel # None
      PROVE  HandedOver'
  <2>1. parcel.changes \in Nat
        /\ parcel = [container |-> parcel.container, of |-> parcel.of, changes |-> parcel.changes]
    BY <1>3, DeliveryAssumption DEF DInv, ParcelOK
  <2>2. parcel'.changes = parcel.changes + 1
    BY <1>3, <2>1 DEF Change
  <2> QED
    BY <2>1, <2>2 DEF HandedOver
<1>4. ASSUME NEW c \in Calls, WinSealStep(c) \/ IoError(c) \/ Kill(c)
      PROVE  parcel' = parcel
  BY <1>4, OneCallMoves
<1>5. ASSUME NEW c \in Calls, NEW id \in Ids, NEW n \in FileNames, NEW f \in Contents,
             NEW public \in BOOLEAN, WinSeal(c, id, n, f, public)
      PROVE  parcel' = parcel
  BY <1>5 DEF WinSeal
<1>6. ASSUME NEW id \in Ids, NEW n \in Names, NEW f \in Contents,
             SealFile(id, n, f) \/ SealUpload(id, n, f)
      PROVE  HandedOver'
  BY <1>2, <1>6 DEF SealFile, SealUpload
<1>7. CASE Alter \/ (\E id \in Ids, f \in Contents : EditProof(id, f))
  BY <1>3, <1>7 DEF Alter, EditProof, Changeable
<1>8. CASE (\E force \in BOOLEAN : WinOpen(force)) \/ DesktopOpen \/ Publish \/ UNCHANGED vars
  BY <1>1, <1>8 DEF WinOpen, DesktopOpen, Publish, vars
<1> QED
  BY <1>1, <1>4, <1>5, <1>6, <1>7, <1>8 DEF Next
-----------------------------------------------------------------------------
\* A content's place on the site that a step does not touch.
LEMMA SiteElsewhere ==
    ASSUME NEW f, SiteSound(f), ProofsStay, site'[f] = site[f],
           \A d \in Calls : Puts(d, f)' <=> Puts(d, f),
           Announced(f)' => Announced(f)
    PROVE  SiteSound(f)'
<1>1. Writing(f, Calls)' <=> Writing(f, Calls)
  BY DEF Writing, Puts
<1>2. ASSUME NEW id \in DOMAIN proofs, SealedAs(id, f)
      PROVE  id \in DOMAIN proofs' /\ SealedAs(id, f)'
  BY <1>2 DEF ProofsStay, SealedAs
<1> QED
  BY <1>1, <1>2 DEF SiteSound

\* A call that neither writes a proof nor has just announced one.
LEMMA SiteAside ==
    ASSUME SiteInv, ProofsStay, NEW c \in Calls, UNCHANGED <<site, spoiled>>,
           \A d \in Calls \ {c} : calls'[d] = calls[d],
           calls[c].pc # "put", calls'[c].pc # "put",
           calls'[c].pc = "done" => ~ calls'[c].public
    PROVE  SiteInv'
<1>1. ASSUME NEW f \in Contents \ spoiled
      PROVE  SiteSound(f)'
  <2>1. \A d \in Calls : Puts(d, f)' <=> Puts(d, f)
    BY DEF Puts, At
  <2>2. Announced(f)' => Announced(f)
    BY DEF Announced, At
  <2> QED
    BY <2>1, <2>2, SiteElsewhere DEF SiteInv
<1> QED
  BY <1>1 DEF SiteInv

\* The announcement makes the proof blank; a second writer spoils it.
LEMMA AnnounceSite ==
    ASSUME DInv, SiteInv, ProofsStay, NEW c \in Calls, Announce(c)
    PROVE  SiteInv'
<1>1. CallOK(c) /\ calls[c].pc = "publish" /\ calls[c].file \in Contents
      /\ DOMAIN site = Contents
  BY DEF Announce, At, DInv, CallsOK, CallOK, SiteOK
<1>2. /\ calls'[c].pc = "put" /\ calls'[c].file = calls[c].file
      /\ \A d \in Calls \ {c} : calls'[d] = calls[d]
      /\ spoiled \subseteq spoiled'
  BY <1>1 DEF Announce, DInv, CallsOK, CallOK
<1>3. ASSUME NEW f \in Contents \ spoiled'
      PROVE  SiteSound(f)'
  <2>1. CASE f = calls[c].file
    <3>1. \A d \in Calls \ {c} : ~ Puts(d, f)
      BY <1>3, <2>1 DEF Announce, Writing, Puts
    <3>2. \A d \in Calls : Puts(d, f)' <=> d = c
      BY <1>2, <2>1, <3>1 DEF Puts, At
    <3>3. site'[f] = <<>>
      BY <1>1, <2>1 DEF Announce, DInv, SiteOK
    <3>4. Writing(f, Calls)'
      BY <3>2 DEF Writing, Puts
    <3> QED
      BY <3>2, <3>3, <3>4 DEF SiteSound
  <2>2. CASE f # calls[c].file
    <3>1. site'[f] = site[f]
      BY <2>2 DEF Announce, DInv, SiteOK
    <3>2. \A d \in Calls : Puts(d, f)' <=> Puts(d, f)
      BY <1>2, <2>2 DEF Puts, At
    <3>3. Announced(f)' => Announced(f)
      BY <1>2 DEF Announced, At
    <3> QED
      BY <1>2, <1>3, <3>1, <3>2, <3>3, SiteElsewhere DEF SiteInv
  <2> QED
    BY <2>1, <2>2
<1> QED
  BY <1>3 DEF SiteInv

\* The one call that writes a proof leaves its whole text.
LEMMA PutSite ==
    ASSUME DInv, SealedCalls, SiteInv, ProofsStay, NEW c \in Calls, Put(c)
    PROVE  SiteInv'
<1>1. CallOK(c) /\ calls[c].pc = "put" /\ calls[c].file \in Contents
      /\ calls[c].id \in DOMAIN proofs /\ calls[c].id \in Ids
      /\ SealedAs(calls[c].id, calls[c].file)
  BY DEF Put, At, DInv, CallsOK, CallOK, ProofsOK, SealedCalls
<1>2. /\ calls'[c].pc = "done" /\ calls'[c].file = calls[c].file
      /\ \A d \in Calls \ {c} : calls'[d] = calls[d]
      /\ spoiled' = spoiled /\ proofs' = proofs
  BY <1>1 DEF Put, DInv, CallsOK, CallOK
<1>3. ASSUME NEW f \in Contents \ spoiled
      PROVE  SiteSound(f)'
  <2>1. CASE f = calls[c].file
    <3>1. Puts(c, f) /\ Writing(f, Calls)
      BY <1>1, <2>1 DEF Puts, Writing, At
    <3>2. site[f] = <<>> /\ \A d \in Calls : Puts(d, f) => d = c
      BY <1>3, <3>1 DEF SiteInv, SiteSound
    <3>3. \A d \in Calls : ~ Puts(d, f)'
      BY <1>2, <3>2 DEF Puts, At
    <3>4. ~ Writing(f, Calls)'
      BY <3>3 DEF Writing, Puts
    <3>5. PICK id, text : id = calls[c].id /\ text = Text(id)
      OBVIOUS
    <3>6. site'[f] = Over(<<>>, text, Len(text)) /\ text \in Seq(Bytes)
      BY <1>1, <2>1, <3>2, <3>5, TextBytes DEF Put, DInv, SiteOK
    <3>7. Over(<<>>, text, Len(text)) = text
      <4>1. SubSeq(text, 1, Len(text)) = text /\ Len(text) \in Nat
        BY <3>6, SubSeqFull
      <4>2. SubSeq(<<>>, Len(text) + 1, Len(<<>>)) = <<>>
        BY <4>1
      <4>3. text \o <<>> = text
        BY <3>6
      <4> QED
        BY <4>1, <4>2, <4>3, Zenon DEF Over
    <3>8. SealedAs(id, f)' /\ id \in DOMAIN proofs'
      BY <1>1, <1>2, <2>1, <3>5 DEF SealedAs
    <3> QED
      BY <3>3, <3>4, <3>5, <3>6, <3>7, <3>8 DEF SiteSound
  <2>2. CASE f # calls[c].file
    <3>1. site'[f] = site[f]
      BY <2>2 DEF Put, DInv, SiteOK
    <3>2. \A d \in Calls : Puts(d, f)' <=> Puts(d, f)
      BY <1>2, <2>2 DEF Puts, At
    <3>3. Announced(f)' => Announced(f)
      BY <1>2, <2>2 DEF Announced, At
    <3> QED
      BY <1>3, <3>1, <3>2, <3>3, SiteElsewhere DEF SiteInv
  <2> QED
    BY <2>1, <2>2
<1> QED
  BY <1>2, <1>3 DEF SiteInv

\* A write that breaks off spoils the proof it was at.
LEMMA BreaksSite ==
    ASSUME DInv, SiteInv, ProofsStay, NEW c \in Calls, NEW ends \in {"done", "failed"},
           Breaks(c, ends)
    PROVE  SiteInv'
<1>1. CallOK(c)
  BY DEF DInv, CallsOK
<1>2. /\ calls'[c].pc = ends /\ ~ calls'[c].public
      /\ \A d \in Calls \ {c} : calls'[d] = calls[d]
      /\ spoiled \subseteq spoiled'
  BY <1>1 DEF Breaks, DInv, CallsOK, CallOK
<1>3. ASSUME NEW f \in Contents \ spoiled'
      PROVE  SiteSound(f)'
  <2>1. ~ Puts(c, f)
    BY <1>3 DEF Breaks, Puts
  <2>2. site'[f] = site[f]
    BY <2>1 DEF Breaks, PartOfProof, Puts, DInv, SiteOK
  <2>3. \A d \in Calls : Puts(d, f)' <=> Puts(d, f)
    BY <1>2, <2>1 DEF Puts, At
  <2>4. Announced(f)' => Announced(f)
    BY <1>2 DEF Announced, At
  <2> QED
    BY <1>2, <1>3, <2>2, <2>3, <2>4, SiteElsewhere DEF SiteInv
<1> QED
  BY <1>3 DEF SiteInv

\* A proof published from a container spoils the place unless it is whole.
LEMMA PublishSite ==
    ASSUME DInv, SiteInv, ProofsStay, Publish
    PROVE  SiteInv'
<1>1. PICK id : id = Parse(ProofText(parcel.container))
  OBVIOUS
<1>2. id \in DOMAIN proofs /\ id \in Ids /\ proofs[id].claims \in Contents
  BY <1>1, ParsedIsThere DEF Publish, Readable, DInv, ProofsOK
<1>3. PICK text : text = Text(id)
  OBVIOUS
<1>4. PICK g : g = proofs[id].claims
  OBVIOUS
<1>5. PICK m : /\ site' = [site EXCEPT ![g] = SubSeq(text, 1, m)]
               /\ spoiled' = IF m # Len(text) \/ g # proofs[id].sealed \/ Writing(g, Calls)
                             THEN spoiled \cup {g} ELSE spoiled
  BY <1>1, <1>3, <1>4 DEF Publish
<1>6. calls' = calls /\ proofs' = proofs /\ spoiled \subseteq spoiled'
  BY <1>5 DEF Publish
<1>7. ASSUME NEW f \in Contents \ spoiled'
      PROVE  SiteSound(f)'
  <2>1. CASE f = g
    <3>1. m = Len(text) /\ g = proofs[id].sealed /\ ~ Writing(g, Calls)
      BY <1>5, <1>7, <2>1
    <3>2. site'[f] = text
      <4>1. SubSeq(text, 1, Len(text)) = text
        BY <1>2, <1>3, TextBytes, SubSeqFull
      <4> QED
        BY <1>2, <1>4, <1>5, <2>1, <3>1, <4>1 DEF DInv, SiteOK
    <3>3. SealedAs(id, f)'
      BY <1>4, <1>6, <2>1, <3>1 DEF SealedAs
    <3>4. ~ Writing(f, Calls)' /\ \A d \in Calls : ~ Puts(d, f)'
      BY <1>6, <2>1, <3>1 DEF Writing, Puts, At
    <3> QED
      BY <1>2, <1>3, <1>6, <3>2, <3>3, <3>4 DEF SiteSound
  <2>2. CASE f # g
    <3>1. site'[f] = site[f]
      BY <1>5, <2>2 DEF DInv, SiteOK
    <3>2. /\ \A d \in Calls : Puts(d, f)' <=> Puts(d, f)
          /\ Announced(f)' => Announced(f)
      BY <1>6 DEF Puts, Announced, At
    <3> QED
      BY <1>6, <1>7, <3>1, <3>2, SiteElsewhere DEF SiteInv
  <2> QED
    BY <2>1, <2>2
<1> QED
  BY <1>7 DEF SiteInv

\* Every step keeps what the site shows.
LEMMA SiteStep ==
    ASSUME DInv, SealedCalls, SiteInv, [Next]_vars
    PROVE  SiteInv'
<1>1. ProofsStay
  BY EveryProofStays
<1>2. ASSUME NEW c \in Calls, Pick(c) \/ Create(c) \/ Write(c)
      PROVE  SiteInv'
  <2>1. /\ calls[c].pc \in {"pick", "create", "write"} /\ UNCHANGED <<site, spoiled>>
        /\ \A d \in Calls \ {c} : calls'[d] = calls[d]
    BY <1>2, OneCallMoves DEF WinSealStep, Pick, Create, Write, At
  <2>2. calls'[c].pc # "put" /\ (calls'[c].pc = "done" => ~ calls'[c].public)
    <3>1. CallOK(c) /\ calls = [d \in Calls |-> calls[d]]
      BY DEF DInv, CallsOK
    <3>2. CASE Pick(c)
      <4>1. PICK path : calls' = [calls EXCEPT ![c].pc = "create", ![c].path = path]
        BY <3>2 DEF Pick
      <4> QED
        BY <3>1, <4>1 DEF CallOK
    <3>3. CASE Create(c)
      BY <3>1, <3>3 DEF Create, CallOK
    <3>4. CASE Write(c)
      <4>1. calls' = [calls EXCEPT ![c].pc = IF calls[c].public THEN "publish" ELSE "done"]
        BY <3>4 DEF Write
      <4> QED
        BY <3>1, <4>1 DEF CallOK
    <3> QED
      BY <1>2, <3>2, <3>3, <3>4
  <2>3. calls[c].pc # "put"
    BY <2>1
  <2> QED
    BY <1>1, <2>1, <2>2, <2>3, SiteAside
<1>3. ASSUME NEW c \in Calls, IoError(c) \/ Kill(c)
      PROVE  SiteInv'
  BY <1>1, <1>3, BreaksSite DEF IoError, Kill
<1>4. ASSUME NEW c \in Calls, NEW id \in Ids, NEW n \in FileNames, NEW f \in Contents,
             NEW public \in BOOLEAN, WinSeal(c, id, n, f, public)
      PROVE  SiteInv'
  <2>1. /\ calls[c].pc # "put" /\ calls'[c].pc # "put" /\ calls'[c].pc # "done"
        /\ \A d \in Calls \ {c} : calls'[d] = calls[d]
        /\ UNCHANGED <<site, spoiled>>
    BY <1>4, CallBegins
  <2> QED
    BY <1>1, <2>1, SiteAside
<1>5. CASE calls' = calls /\ UNCHANGED <<site, spoiled>>
  <2>1. \A f : /\ \A d \in Calls : Puts(d, f)' <=> Puts(d, f)
               /\ Announced(f)' => Announced(f)
    BY <1>5 DEF Puts, Announced, At
  <2> QED
    BY <1>1, <1>5, <2>1, SiteElsewhere DEF SiteInv
<1>6. CASE Publish
  BY <1>1, <1>6, PublishSite
<1>7. ASSUME NEW c \in Calls, WinSealStep(c)
      PROVE  SiteInv'
  BY <1>1, <1>2, <1>7, AnnounceSite, PutSite DEF WinSealStep
<1> QED
  BY <1>3, <1>4, <1>5, <1>6, <1>7, StepKinds
-----------------------------------------------------------------------------
\* The invariant holds at first.
LEMMA InitKInv == Init => KInv
<1> SUFFICES ASSUME Init PROVE KInv
  OBVIOUS
<1>1. \A c \in Calls : calls[c] = Idle
  BY DEF Init
<1>2. Idle.pc = "idle" /\ Idle.path = None
  BY DEF Idle
<1>3. SealedCalls
  BY <1>1, <1>2 DEF SealedCalls
<1>4. PathInv
  BY <1>1, <1>2 DEF Init, PathInv, OwnPaths, Owned, OwnContainers
<1>5. HandedOver
  BY DEF Init, HandedOver
<1>6. SiteInv
  BY <1>1, <1>2 DEF SiteInv, SiteSound, Writing, Puts, Announced, At
<1> QED
  BY <1>3, <1>4, <1>5, <1>6, InitDInv DEF KInv

\* Every step keeps the invariant.
LEMMA StepKInv == KInv /\ [Next]_vars => KInv'
<1> SUFFICES ASSUME KInv, [Next]_vars PROVE KInv'
  OBVIOUS
<1>1. ProofsStay /\ DInv'
  BY EveryProofStays, StepDInv DEF KInv
<1> QED
  BY <1>1, SealedCallsStep, PathInvStep, HandedOverStep, SiteStep DEF KInv

\* A container that is cut reads as damaged, wherever it is and was cut.
LEMMA CutsAreDamaged ==
    ASSUME KInv, NEW c \in Containers, Intact(c), NEW n \in 0 .. Size(c) - 1
    PROVE  SeenAsDamaged(Cut(c, n))
<1>1. PICK id \in DOMAIN proofs, f \in Contents : c = Pack(c.name, f, Text(id))
  BY DEF Intact
<1>2. c \in Box
  BY DEF KInv, DInv, Containers, WinsOK, ParcelOK, Good, Complete
<1>3. PICK name : name = c.name
  OBVIOUS
<1>4. IsName(name)
  BY <1>2, <1>3, SanitizedTwice DEF Box
<1>5. id \in Ids /\ Text(id) \in Seq(Bytes) /\ f \in Seq(Bytes)
  BY TextBytes, ContentBytes DEF KInv, DInv, ProofsOK
<1>6. c = Pack(name, f, Text(id))
  BY <1>1, <1>3
<1>7. n \in 0 .. Size(Pack(name, f, Text(id))) - 1
  BY <1>6
<1>8. \A k \in 1 .. Len(Text(id)) - 1 : ~ BracketsBalanced(SubSeq(Text(id), 1, k))
  BY <1>5, TextBalances
<1> QED
  BY <1>4, <1>5, <1>6, <1>7, <1>8, CutIsDamaged

\* What a failed call left at a path of its own reads as damaged, or verifies.
LEMMA FailedIsDamaged ==
    ASSUME KInv, NEW c \in Calls, calls[c].pc = "failed", calls[c].path # None, Alone(c),
           wins[calls[c].path] # None
    PROVE  LET left == wins[calls[c].path] IN SeenAsDamaged(left) \/ CheckBundle(left) = "Verified"
<1>1. wins[calls[c].path] \in {Blank(calls[c].name), Part(calls[c]), Container(calls[c])}
  BY DEF KInv, PathInv, OwnContainers, Own
<1>2. CallOK(c) /\ ProofsOK
  BY DEF KInv, DInv, CallsOK
<1>3. /\ calls[c].id \in DOMAIN proofs /\ calls[c].name \in Names /\ calls[c].file \in Contents
      /\ SealedAs(calls[c].id, calls[c].file)
  BY <1>2 DEF CallOK, KInv, SealedCalls
<1>4. SeenAsDamaged(Container(calls[c])) \/ CheckBundle(Container(calls[c])) = "Verified"
  BY <1>2, <1>3, WholeIsHonest DEF Container
<1>5. SeenAsDamaged(Part(calls[c]))
  BY <1>2, PartIsDamaged
<1> QED
  BY <1>1, <1>4, <1>5, BlankIsDamaged

(***************************************************************************)
(* Damage is never taken for tampering: wherever a container is cut, it is *)
(* Damaged to the surfaces that know this state and Invalid to the others, *)
(* and so is what a failed or killed `win seal` left at a path of its own, *)
(* unless it was already whole.                                            *)
(***************************************************************************)
THEOREM DamageIsSeen == Spec => []TruncatedIsDamaged
<1>1. KInv => TruncatedIsDamaged
  BY CutsAreDamaged, FailedIsDamaged DEF TruncatedIsDamaged, Alone
<1> QED
  BY <1>1, InitKInv, StepKInv, PTL DEF Spec

\* What was handed out and not changed is received.
LEMMA ParcelDelivers ==
    ASSUME KInv, parcel # None, parcel.changes = 0, Fits(parcel.container.name)
    PROVE  Delivers(parcel.container, parcel.of, parcel.container.name)
<1>1. PICK id : id = parcel.of
  OBVIOUS
<1>2. PICK f : f = proofs[id].sealed
  OBVIOUS
<1>3. PICK m \in Names : parcel.container = Pack(m, f, Text(id))
  BY <1>1, <1>2 DEF KInv, HandedOver
<1>4. ProofsOK /\ id \in DOMAIN proofs /\ f \in Contents /\ SealedAs(id, f)
  BY <1>1, <1>2 DEF KInv, DInv, ProofsOK, HandedOver, SealedAs
<1>5. parcel.container.name = Sanitize(m)
  BY <1>3 DEF Pack
<1>6. /\ IsName(m) /\ Fits(m)
      /\ Sanitize(parcel.container.name) = parcel.container.name
  <2>1. Sanitize(m).len = m.len /\ Sanitize(m).nul = m.nul
    BY NameFacts DEF Sanitize, IsName
  <2>2. Fits(m)
    BY <1>5, <2>1 DEF Fits
  <2> QED
    BY <1>5, <2>2, NameFacts, SanitizedTwice
<1>7. /\ CheckBundle(parcel.container) = "Verified" /\ OpenStatus(parcel.container) = "Verified"
      /\ FileBytes(parcel.container) = f
  BY <1>3, <1>4, <1>6, WholeVerifies
<1> QED
  BY <1>1, <1>2, <1>6, <1>7 DEF Delivers

\* What a call wrote, and alone, is received.
LEMMA CallDelivers ==
    ASSUME KInv, NEW c \in Calls, calls[c].pc \in {"publish", "put", "done"},
           Fits(calls[c].name), Alone(c)
    PROVE  Delivers(wins[calls[c].path], calls[c].id, calls[c].name)
<1>1. CallOK(c) /\ ProofsOK
  BY DEF KInv, DInv, CallsOK
<1>2. PICK id, f, n : id = calls[c].id /\ f = calls[c].file /\ n = calls[c].name
  OBVIOUS
<1>3. id \in DOMAIN proofs /\ n \in Names /\ f \in Contents /\ SealedAs(id, f)
  BY <1>1, <1>2 DEF CallOK, KInv, SealedCalls
<1>4. calls[c].path # None
  BY <1>1, PathsAssumption DEF CallOK, Sealing
<1>5. wins[calls[c].path] = Pack(n, f, Text(id))
  BY <1>2, <1>4 DEF KInv, PathInv, OwnContainers, Own, Container
<1>6. IsName(n) /\ Fits(n)
  BY <1>2, <1>3, NameFacts
<1> QED
  BY <1>1, <1>2, <1>3, <1>5, <1>6, WholeVerifies DEF Delivers, SealedAs

(***************************************************************************)
(* What was sealed is received: under a name a container can carry, what   *)
(* was handed out and not changed, and what a `win seal` wrote at a path   *)
(* no other call chose, verifies and unpacks to the file that was sealed.  *)
(***************************************************************************)
THEOREM SealedIsReceived == Spec => []DeliveredVerifies
<1>1. KInv => DeliveredVerifies
  BY ParcelDelivers, CallDelivers DEF DeliveredVerifies
<1> QED
  BY <1>1, InitKInv, StepKInv, PTL DEF Spec

(***************************************************************************)
(* An announced share URL resolves: the site shows a proof that verifies   *)
(* the content, whatever else was sealed and published, unless a           *)
(* publication of it failed, is under way, ran beside another or was of an *)
(* edited proof.                                                           *)
(***************************************************************************)
THEOREM SharesResolve == Spec => []PublishedResolves
<1>1. ASSUME KInv, NEW f \in Contents \ spoiled, Announced(f), ~ Writing(f, Calls)
      PROVE  RecognizeBundle(site[f], f) = "Verified"
  <2>1. PICK id \in DOMAIN proofs : SealedAs(id, f) /\ site[f] = Text(id)
    BY <1>1 DEF KInv, SiteInv, SiteSound
  <2>2. Parse(site[f]) = id /\ id # None
    BY <1>1, <2>1, TextParses, DeliveryAssumption DEF KInv, DInv, ProofsOK
  <2>3. Verification(id, f) = "Verified" /\ proofs[id].claims = f
    BY <2>1, GenuineVerifies DEF SealedAs
  <2> QED
    BY <2>2, <2>3 DEF RecognizeBundle, BuildReading
<1>2. KInv => PublishedResolves
  BY <1>1 DEF PublishedResolves
<1> QED
  BY <1>2, InitKInv, StepKInv, PTL DEF Spec
=============================================================================
