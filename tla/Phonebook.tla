------------------------------- MODULE Phonebook -------------------------------
(* The records of the phonebook file: core/phonebook.c.  A string is a buffer  *)
(* of bytes up to its first zero; what is behind the zero means nothing.       *)
EXTENDS Integers, TLAPS

PHONEBOOK_MAX == 20
PHONEBOOK_NAME_SIZE == 16
PHONEBOOK_HOST_SIZE == 64
HOST_AT == 17
PORT_AT == 82
PROFILE_AT == 84

Byte == 0..255
Word == 0..256 * 256 - 1
Header == [0..5 -> Byte]
Record == [0..84 -> Byte]

TELNET_PROFILE_PETSCII_80 == 1
TELNET_PROFILE_VT100_80 == 3

PhonebookEntry ==
  [name : [0..PHONEBOOK_NAME_SIZE -> Byte], hostname : [0..PHONEBOOK_HOST_SIZE -> Byte],
   port : Word, profile : Byte]

-----------------------------------------------------------------------------
(* The header: a magic in PETSCII or ASCII, a version, and how many records.   *)

Magic(data) ==
  \/ data[0] = 213 /\ data[1] = 212 /\ data[2] = 208 /\ data[3] = 194
  \/ data[0] = 85 /\ data[1] = 84 /\ data[2] = 80 /\ data[3] = 66

HeaderEncode(count) ==
  [i \in 0..5 |-> CASE i = 0 -> 213 [] i = 1 -> 212 [] i = 2 -> 208 [] i = 3 -> 194
                    [] i = 4 -> 1 [] OTHER -> count]

HeaderDecode(data) ==
  IF data[4] = 1 /\ data[5] <= PHONEBOOK_MAX /\ Magic(data) THEN data[5] ELSE -1

-----------------------------------------------------------------------------
(* The records.                                                                *)

\* s[i] is behind the end of the string, or its end.
Over(s, i) == \E j \in 0..i : s[j] = 0

ValidString(s, limit) ==
  /\ s[0] # 0
  /\ \E end \in 0..limit : s[end] = 0 /\ \A i \in 0..end - 1 : s[i] \in 32..126

ValidEntry(entry) ==
  /\ ValidString(entry.name, PHONEBOOK_NAME_SIZE)
  /\ ValidString(entry.hostname, PHONEBOOK_HOST_SIZE)
  /\ entry.port # 0
  /\ entry.profile \in TELNET_PROFILE_PETSCII_80..TELNET_PROFILE_VT100_80

\* strlen() bytes are copied over zeros.
Field(s, i) == IF Over(s, i) THEN 0 ELSE s[i]

\* The record of an entry that is valid; there is none of another.
EntryEncode(entry) ==
  [i \in 0..84 |->
     IF i < HOST_AT      THEN Field(entry.name, i)
     ELSE IF i < PORT_AT THEN Field(entry.hostname, i - HOST_AT)
     ELSE IF i = PORT_AT THEN entry.port % 256
     ELSE IF i = PORT_AT + 1 THEN entry.port \div 256
     ELSE entry.profile]

\* The entry of a record; it counts only if it is valid.
EntryDecode(data) ==
  [name     |-> [i \in 0..PHONEBOOK_NAME_SIZE |-> data[i]],
   hostname |-> [i \in 0..PHONEBOOK_HOST_SIZE |-> data[HOST_AT + i]],
   port     |-> data[PORT_AT] + 256 * data[PORT_AT + 1],
   profile  |-> IF data[PROFILE_AT] = 0 THEN TELNET_PROFILE_PETSCII_80
                ELSE data[PROFILE_AT]]

-----------------------------------------------------------------------------
(* What is written is read back.                                               *)

\* The same string, whatever is behind its end.
SameString(s, t, limit) ==
  \A i \in 0..limit : (Over(s, i) <=> Over(t, i)) /\ (Over(s, i) \/ s[i] = t[i])

\* A valid string put into a record is valid there, and the same string.
LEMMA FieldKeeps ==
  ASSUME NEW limit \in Nat, NEW s \in [0..limit -> Byte], ValidString(s, limit),
         NEW t, t = [i \in 0..limit |-> Field(s, i)]
  PROVE  ValidString(t, limit) /\ SameString(t, s, limit)
PROOF
<1>0. \A b \in 32..126 : b # 0
  OBVIOUS
<1>1. \A i \in 0..limit : t[i] = IF Over(s, i) THEN 0 ELSE s[i]
  BY DEF Field
<1>2. PICK end \in 0..limit : s[end] = 0 /\ \A i \in 0..end - 1 : s[i] \in 32..126
  BY DEF ValidString
<1>3. ASSUME NEW i \in 0..limit, i < end PROVE ~Over(s, i)
  <2>1. \A j \in 0..i : j \in 0..end - 1
    BY <1>3
  <2>2. \A j \in 0..i : s[j] \in 32..126
    BY <1>2, <2>1
  <2>3. \A j \in 0..i : s[j] # 0
    BY <2>2, <1>0
  <2> QED
    BY <2>3 DEF Over
<1>4. ASSUME NEW i \in 0..limit, end <= i PROVE Over(s, i)
  <2>1. end \in 0..i
    BY <1>4
  <2> QED
    BY <2>1, <1>2 DEF Over
<1>5. \A i \in 0..end - 1 : t[i] = s[i]
  <2>1. \A i \in 0..end - 1 : i \in 0..limit /\ i < end
    OBVIOUS
  <2> QED
    BY <2>1, <1>1, <1>3
<1>6. \A i \in 0..limit : end <= i => t[i] = 0
  BY <1>1, <1>4
<1>7. \A i \in 0..end - 1 : t[i] \in 32..126
  BY <1>2, <1>5
<1>8. end > 0
  <2>1. end # 0
    BY <1>2 DEF ValidString
  <2> QED
    BY <2>1
<1>9. ValidString(t, limit)
  <2>1. t[0] # 0
    <3>1. 0 \in 0..end - 1
      BY <1>8
    <3>2. t[0] \in 32..126
      BY <3>1, <1>7
    <3> QED
      BY <3>2, <1>0
  <2>2. t[end] = 0
    BY <1>6
  <2> QED
    BY <2>1, <2>2, <1>7 DEF ValidString
<1>10. ASSUME NEW i \in 0..limit
       PROVE  (Over(t, i) <=> Over(s, i)) /\ (Over(t, i) \/ t[i] = s[i])
  <2>1. CASE i < end
    <3>1. ~Over(s, i)
      BY <2>1, <1>3
    <3>2. \A j \in 0..i : j \in 0..end - 1
      BY <2>1
    <3>3. \A j \in 0..i : t[j] \in 32..126
      BY <3>2, <1>7
    <3>4. \A j \in 0..i : t[j] # 0
      BY <3>3, <1>0
    <3>5. ~Over(t, i)
      BY <3>4 DEF Over
    <3> QED
      BY <3>1, <3>5, <1>1
  <2>2. CASE end <= i
    <3>1. Over(s, i)
      BY <2>2, <1>4
    <3>2. i \in 0..i /\ t[i] = 0
      BY <2>2, <1>6
    <3> QED
      BY <3>1, <3>2 DEF Over
  <2> QED
    BY <2>1, <2>2
<1> QED
  BY <1>9, <1>10 DEF SameString

\* Both bytes of a number of sixteen bits.
LEMMA Bytes == ASSUME NEW p \in Nat PROVE (p % 256) + 256 * (p \div 256) = p
OBVIOUS

\* What fits into them is a number.
LEMMA Numbers == Word \subseteq Nat
BY DEF Word

LEMMA WordOf ==
  /\ \A low, high \in Byte : low + 256 * high \in Word
  /\ 1 \in Byte
PROOF
<1>1. ASSUME NEW low \in Byte, NEW high \in Byte PROVE low + 256 * high \in Word
  <2> DEFINE top == 255
  <2>1. top \in Int /\ top + 1 = 256
    OBVIOUS
  <2>2. Byte = 0..top /\ Word = 0..(top + 1) * (top + 1) - 1
    BY Zenon, <2>1 DEF Byte, Word
  <2> HIDE DEF top
  <2>3. low + (top + 1) * high \in 0..(top + 1) * (top + 1) - 1
    BY <2>1, <2>2
  <2> QED
    BY <2>1, <2>2, <2>3, Zenon
<1>2. 1 \in Byte
  BY DEF Byte
<1> QED
  BY <1>1, <1>2

\* Where the record of an entry has what.
LEMMA NameAt ==
  ASSUME NEW entry, NEW i \in 0..16 PROVE EntryEncode(entry)[i] = Field(entry.name, i)
BY DEF EntryEncode, HOST_AT

LEMMA HostnameAt ==
  ASSUME NEW entry, NEW i \in 0..64
  PROVE  EntryEncode(entry)[17 + i] = Field(entry.hostname, i)
PROOF
<1>1. 17 + i \in 0..84 /\ ~(17 + i < 17) /\ 17 + i < 82 /\ 17 + i - 17 = i
  OBVIOUS
<1> QED
  BY <1>1 DEF EntryEncode, HOST_AT, PORT_AT

LEMMA RestAt ==
  ASSUME NEW entry
  PROVE  /\ EntryEncode(entry)[82] = entry.port % 256
         /\ EntryEncode(entry)[83] = entry.port \div 256
         /\ EntryEncode(entry)[84] = entry.profile
PROOF
<1>1. 82 \in 0..84 /\ 83 \in 0..84 /\ 84 \in 0..84
  OBVIOUS
<1> QED
  BY <1>1 DEF EntryEncode, HOST_AT, PORT_AT

\* What is read back from it.
LEMMA ReadBack ==
  ASSUME NEW entry
  PROVE  LET back == EntryDecode(EntryEncode(entry))
         IN /\ back.name = [i \in 0..16 |-> Field(entry.name, i)]
            /\ back.hostname = [i \in 0..64 |-> Field(entry.hostname, i)]
            /\ back.port = (entry.port % 256) + 256 * (entry.port \div 256)
            /\ back.profile = IF entry.profile = 0 THEN 1 ELSE entry.profile
PROOF
<1> DEFINE data == EntryEncode(entry)
<1>1. \A i \in 0..16 : data[i] = Field(entry.name, i)
  BY NameAt
<1>2. \A i \in 0..64 : data[17 + i] = Field(entry.hostname, i)
  BY HostnameAt
<1>3. data[82] = entry.port % 256 /\ data[83] = entry.port \div 256
      /\ data[84] = entry.profile
  BY RestAt
<1> HIDE DEF data
<1>4. [i \in 0..16 |-> data[i]] = [i \in 0..16 |-> Field(entry.name, i)]
  BY <1>1
<1>5. [i \in 0..64 |-> data[17 + i]] = [i \in 0..64 |-> Field(entry.hostname, i)]
  BY <1>2
<1>6. EntryDecode(data) =
        [name |-> [i \in 0..16 |-> data[i]], hostname |-> [i \in 0..64 |-> data[17 + i]],
         port |-> data[82] + 256 * data[83],
         profile |-> IF data[84] = 0 THEN 1 ELSE data[84]]
  <2>1. 82 + 1 = 83
    OBVIOUS
  <2> QED
    BY <2>1, Zenon
    DEF EntryDecode, PHONEBOOK_NAME_SIZE, PHONEBOOK_HOST_SIZE, HOST_AT, PORT_AT,
        PROFILE_AT, TELNET_PROFILE_PETSCII_80
<1> QED
  BY <1>3, <1>4, <1>5, <1>6 DEF data

\* An entry that can be written is read back as it was: its name, its host, its
\* port and its profile, whatever was in the buffers behind the strings.
THEOREM EntryRoundTrip ==
  ASSUME NEW entry \in PhonebookEntry, ValidEntry(entry)
  PROVE  LET back == EntryDecode(EntryEncode(entry))
         IN /\ ValidEntry(back)
            /\ SameString(back.name, entry.name, PHONEBOOK_NAME_SIZE)
            /\ SameString(back.hostname, entry.hostname, PHONEBOOK_HOST_SIZE)
            /\ back.port = entry.port /\ back.profile = entry.profile
PROOF
<1> DEFINE back == EntryDecode(EntryEncode(entry))
<1>1. /\ back.name = [i \in 0..16 |-> Field(entry.name, i)]
      /\ back.hostname = [i \in 0..64 |-> Field(entry.hostname, i)]
      /\ back.port = (entry.port % 256) + 256 * (entry.port \div 256)
      /\ back.profile = IF entry.profile = 0 THEN 1 ELSE entry.profile
  BY ReadBack
<1> HIDE DEF back
<1>2. entry.name \in [0..16 -> Byte] /\ entry.hostname \in [0..64 -> Byte]
  BY Zenon DEF PhonebookEntry, PHONEBOOK_NAME_SIZE, PHONEBOOK_HOST_SIZE
<1>3. /\ ValidString(entry.name, 16) /\ ValidString(entry.hostname, 64)
      /\ entry.port # 0 /\ entry.profile \in 1..3
  BY DEF ValidEntry, PHONEBOOK_NAME_SIZE, PHONEBOOK_HOST_SIZE,
         TELNET_PROFILE_PETSCII_80, TELNET_PROFILE_VT100_80
<1>4. ValidString(back.name, 16) /\ SameString(back.name, entry.name, 16)
  <2>1. 16 \in Nat
    OBVIOUS
  <2> QED
    BY <2>1, <1>1, <1>2, <1>3, FieldKeeps, Zenon
<1>5. ValidString(back.hostname, 64) /\ SameString(back.hostname, entry.hostname, 64)
  <2>1. 64 \in Nat
    OBVIOUS
  <2> QED
    BY <2>1, <1>1, <1>2, <1>3, FieldKeeps, Zenon
<1>6. back.port = entry.port
  <2>1. entry.port \in Word
    BY Zenon DEF PhonebookEntry
  <2>2. entry.port \in Nat
    BY <2>1, Numbers, Zenon
  <2> QED
    BY <2>2, <1>1, Bytes, Zenon
<1>7. back.profile = entry.profile
  BY <1>1, <1>3
<1> QED
  BY <1>3, <1>4, <1>5, <1>6, <1>7
  DEF back, ValidEntry, PHONEBOOK_NAME_SIZE, PHONEBOOK_HOST_SIZE,
      TELNET_PROFILE_PETSCII_80, TELNET_PROFILE_VT100_80

\* A record that is accepted, an old one with profile 0 too, can be read, written
\* and read again: its entry stays what it was.
THEOREM RewriteKeeps ==
  ASSUME NEW data \in Record, ValidEntry(EntryDecode(data))
  PROVE  LET entry == EntryDecode(data)
             back == EntryDecode(EntryEncode(entry))
         IN /\ ValidEntry(back)
            /\ SameString(back.name, entry.name, PHONEBOOK_NAME_SIZE)
            /\ SameString(back.hostname, entry.hostname, PHONEBOOK_HOST_SIZE)
            /\ back.port = entry.port /\ back.profile = entry.profile
PROOF
<1> DEFINE entry == EntryDecode(data)
<1>1. \A i \in 0..84 : data[i] \in Byte
  BY Zenon DEF Record
<1>2. /\ [i \in 0..16 |-> data[i]] \in [0..16 -> Byte]
      /\ [i \in 0..64 |-> data[17 + i]] \in [0..64 -> Byte]
  <2>1. \A i \in 0..16 : i \in 0..84
    OBVIOUS
  <2>2. \A i \in 0..64 : 17 + i \in 0..84
    OBVIOUS
  <2> QED
    BY <2>1, <2>2, <1>1, Zenon
<1>3. /\ data[82] + 256 * data[82 + 1] \in Word
      /\ (IF data[84] = 0 THEN 1 ELSE data[84]) \in Byte
  <2>1. 82 \in 0..84 /\ 82 + 1 \in 0..84 /\ 84 \in 0..84
    OBVIOUS
  <2> QED
    BY <2>1, <1>1, WordOf, Zenon
<1>4. entry \in PhonebookEntry
  BY <1>2, <1>3, Zenon
  DEF EntryDecode, PhonebookEntry, PHONEBOOK_NAME_SIZE, PHONEBOOK_HOST_SIZE, HOST_AT,
      PORT_AT, PROFILE_AT, TELNET_PROFILE_PETSCII_80
<1> QED
  BY <1>4, EntryRoundTrip, Zenon

\* The header that is written is accepted and gives the number of records.
THEOREM HeaderRoundTrip ==
  \A count \in 0..PHONEBOOK_MAX : HeaderDecode(HeaderEncode(count)) = count
PROOF
  BY DEF HeaderDecode, HeaderEncode, Magic, PHONEBOOK_MAX

=============================================================================
