------------------------- MODULE ConfigStoreProofs -------------------------
(***************************************************************************)
(* Proofs about ConfigStore, for any users, texts and documents, and about *)
(* Framing, for any width and alignment.                                   *)
(***************************************************************************)
EXTENDS ConfigStore, TLAPS

-----------------------------------------------------------------------------
(* Frames.  The padding never cuts a text, so that a frame always has room *)
(* for the length it stores, and only the two wraps remain.                *)

LEMMA Remainder ==
  ASSUME NEW n \in Nat, NEW w \in Nat \ {0}
  PROVE  /\ n % w \in Nat /\ n % w < w /\ n % w <= n
         /\ n < w => n % w = n
OBVIOUS

LEMMA WrappedEnd == Width % Width < 2 /\ (Width + 1) % Width < 2
BY WidthAssumption

LEMMA FrameHasRoom ==
  ASSUME NEW n \in Nat
  PROVE  /\ Frame(n).stored = n % Width
         /\ Frame(n).size \in Nat /\ n + 2 <= Frame(n).size
<1> DEFINE pad == (Align - ((2 + n) % Align)) % Align
<1>1. Align - ((2 + n) % Align) \in Nat
  BY Remainder, AlignAssumption
<1>2. pad \in Nat
  BY <1>1, Remainder, AlignAssumption
<1>3. Frame(n).stored = n % Width /\ Frame(n).size = 2 + n + pad
  BY DEF Frame
<1> HIDE DEF pad
<1>4. QED
  BY <1>2, <1>3

LEMMA FrameOpens ==
  ASSUME NEW n \in Nat
  PROVE  Unframe(Frame(n)) = n <=> n < Width - 2
<1>1. n \in Nat /\ Width \in Nat /\ Width > 2
  BY WidthAssumption
<1>2. PICK stored \in Nat : stored = n % Width /\ stored < Width /\ stored <= n
                           /\ (n < Width => stored = n)
  BY <1>1, Remainder
<1>3. PICK end \in Nat : end = (2 + stored) % Width /\ end < Width
                        /\ (2 + stored < Width => end = 2 + stored)
  <2>1. 2 + stored \in Nat /\ Width \in Nat \ {0}
    BY <1>1
  <2>2. QED
    BY <2>1, Remainder
<1>4. Unframe(Frame(n)) = IF end < 2 THEN Panic ELSE end - 2
  <2>1. PICK f : f = Frame(n)
    OBVIOUS
  <2>2. f.stored = stored /\ f.size \in Nat /\ f.size >= 2 /\ f.stored <= f.size - 2
    <3>1. f.stored = stored /\ f.size \in Nat /\ n + 2 <= f.size
      BY <2>1, <1>1, <1>2, FrameHasRoom
    <3>2. stored <= n
      BY <1>2
    <3>3. QED
      BY <3>1, <3>2, <1>1
  <2>3. Unframe(f) = IF (2 + f.stored) % Width < 2 THEN Panic
                     ELSE ((2 + f.stored) % Width) - 2
    BY <2>2 DEF Unframe
  <2>4. QED
    BY <2>1, <2>2, <2>3, <1>3
<1>5. CASE n < Width - 2
  BY <1>1, <1>2, <1>3, <1>4, <1>5
<1>6. CASE n = Width - 2 \/ n = Width - 1
  <2>1. 2 + stored = Width \/ 2 + stored = Width + 1
    BY <1>1, <1>2, <1>6
  <2>2. end < 2
    BY <2>1, <1>3, WrappedEnd
  <2>3. QED
    BY <2>2, <1>1, <1>4, <1>6, OutcomeAssumption
<1>7. CASE n >= Width
  <2>1. end - 2 < n
    BY <1>1, <1>3, <1>7
  <2>2. Panic # n
    BY <1>1, OutcomeAssumption
  <2>3. QED
    BY <2>1, <2>2, <1>1, <1>3, <1>4, <1>7
<1>8. QED
  BY <1>1, <1>5, <1>6, <1>7

(* A text opens to itself exactly if two bytes hold the end of its slice.  *)
THEOREM FramesOpen == OpensToItself
BY FrameOpens, LengthsAssumption DEF OpensToItself

LEMMA PaddedToBlock ==
  ASSUME NEW k \in Nat, NEW w \in Nat \ {0}
  PROVE  (k + (w - (k % w))) % w = 0 /\ w % w = 0
<1>1. (k + (w - (k % w))) % w = 0
  BY SMTT(30)
<1>2. w % w = 0
  BY SMTT(30)
<1>3. QED
  BY <1>1, <1>2

(* The size of a sealed text is the number of blocks it needs.             *)
THEOREM SizesAreBlocks == SizeTellsBlocks
<1> SUFFICES ASSUME NEW n \in Lengths
             PROVE  /\ Frame(n).size % Align = 0
                    /\ Frame(n).size - Align < n + 2 /\ n + 2 <= Frame(n).size
  BY DEF SizeTellsBlocks
<1> DEFINE total == 2 + n
           rest  == total % Align
<1>1. total \in Nat /\ n + 2 = total /\ Align \in Nat \ {0}
  BY LengthsAssumption, AlignAssumption
<1>2. Frame(n).size = total + ((Align - rest) % Align)
  BY DEF Frame
<1>3. rest \in Nat /\ rest < Align
  BY <1>1, Remainder
<1>4. (total + (Align - rest)) % Align = 0 /\ Align % Align = 0
  BY <1>1, PaddedToBlock
<1>5. rest = 0 => total % Align = 0
  OBVIOUS
<1> HIDE DEF total, rest
<1>6. CASE rest = 0
  <2>1. Frame(n).size = total
    BY <1>1, <1>2, <1>4, <1>6
  <2>2. QED
    BY <2>1, <1>1, <1>5, <1>6
<1>7. CASE rest # 0
  <2>1. Align - rest \in Nat /\ Align - rest < Align
    BY <1>1, <1>3, <1>7
  <2>2. (Align - rest) % Align = Align - rest
    BY <2>1, <1>1, Remainder
  <2>3. Frame(n).size = total + (Align - rest)
    BY <2>2, <1>2
  <2>4. Frame(n).size % Align = 0
    BY <2>3, <1>4
  <2>5. Frame(n).size - Align < total /\ total <= Frame(n).size
    BY <2>1, <2>3, <1>1
  <2>6. QED
    BY <2>4, <2>5, <1>1
<1>8. QED
  BY <1>6, <1>7

-----------------------------------------------------------------------------
(* Secrets.  A coherent one opens to the text in use, unless its string    *)
(* was blanked; a fresh one, as a load leaves it, is sealed as well.       *)

Coherent(x) == x.json # Blank => x.json.text = x.run
Fresh(x) == /\ Coherent(x)
            /\ x.json = Blank => x.run = Blank
            /\ Unreadable(x.json)

LEMMA EncryptType ==
  ASSUME NEW t \in Texts
  PROVE  /\ Encrypt(t) \in String /\ Encrypt(t) # Blank
         /\ Clear(t) \in String /\ Clear(t) # Blank
         /\ Encrypt(t).text = t /\ Clear(t).text = t /\ Encrypt(t).sealed
<1>1. /\ Encrypt(t) \in [sealed : BOOLEAN, text : Texts]
      /\ Clear(t) \in [sealed : BOOLEAN, text : Texts]
  BY DEF Encrypt, Clear
<1>2. Encrypt(t).text = t /\ Clear(t).text = t /\ Encrypt(t).sealed
  BY DEF Encrypt, Clear
<1>3. QED
  BY <1>1, <1>2, BlankAssumption DEF String

LEMMA DecryptType ==
  ASSUME NEW s \in String
  PROVE  /\ Decrypt(s) \in Text
         /\ s # Blank => s.text \in Texts /\ Decrypt(s) = s.text /\ s.text # Blank
         /\ s = Blank => Decrypt(s) = Blank
<1>1. ASSUME NEW t \in Texts PROVE Opened(t) = t
  <2>1. sizeOf[t] \in Nat /\ sizeOf[t] < Width - 2
    BY SizeAssumption, LengthsAssumption
  <2>2. QED
    BY <2>1, FrameOpens DEF Opened
<1>2. QED
  BY <1>1, BlankAssumption DEF Decrypt, String, Text

LEMMA CompletedFresh ==
  ASSUME NEW s \in String
  PROVE  /\ Completed(s) \in Secret /\ Fresh(Completed(s))
         /\ Completed(s).run = Decrypt(s)
<1>1. CASE s = Blank
  BY <1>1, DecryptType DEF Completed, Secret, Fresh, Coherent, Unreadable, String
<1>2. CASE s # Blank
  BY <1>2, DecryptType, EncryptType DEF Completed, Secret, Fresh, Coherent, Unreadable
<1>3. QED
  BY <1>1, <1>2

LEMMA SecureFieldFresh ==
  ASSUME NEW s \in String, NEW old \in Text
  PROVE  /\ processSecureField(s, old) \in Secret
         /\ Fresh(processSecureField(s, old))
         /\ old = Blank => processSecureField(s, old).run = Decrypt(s)
<1> DEFINE run == IF s = Blank THEN old ELSE Decrypt(s)
<1>1. processSecureField(s, old)
        = [json |-> IF run = Blank THEN s ELSE Encrypt(run), run |-> run]
  BY DEF processSecureField
<1>2. run \in Text /\ (run = Blank => s = Blank) /\ (old = Blank => run = Decrypt(s))
  BY DecryptType
<1> HIDE DEF run
<1>3. CASE run = Blank
  BY <1>1, <1>2, <1>3 DEF Secret, Fresh, Coherent, Unreadable
<1>4. CASE run # Blank
  BY <1>1, <1>2, <1>4, EncryptType DEF Secret, Fresh, Coherent, Unreadable, Text
<1>5. QED
  BY <1>3, <1>4

(* Keeping an old credential gives its text, exported meanwhile or not.    *)
LEMMA KeptMeans ==
  ASSUME NEW s \in String, NEW old \in Secret, Coherent(old)
  PROVE  Kept(s, old) \in String /\ Decrypt(Kept(s, old)) = Meant(s, old.run)
<1>0. old.json \in String /\ old.run \in Text
  BY DEF Secret
<1>1. CASE s # Blank
  BY <1>1, DecryptType DEF Kept, Meant
<1>2. CASE s = Blank /\ old.json = Blank /\ old.run # Blank
  BY <1>0, <1>2, EncryptType, DecryptType DEF Kept, Meant, Text
<1>3. CASE s = Blank /\ ~(old.json = Blank /\ old.run # Blank)
  BY <1>0, <1>3, DecryptType DEF Kept, Meant, Coherent
<1>4. QED
  BY <1>1, <1>2, <1>3

-----------------------------------------------------------------------------
(* Users and configurations.                                               *)

CoherentUser(u) == u # NoUser => Coherent(u.pw) /\ Coherent(u.key)
FreshUser(u)    == u # NoUser => Fresh(u.pw) /\ Fresh(u.key)
FreshConf(c) == /\ Fresh(c.private) /\ Fresh(c.http)
                /\ \A l \in Logins : FreshUser(c.users[l])

LEMMA LoadUserFresh ==
  ASSUME NEW u \in DocUser, NEW old \in User \cup {NoUser}, CoherentUser(old)
  PROVE  /\ LoadUser(u, old) \in User
         /\ FreshUser(LoadUser(u, old))
         /\ <<LoadUser(u, old).pw.run, LoadUser(u, old).key.run>> = MeantUser(u, old)
<1> DEFINE pw  == IF old = NoUser THEN u.Password
                  ELSE IF u.Password = Clear(Dash) THEN Blank ELSE Kept(u.Password, old.pw)
           key == IF old = NoUser THEN u.PubKey ELSE Kept(u.PubKey, old.key)
<1>1. u.Password \in String /\ u.PubKey \in String /\ u.member \in BOOLEAN
  BY DEF DocUser
<1>2. old # NoUser => /\ old.pw \in Secret /\ Coherent(old.pw)
                      /\ old.key \in Secret /\ Coherent(old.key)
  BY DEF User, CoherentUser
<1>3. pw \in String /\ key \in String
  BY <1>1, <1>2, KeptMeans DEF String
<1>4. Decrypt(pw) = MeantUser(u, old)[1]
  <2>1. CASE old = NoUser
    BY <1>1, <2>1, DecryptType DEF MeantUser, Meant
  <2>2. CASE old # NoUser /\ u.Password = Clear(Dash)
    BY <2>2 DEF MeantUser, Decrypt
  <2>3. CASE old # NoUser /\ u.Password # Clear(Dash)
    BY <1>1, <1>2, <2>3, KeptMeans DEF MeantUser
  <2>4. QED
    BY <2>1, <2>2, <2>3
<1>5. Decrypt(key) = MeantUser(u, old)[2]
  <2>1. CASE old = NoUser
    BY <1>1, <2>1, DecryptType DEF MeantUser, Meant
  <2>2. CASE old # NoUser
    BY <1>1, <1>2, <2>2, KeptMeans DEF MeantUser
  <2>3. QED
    BY <2>1, <2>2
<1>6. LoadUser(u, old) = [pw |-> Completed(pw), key |-> Completed(key), member |-> u.member]
  BY DEF LoadUser
<1> HIDE DEF pw, key
<1>7. LoadUser(u, old) \in User /\ FreshUser(LoadUser(u, old))
  BY <1>1, <1>3, <1>6, CompletedFresh DEF User, FreshUser
<1>8. /\ LoadUser(u, old).pw.run = MeantUser(u, old)[1]
      /\ LoadUser(u, old).key.run = MeantUser(u, old)[2]
  BY <1>3, <1>4, <1>5, <1>6, CompletedFresh
<1>9. MeantUser(u, old) = <<MeantUser(u, old)[1], MeantUser(u, old)[2]>>
  BY DEF MeantUser
<1>10. QED
  BY <1>7, <1>8, <1>9

LEMMA LoadedFresh ==
  ASSUME NEW doc \in Doc, NEW old \in Conf \cup {NoConf},
         old # NoConf => \A l \in Logins : CoherentUser(old.users[l])
  PROVE  /\ Loaded(doc, old) \in Conf
         /\ FreshConf(Loaded(doc, old))
         /\ \A l \in Logins : doc.users[l] # NoUser =>
              InUse(Loaded(doc, old)).users[l]
                = MeantUser(doc.users[l], IF old = NoConf THEN NoUser ELSE old.users[l])
<1> DEFINE was(l) == IF old = NoConf THEN NoUser ELSE old.users[l]
           new(l) == IF doc.users[l] = NoUser THEN NoUser
                     ELSE LoadUser(doc.users[l], was(l))
           http   == IF old = NoConf THEN Blank ELSE old.http.run
           root   == IF doc.mapping = "missing" THEN "null" ELSE doc.mapping
<1>1. /\ doc.private \in String /\ doc.http \in String
      /\ doc.users \in [Logins -> DocUser \cup {NoUser}]
      /\ doc.mapping \in {"open", "missing", "null"}
  BY DEF Doc
<1>2. ASSUME NEW l \in Logins
      PROVE  was(l) \in User \cup {NoUser} /\ CoherentUser(was(l))
  BY DEF Conf, CoherentUser
<1>3. http \in Text
  BY DEF Conf, Secret, Text
<1>4. Loaded(doc, old) = [users   |-> [l \in Logins |-> new(l)],
                          private |-> processSecureField(doc.private, Blank),
                          http    |-> processSecureField(doc.http, http),
                          mapping |-> root]
  BY DEF Loaded
<1>5. ASSUME NEW l \in Logins
      PROVE  /\ new(l) \in User \cup {NoUser}
             /\ FreshUser(new(l))
             /\ doc.users[l] # NoUser =>
                  /\ new(l) # NoUser
                  /\ <<new(l).pw.run, new(l).key.run>> = MeantUser(doc.users[l], was(l))
  <2>1. CASE doc.users[l] = NoUser
    BY <2>1 DEF FreshUser
  <2>2. CASE doc.users[l] # NoUser
    <3>1. doc.users[l] \in DocUser /\ new(l) = LoadUser(doc.users[l], was(l))
      BY <1>1, <2>2
    <3> HIDE DEF new, was
    <3>2. QED
      BY <1>2, <3>1, LoadUserFresh, MarksAssumption
  <2>3. QED
    BY <2>1, <2>2
<1>6. root \in {"open", "missing", "null"} /\ Blank \in Text
  BY <1>1 DEF Text
<1> HIDE DEF new, was, http, root
<1>7. /\ processSecureField(doc.private, Blank) \in Secret
      /\ Fresh(processSecureField(doc.private, Blank))
      /\ processSecureField(doc.http, http) \in Secret
      /\ Fresh(processSecureField(doc.http, http))
  BY <1>1, <1>3, <1>6, SecureFieldFresh
<1>8. Loaded(doc, old) \in Conf /\ FreshConf(Loaded(doc, old))
  BY <1>4, <1>5, <1>6, <1>7 DEF Conf, FreshConf
<1>9. ASSUME NEW l \in Logins, doc.users[l] # NoUser
      PROVE  InUse(Loaded(doc, old)).users[l] = MeantUser(doc.users[l], was(l))
  BY <1>4, <1>5, <1>9 DEF InUse
<1>10. QED
  BY <1>8, <1>9 DEF was

(* What is written of a fresh configuration opens to the same texts.       *)
LEMMA SavedOpens ==
  ASSUME NEW c \in Conf, FreshConf(c)
  PROVE  /\ Saved(c) \in Doc
         /\ InUse(Loaded(Saved(c), NoConf)) = InUse(c)
<1>1. /\ c.users \in [Logins -> User \cup {NoUser}]
      /\ c.private \in Secret /\ c.http \in Secret
      /\ c.mapping \in {"open", "missing", "null"}
  BY DEF Conf
<1>2. ASSUME NEW x \in Secret, Fresh(x)
      PROVE  x.json \in String /\ Decrypt(x.json) = x.run
             /\ Meant(x.json, Blank) = x.run
  BY <1>2, DecryptType DEF Secret, Fresh, Coherent, Meant
<1>3. ASSUME NEW l \in Logins
      PROVE  /\ Saved(c).users[l] \in DocUser \cup {NoUser}
             /\ Saved(c).users[l] = NoUser <=> c.users[l] = NoUser
             /\ c.users[l] # NoUser =>
                  MeantUser(Saved(c).users[l], NoUser)
                    = <<c.users[l].pw.run, c.users[l].key.run>>
  <2>1. CASE c.users[l] = NoUser
    BY <2>1 DEF Saved
  <2>2. CASE c.users[l] # NoUser
    <3>1. /\ c.users[l].pw \in Secret /\ Fresh(c.users[l].pw)
          /\ c.users[l].key \in Secret /\ Fresh(c.users[l].key)
          /\ c.users[l].member \in BOOLEAN
      BY <1>1, <2>2 DEF User, FreshConf, FreshUser
    <3>2. Saved(c).users[l] = [Password |-> c.users[l].pw.json, PubKey |-> c.users[l].key.json,
                               member |-> c.users[l].member]
      BY <2>2 DEF Saved
    <3>3. Saved(c).users[l] \in DocUser
      BY <1>2, <3>1, <3>2 DEF DocUser
    <3>4. Saved(c).users[l] # NoUser
      BY <3>3, MarksAssumption
    <3>5. /\ Meant(c.users[l].pw.json, Blank) = c.users[l].pw.run
          /\ Meant(c.users[l].key.json, Blank) = c.users[l].key.run
      BY <1>2, <3>1
    <3>6. QED
      BY <2>2, <3>2, <3>3, <3>4, <3>5 DEF MeantUser
  <2>3. QED
    BY <2>1, <2>2
<1>4. /\ Saved(c).private = c.private.json /\ Saved(c).http = c.http.json
      /\ Saved(c).private \in String /\ Saved(c).http \in String
      /\ Decrypt(Saved(c).private) = c.private.run
      /\ Decrypt(Saved(c).http) = c.http.run
  BY <1>1, <1>2 DEF Saved, FreshConf
<1>5. Saved(c) \in Doc
  BY <1>1, <1>3, <1>4 DEF Saved, Doc
<1>6. \A l \in Logins : InUse(Loaded(Saved(c), NoConf)).users[l] = InUse(c).users[l]
  <2> SUFFICES ASSUME NEW l \in Logins
               PROVE  InUse(Loaded(Saved(c), NoConf)).users[l] = InUse(c).users[l]
    OBVIOUS
  <2>1. CASE c.users[l] = NoUser
    BY <1>3, <2>1 DEF InUse, Loaded
  <2>2. CASE c.users[l] # NoUser
    <3>1. InUse(Loaded(Saved(c), NoConf)).users[l] = MeantUser(Saved(c).users[l], NoUser)
      BY <1>3, <1>5, <2>2, LoadedFresh
    <3>2. InUse(c).users[l] = <<c.users[l].pw.run, c.users[l].key.run>>
      BY <2>2 DEF InUse
    <3>3. QED
      BY <1>3, <2>2, <3>1, <3>2
  <2>3. QED
    BY <2>1, <2>2
<1>7. /\ Loaded(Saved(c), NoConf).private.run = c.private.run
      /\ Loaded(Saved(c), NoConf).http.run = c.http.run
  <2>1. Blank \in Text
    BY DEF Text
  <2>2. QED
    BY <1>4, <2>1, SecureFieldFresh DEF Loaded
<1>8. QED
  BY <1>5, <1>6, <1>7 DEF InUse

-----------------------------------------------------------------------------
(* The invariant.  RestartRestores and SecretsSealed speak of a file that  *)
(* has been written; they hold because what is being written is fresh, as  *)
(* the load under the same mutex left it, and an export, which makes the   *)
(* configuration unfit to be written, leaves it coherent for the next load.*)

Savable == /\ conf # NoConf => \A l \in Logins : CoherentUser(conf.users[l])
           /\ phase \in {"opening", "writing"} => FreshConf(conf)

IInv == TypeOK /\ Savable /\ RestartRestores /\ SecretsSealed

LEMMA FreshIsCoherent ==
  ASSUME NEW c, FreshConf(c)
  PROVE  \A l \in Logins : CoherentUser(c.users[l])
BY DEF FreshConf, FreshUser, CoherentUser, Fresh

LEMMA LoadInv ==
  ASSUME IInv, NEW doc \in Doc, NEW old \in {conf, NoConf}, Load(doc, old)
  PROVE  IInv'
<1>1. /\ conf' = Loaded(doc, old) /\ phase' = "opening"
      /\ UNCHANGED <<file, edited, saveFailed, panicked>>
  BY DEF Load
<1>2. /\ old \in Conf \cup {NoConf}
      /\ old # NoConf => \A l \in Logins : CoherentUser(old.users[l])
  BY DEF IInv, TypeOK, Savable
<1>3. conf' \in Conf /\ FreshConf(conf')
  BY <1>1, <1>2, LoadedFresh
<1>4. TypeOK'
  BY <1>1, <1>3, MarksAssumption DEF IInv, TypeOK
<1>5. Savable'
  BY <1>3, FreshIsCoherent DEF Savable
<1>6. RestartRestores' /\ SecretsSealed'
  BY <1>1 DEF IInv, RestartRestores, SecretsSealed
<1>7. QED
  BY <1>4, <1>5, <1>6 DEF IInv

LEMMA EncodeInv == IInv /\ Encode => IInv'
<1> SUFFICES ASSUME IInv, Encode PROVE IInv'
  OBVIOUS
<1>1. /\ file' = Saved(conf) /\ phase' = "ready"
      /\ edited' = FALSE /\ saveFailed' = FALSE
      /\ UNCHANGED <<conf, panicked>>
  BY DEF Encode
<1>2. conf \in Conf /\ FreshConf(conf)
  BY DEF IInv, TypeOK, Savable, Encode
<1>3. Saved(conf) \in Doc /\ InUse(Loaded(Saved(conf), NoConf)) = InUse(conf)
  BY <1>2, SavedOpens
<1>4. TypeOK' /\ Savable'
  BY <1>1, <1>2, <1>3, MarksAssumption DEF IInv, TypeOK, Savable
<1>5. RestartRestores'
  BY <1>1, <1>3, MarksAssumption DEF RestartRestores
<1>6. SecretsSealed'
  <2>1. Unreadable(Saved(conf).private) /\ Unreadable(Saved(conf).http)
    BY <1>2 DEF Saved, FreshConf, Fresh
  <2>2. ASSUME NEW l \in Logins, Saved(conf).users[l] # NoUser
        PROVE  /\ Unreadable(Saved(conf).users[l].Password)
               /\ Unreadable(Saved(conf).users[l].PubKey)
    BY <1>2, <2>2 DEF Saved, FreshConf, FreshUser, Fresh
  <2>3. QED
    BY <1>1, <2>1, <2>2 DEF SecretsSealed
<1>7. QED
  BY <1>4, <1>5, <1>6 DEF IInv

LEMMA BlankedUser ==
  ASSUME NEW u \in User
  PROVE  LET bare == [u EXCEPT !.pw.json = Blank, !.key.json = Blank]
         IN  /\ bare \in User
             /\ bare.pw.run = u.pw.run /\ bare.key.run = u.key.run
             /\ bare.pw.json = Blank /\ bare.key.json = Blank
<1>1. Blank \in String
  BY DEF String
<1>2. QED
  BY <1>1 DEF User, Secret

(* An export changes no text in use.                                       *)
LEMMA ExportKeeps == IInv /\ ExportConfig => InUse(conf') = InUse(conf)
<1> SUFFICES ASSUME IInv, ExportConfig PROVE InUse(conf') = InUse(conf)
  OBVIOUS
<1>1. /\ conf.users \in [Logins -> User \cup {NoUser}]
      /\ conf \in Conf
  BY DEF ExportConfig, IInv, TypeOK, Conf
<1>2. /\ conf'.private.run = conf.private.run /\ conf'.http.run = conf.http.run
      /\ conf'.users = [l \in Logins |->
                          IF conf.users[l] = NoUser THEN NoUser
                          ELSE [conf.users[l] EXCEPT !.pw.json = Blank, !.key.json = Blank]]
  BY <1>1 DEF ExportConfig, Conf, Secret
<1>3. ASSUME NEW l \in Logins
      PROVE  /\ conf'.users[l] = NoUser <=> conf.users[l] = NoUser
             /\ conf.users[l] # NoUser =>
                  /\ conf'.users[l].pw.run = conf.users[l].pw.run
                  /\ conf'.users[l].key.run = conf.users[l].key.run
  <2>1. CASE conf.users[l] = NoUser
    BY <1>2, <2>1
  <2>2. CASE conf.users[l] # NoUser
    <3>1. conf.users[l] \in User /\ Blank \in String
      BY <1>1, <2>2 DEF String
    <3>2. conf'.users[l] = [conf.users[l] EXCEPT !.pw.json = Blank, !.key.json = Blank]
      BY <1>2, <2>2
    <3>3. /\ conf'.users[l] \in User
          /\ conf'.users[l].pw.run = conf.users[l].pw.run
          /\ conf'.users[l].key.run = conf.users[l].key.run
      BY <3>1, <3>2, BlankedUser
    <3>4. QED
      BY <2>2, <3>3, MarksAssumption
  <2>3. QED
    BY <2>1, <2>2
<1>4. QED
  <2>1. ASSUME NEW l \in Logins PROVE InUse(conf').users[l] = InUse(conf).users[l]
    BY <1>3 DEF InUse
  <2>2. QED
    BY <1>2, <2>1 DEF InUse

LEMMA ExportInv == IInv /\ ExportConfig => IInv'
<1> SUFFICES ASSUME IInv, ExportConfig PROVE IInv'
  OBVIOUS
<1> DEFINE bare(l) == IF conf.users[l] = NoUser THEN NoUser
                      ELSE [conf.users[l] EXCEPT !.pw.json = Blank, !.key.json = Blank]
           private == IF conf.private.run = Blank THEN conf.private.json
                      ELSE Clear(conf.private.run)
<1>1. /\ phase = "ready" /\ conf \in Conf
      /\ conf' = [conf EXCEPT !.users = [l \in Logins |-> bare(l)],
                               !.private.json = private,
                               !.http.json = Blank]
      /\ UNCHANGED <<file, phase, edited, saveFailed, panicked>>
  BY DEF ExportConfig, IInv, TypeOK
<1>2. ASSUME NEW l \in Logins
      PROVE  /\ bare(l) \in User \cup {NoUser}
             /\ CoherentUser(bare(l))
  <2>1. CASE conf.users[l] = NoUser
    BY <2>1 DEF CoherentUser
  <2>2. CASE conf.users[l] # NoUser
    <3>1. conf.users[l] \in User
      BY <1>1, <2>2 DEF Conf
    <3>2. bare(l) \in User /\ bare(l).pw.json = Blank /\ bare(l).key.json = Blank
      BY <2>2, <3>1, BlankedUser
    <3>3. QED
      BY <3>2 DEF CoherentUser, Coherent
  <2>3. QED
    BY <2>1, <2>2
<1>3. private \in String
  <2>1. conf.private \in Secret
    BY <1>1 DEF Conf
  <2>2. QED
    BY <2>1, EncryptType DEF Secret, Text
<1> HIDE DEF bare, private
<1>4. /\ conf' \in Conf
      /\ conf'.users = [l \in Logins |-> bare(l)]
      /\ conf'.private.run = conf.private.run
      /\ conf'.http.run = conf.http.run
  <2>1. Blank \in String
    BY DEF String
  <2>2. QED
    BY <1>1, <1>2, <1>3, <2>1 DEF Conf, Secret
<1>5. TypeOK' /\ Savable'
  BY <1>1, <1>2, <1>4, MarksAssumption DEF IInv, TypeOK, Savable
<1>6. InUse(conf') = InUse(conf)
  BY ExportKeeps
<1>7. RestartRestores' /\ SecretsSealed'
  BY <1>1, <1>6 DEF IInv, RestartRestores, SecretsSealed
<1>8. QED
  BY <1>5, <1>7 DEF IInv

LEMMA OtherInv ==
  ASSUME IInv,
         \/ LoadPanics \/ OpenTruncates \/ SaveFails \/ Exit
         \/ \E doc \in Docs : Edit(doc)
         \/ UNCHANGED vars
  PROVE  IInv'
<1>1. CASE LoadPanics
  BY <1>1 DEF LoadPanics, IInv, TypeOK, Savable, RestartRestores, SecretsSealed
<1>2. CASE OpenTruncates
  BY <1>2 DEF OpenTruncates, IInv, TypeOK, Savable, RestartRestores, SecretsSealed
<1>3. CASE SaveFails
  BY <1>3 DEF SaveFails, IInv, TypeOK, Savable, RestartRestores, SecretsSealed
<1>4. CASE Exit
  BY <1>4 DEF Exit, IInv, TypeOK, Savable, RestartRestores, SecretsSealed
<1>5. ASSUME NEW doc \in Docs, Edit(doc) PROVE IInv'
  BY <1>5, DocsAssumption DEF Edit, IInv, TypeOK, Savable, RestartRestores, SecretsSealed
<1>6. CASE UNCHANGED vars
  BY <1>6 DEF vars, IInv, TypeOK, Savable, RestartRestores, SecretsSealed
<1>7. QED
  BY <1>1, <1>2, <1>3, <1>4, <1>5, <1>6

LEMMA InitIInv == Init => IInv
BY DocsAssumption DEF Init, IInv, TypeOK, Savable, RestartRestores, SecretsSealed

LEMMA NextIInv == IInv /\ [Next]_vars => IInv'
<1> SUFFICES ASSUME IInv, [Next]_vars PROVE IInv'
  OBVIOUS
<1>1. CASE Start \/ Hangup
  <2>1. file \in Doc
    BY <1>1 DEF Start, Hangup, IInv, TypeOK
  <2>2. QED
    BY <1>1, <2>1, LoadInv DEF Start, Hangup
<1>2. ASSUME NEW doc \in Docs, Update(doc) PROVE IInv'
  BY <1>2, DocsAssumption, LoadInv DEF Update
<1>3. QED
  BY <1>1, <1>2, EncodeInv, ExportInv, OtherInv DEF Next

LEMMA InductiveInvariant == Spec => []IInv
BY InitIInv, NextIInv, PTL DEF Spec

(* Types, and a configuration in every process that runs.                  *)
THEOREM TypeCorrect == Spec => []TypeOK
<1>1. IInv => TypeOK
  BY DEF IInv
<1>2. QED
  BY <1>1, InductiveInvariant, PTL

(* A restart brings back the secrets that were in use.                     *)
THEOREM RestartIsFaithful == Spec => []RestartRestores
<1>1. IInv => RestartRestores
  BY DEF IInv
<1>2. QED
  BY <1>1, InductiveInvariant, PTL

(* No secret reaches the file in clear.                                    *)
THEOREM FileIsSealed == Spec => []SecretsSealed
<1>1. IInv => SecretsSealed
  BY DEF IInv
<1>2. QED
  BY <1>1, InductiveInvariant, PTL

(* A load gives each user what the document says.                          *)
THEOREM LoadsFaithfully == Spec => LoadsAsWritten
<1>1. ASSUME IInv, NEW doc \in Doc, phase = "ready", Load(doc, conf)
      PROVE  GivesWhatItSays(doc)
  <2>1. conf \in Conf /\ conf # NoConf /\ conf' = Loaded(doc, conf)
        /\ \A l \in Logins : CoherentUser(conf.users[l])
    BY <1>1 DEF IInv, TypeOK, Savable, Load
  <2>2. QED
    BY <2>1, LoadedFresh DEF GivesWhatItSays
<1>2. IInv => /\ Hangup => GivesWhatItSays(file)
              /\ \A doc \in Docs : Update(doc) => GivesWhatItSays(doc)
  BY <1>1, DocsAssumption DEF Hangup, Update, IInv, TypeOK
<1>3. QED
  BY <1>2, InductiveInvariant, PTL DEF LoadsAsWritten

-----------------------------------------------------------------------------
(* The refinement.  In terms of texts a document is what it wants, and a   *)
(* configuration what it has in use.                                       *)

LEMMA WishOf ==
  ASSUME NEW u \in DocUser
  PROVE  /\ Decrypt(u.Password) \in Text /\ Decrypt(u.PubKey) \in Text
         /\ Decrypt(u.Password) # Clear(Dash)
         /\ Clear(Dash) # Blank
<1>1. u.Password \in String /\ u.PubKey \in String
  BY DEF DocUser
<1>2. Clear(Dash) \notin Text
  BY EncryptType, DashAssumption DEF Text
<1>3. QED
  BY <1>1, <1>2, DecryptType DEF Text

LEMMA WantedType ==
  ASSUME NEW doc \in Doc
  PROVE  /\ Wanted(doc) \in Wishes /\ Wanted(doc) # Torn
         /\ \A l \in Logins : Wanted(doc).users[l] = NoUser <=> doc.users[l] = NoUser
<1>1. /\ doc.private \in String /\ doc.http \in String
      /\ doc.users \in [Logins -> DocUser \cup {NoUser}]
  BY DEF Doc
<1>2. ASSUME NEW l \in Logins
      PROVE  /\ Wanted(doc).users[l] \in Wish \X Text \cup {NoUser}
             /\ Wanted(doc).users[l] = NoUser <=> doc.users[l] = NoUser
  <2>1. CASE doc.users[l] = NoUser
    BY <2>1 DEF Wanted
  <2>2. CASE doc.users[l] # NoUser
    <3>1. doc.users[l] \in DocUser
      BY <1>1, <2>2
    <3>2. Wanted(doc).users[l] \in Wish \X Text
      BY <2>2, <3>1, WishOf DEF Wanted, Wish
    <3>3. QED
      BY <2>2, <3>2, MarksAssumption
  <2>3. QED
    BY <2>1, <2>2
<1>3. Wanted(doc).private \in Text /\ Wanted(doc).http \in Text
  BY <1>1, DecryptType DEF Wanted
<1>4. Wanted(doc) \in Wishes
  BY <1>2, <1>3 DEF Wanted, Wishes
<1>5. QED
  BY <1>2, <1>4, MarksAssumption

LEMMA InUseType ==
  ASSUME NEW c \in Conf
  PROVE  /\ InUse(c) \in Wishes /\ InUse(c) # NoConf
         /\ \A l \in Logins : InUse(c).users[l] = NoUser <=> c.users[l] = NoUser
<1>1. /\ c.users \in [Logins -> User \cup {NoUser}]
      /\ c.private.run \in Text /\ c.http.run \in Text
  BY DEF Conf, Secret
<1>2. ASSUME NEW l \in Logins
      PROVE  /\ InUse(c).users[l] \in Wish \X Text \cup {NoUser}
             /\ InUse(c).users[l] = NoUser <=> c.users[l] = NoUser
  <2>1. CASE c.users[l] = NoUser
    BY <2>1 DEF InUse
  <2>2. CASE c.users[l] # NoUser
    <3>1. c.users[l].pw.run \in Text /\ c.users[l].key.run \in Text
      BY <1>1, <2>2 DEF User, Secret
    <3>2. InUse(c).users[l] \in Wish \X Text
      BY <2>2, <3>1 DEF InUse, Wish
    <3>3. QED
      BY <2>2, <3>2, MarksAssumption
  <2>3. QED
    BY <2>1, <2>2
<1>3. InUse(c) \in Wishes
  BY <1>1, <1>2 DEF InUse, Wishes
<1>4. QED
  BY <1>2, <1>3, MarksAssumption

(* What a user gets is what the abstract document gives it.                *)
LEMMA UserIsGiven ==
  ASSUME NEW u \in DocUser, NEW old \in User \cup {NoUser}
  PROVE  MeantUser(u, old)
           = Abstract!GivenUser(
               <<IF u.Password = Clear(Dash) THEN u.Password ELSE Decrypt(u.Password),
                 Decrypt(u.PubKey)>>,
               IF old = NoUser THEN NoUser ELSE <<old.pw.run, old.key.run>>)
<1> DEFINE w   == <<IF u.Password = Clear(Dash) THEN u.Password ELSE Decrypt(u.Password),
                    Decrypt(u.PubKey)>>
           was == IF old = NoUser THEN NoUser ELSE <<old.pw.run, old.key.run>>
<1>1. u.Password \in String /\ u.PubKey \in String
  BY DEF DocUser
<1>2. w # NoUser /\ (old # NoUser => was # NoUser)
  BY WishOf, MarksAssumption DEF Wish, User, Secret, Text
<1>3. Clear(Dash) # Blank /\ Clear(Dash).text = Dash
  BY EncryptType, DashAssumption
<1>4. u.Password # Clear(Dash) => w[1] # Clear(Dash)
  BY WishOf
<1>5. CASE old = NoUser
  BY <1>1, <1>2, <1>3, <1>4, <1>5, DecryptType DEF MeantUser, Meant, Abstract!GivenUser
<1>6. CASE old # NoUser
  BY <1>1, <1>2, <1>3, <1>4, <1>6, DecryptType
  DEF MeantUser, Meant, Abstract!GivenUser, Abstract!Kept
<1>7. QED
  BY <1>5, <1>6

(* A load gives what the abstract one does.                                *)
LEMMA LoadGives ==
  ASSUME NEW doc \in Doc, NEW old \in Conf \cup {NoConf},
         old # NoConf => \A l \in Logins : CoherentUser(old.users[l])
  PROVE  InUse(Loaded(doc, old))
           = Abstract!Given(Wanted(doc), IF old = NoConf THEN NoConf ELSE InUse(old))
<1> DEFINE has    == IF old = NoConf THEN NoConf ELSE InUse(old)
           was(l) == IF old = NoConf THEN NoUser ELSE old.users[l]
           new    == InUse(Loaded(doc, old))
<1>1. /\ doc.users \in [Logins -> DocUser \cup {NoUser}]
      /\ doc.private \in String /\ doc.http \in String
  BY DEF Doc
<1>2. ASSUME NEW l \in Logins
      PROVE  new.users[l] = Abstract!GivenUser(Wanted(doc).users[l],
                                               IF has = NoConf THEN NoUser ELSE has.users[l])
  <2>1. was(l) \in User \cup {NoUser}
    BY DEF Conf
  <2>2. (IF has = NoConf THEN NoUser ELSE has.users[l])
          = IF was(l) = NoUser THEN NoUser ELSE <<was(l).pw.run, was(l).key.run>>
    <3>1. CASE old = NoConf
      BY <3>1
    <3>2. CASE old # NoConf
      BY <3>2, InUseType DEF InUse
    <3>3. QED
      BY <3>1, <3>2
  <2>3. CASE doc.users[l] = NoUser
    BY <2>3 DEF InUse, Loaded, Wanted, Abstract!GivenUser
  <2>4. CASE doc.users[l] # NoUser
    <3>1. new.users[l] = MeantUser(doc.users[l], was(l))
      BY <2>4, LoadedFresh
    <3>2. doc.users[l] \in DocUser
      BY <1>1, <2>4
    <3>3. Wanted(doc).users[l]
            = <<IF doc.users[l].Password = Clear(Dash) THEN doc.users[l].Password
                ELSE Decrypt(doc.users[l].Password),
                Decrypt(doc.users[l].PubKey)>>
      BY <2>4 DEF Wanted
    <3> HIDE DEF new, was, has
    <3>4. QED
      BY <2>1, <2>2, <3>1, <3>2, <3>3, UserIsGiven
  <2>5. QED
    BY <2>3, <2>4
<1>3. new.private = Wanted(doc).private
  BY <1>1, SecureFieldFresh DEF InUse, Loaded, Wanted, Text
<1>4. new.http = Abstract!Kept(Wanted(doc).http, IF has = NoConf THEN Blank ELSE has.http)
  <2>1. (IF has = NoConf THEN Blank ELSE has.http)
          = IF old = NoConf THEN Blank ELSE old.http.run
    BY InUseType DEF InUse
  <2>2. doc.http = Blank <=> Decrypt(doc.http) = Blank
    BY <1>1, DecryptType
  <2>3. QED
    BY <2>1, <2>2 DEF InUse, Loaded, Wanted, processSecureField, Abstract!Kept
<1>5. new = [users |-> [l \in Logins |-> new.users[l]],
             private |-> new.private, http |-> new.http]
  BY DEF InUse
<1> HIDE DEF new, has
<1>6. QED
  BY <1>2, <1>3, <1>4, <1>5 DEF Abstract!Given, has, new

(* What is saved of a fresh configuration says exactly what is in use.     *)
LEMMA SavedSays ==
  ASSUME NEW c \in Conf, FreshConf(c)
  PROVE  Wanted(Saved(c)) = InUse(c)
<1>1. /\ c.users \in [Logins -> User \cup {NoUser}]
      /\ c.private \in Secret /\ c.http \in Secret
  BY DEF Conf
<1>2. ASSUME NEW x \in Secret, Fresh(x)
      PROVE  Decrypt(x.json) = x.run /\ x.json # Clear(Dash)
  <2>1. Clear(Dash) # Blank /\ ~Clear(Dash).sealed
    BY EncryptType, DashAssumption DEF Clear
  <2>2. QED
    BY <1>2, <2>1, DecryptType DEF Secret, Fresh, Coherent, Unreadable
<1>3. ASSUME NEW l \in Logins
      PROVE  Wanted(Saved(c)).users[l] = InUse(c).users[l]
  <2>1. CASE c.users[l] = NoUser
    BY <2>1 DEF Wanted, Saved, InUse
  <2>2. CASE c.users[l] # NoUser
    <3>1. /\ c.users[l].pw \in Secret /\ Fresh(c.users[l].pw)
          /\ c.users[l].key \in Secret /\ Fresh(c.users[l].key)
      BY <1>1, <2>2 DEF User, FreshConf, FreshUser
    <3>2. Saved(c).users[l] = [Password |-> c.users[l].pw.json, PubKey |-> c.users[l].key.json,
                               member |-> c.users[l].member]
      BY <2>2 DEF Saved
    <3>3. Saved(c).users[l] # NoUser
      <4>1. Saved(c).users[l] \in DocUser
        BY <1>1, <2>2, <3>1, <3>2 DEF DocUser, User, Secret
      <4>2. QED
        BY <4>1, MarksAssumption
    <3>4. QED
      BY <1>2, <2>2, <3>1, <3>2, <3>3 DEF Wanted, InUse
  <2>3. QED
    BY <2>1, <2>2
<1>4. Wanted(Saved(c)).private = c.private.run /\ Wanted(Saved(c)).http = c.http.run
  BY <1>1, <1>2 DEF Wanted, Saved, FreshConf
<1>5. QED
  BY <1>3, <1>4 DEF Wanted, InUse

(* Loads: from nothing, over what is in use, or a panic, which can only    *)
(* stop the process.                                                       *)
LEMMA LoadImplements ==
  ASSUME IInv,
         Start \/ Hangup \/ LoadPanics \/ \E doc \in Docs : Update(doc)
  PROVE  [Abstract!Next]_<<inUseMap, durableMap>>
<1>1. /\ conf \in Conf \cup {NoConf}
      /\ phase # "down" => conf \in Conf
      /\ conf # NoConf => \A l \in Logins : CoherentUser(conf.users[l])
      /\ file # Torn => file \in Doc
  BY DEF IInv, TypeOK, Savable
<1>2. phase # "down" => inUseMap = InUse(conf) /\ inUseMap # NoConf
  BY <1>1, InUseType DEF inUseMap
<1>3. file # Torn => durableMap = Wanted(file) /\ durableMap # Torn
  BY <1>1, WantedType DEF durableMap
<1>4. CASE Start
  <2>1. /\ phase = "down" /\ file # Torn
        /\ conf' = Loaded(file, NoConf) /\ phase' = "opening" /\ file' = file
    BY <1>4 DEF Start, Load
  <2>2. inUseMap = NoConf /\ inUseMap' = InUse(Loaded(file, NoConf)) /\ durableMap' = durableMap
    BY <2>1 DEF inUseMap, durableMap
  <2>3. InUse(Loaded(file, NoConf)) = Abstract!Given(Wanted(file), NoConf)
    BY <1>1, <2>1, LoadGives
  <2>4. QED
    BY <1>3, <2>1, <2>2, <2>3 DEF Abstract!Next, Abstract!Start
<1>5. ASSUME NEW doc \in Doc, phase = "ready", Load(doc, conf)
      PROVE  inUseMap' = Abstract!Given(Wanted(doc), inUseMap) /\ durableMap' = durableMap
  <2>1. conf' = Loaded(doc, conf) /\ phase' = "opening" /\ file' = file
    BY <1>5 DEF Load
  <2>2. InUse(Loaded(doc, conf)) = Abstract!Given(Wanted(doc), InUse(conf))
    BY <1>1, <1>5, LoadGives, MarksAssumption
  <2>3. QED
    BY <1>2, <1>5, <2>1, <2>2 DEF inUseMap, durableMap
<1>6. CASE Hangup
  BY <1>1, <1>2, <1>3, <1>5, <1>6 DEF Hangup, Abstract!Next, Abstract!Hangup
<1>7. ASSUME NEW doc \in Docs, Update(doc)
      PROVE  Abstract!Next
  <2>1. Wanted(doc) \in {Wanted(d) : d \in Docs}
    OBVIOUS
  <2>2. Abstract!Update(Wanted(doc))
    BY <1>2, <1>5, <1>7, DocsAssumption DEF Update, Abstract!Update
  <2>3. QED
    BY <2>1, <2>2 DEF Abstract!Next
<1>8. CASE LoadPanics
  BY <1>8 DEF LoadPanics, inUseMap, durableMap, Abstract!Next, Abstract!Stop
<1>9. QED
  BY <1>4, <1>6, <1>7, <1>8

(* Everything else: a save tears and persists, a failed one and an export  *)
(* change nothing.                                                         *)
LEMMA SaveImplements ==
  ASSUME IInv,
         \/ OpenTruncates \/ Encode \/ SaveFails \/ ExportConfig \/ Exit
         \/ \E doc \in Docs : Edit(doc)
  PROVE  [Abstract!Next]_<<inUseMap, durableMap>>
<1>1. phase # "down" => conf \in Conf /\ inUseMap = InUse(conf) /\ inUseMap # NoConf
  BY InUseType DEF IInv, TypeOK, inUseMap
<1>2. CASE OpenTruncates
  BY <1>1, <1>2 DEF OpenTruncates, inUseMap, durableMap, Abstract!Next, Abstract!Tear
<1>3. CASE Encode
  <2>1. /\ phase = "writing" /\ phase' = "ready"
        /\ file' = Saved(conf) /\ conf' = conf /\ FreshConf(conf)
    BY <1>3 DEF Encode, IInv, Savable
  <2>2. Saved(conf) # Torn /\ Wanted(Saved(conf)) = InUse(conf)
    BY <1>1, <2>1, SavedOpens, SavedSays, MarksAssumption
  <2>3. Abstract!Persist
    BY <1>1, <2>1, <2>2 DEF inUseMap, durableMap, Abstract!Persist
  <2>4. QED
    BY <2>3 DEF Abstract!Next
<1>4. CASE SaveFails
  BY <1>4 DEF SaveFails, inUseMap, durableMap
<1>5. CASE ExportConfig
  BY <1>5, ExportKeeps DEF ExportConfig, inUseMap, durableMap
<1>6. CASE Exit
  BY <1>6 DEF Exit, inUseMap, durableMap, Abstract!Next, Abstract!Stop
<1>7. ASSUME NEW doc \in Docs, Edit(doc)
      PROVE  Abstract!Next
  <2>1. Wanted(doc) \in {Wanted(d) : d \in Docs} /\ doc # Torn
    BY DocsAssumption, MarksAssumption
  <2>2. Abstract!Edit(Wanted(doc))
    BY <1>7, <2>1 DEF Edit, inUseMap, durableMap, Abstract!Edit
  <2>3. QED
    BY <2>1, <2>2 DEF Abstract!Next
<1>8. QED
  BY <1>2, <1>3, <1>4, <1>5, <1>6, <1>7

(* Whatever is sealed, kept, exported, torn or restarted, the process and  *)
(* its file deal in texts as the abstract specification says.              *)
THEOREM ImplementsTexts == Spec => ImplementsCredentials
<1>1. Init => Abstract!Init
  BY DocsAssumption, MarksAssumption DEF Init, Abstract!Init, inUseMap, durableMap
<1>2. IInv /\ [Next]_vars => [Abstract!Next]_<<inUseMap, durableMap>>
  <2>1. ASSUME UNCHANGED vars PROVE UNCHANGED <<inUseMap, durableMap>>
    BY <2>1 DEF vars, inUseMap, durableMap
  <2>2. QED
    BY <2>1, LoadImplements, SaveImplements DEF Next
<1>3. QED
  BY <1>1, <1>2, InductiveInvariant, PTL DEF Spec, ImplementsCredentials, Abstract!Spec

-----------------------------------------------------------------------------
(* Files that load.  README.md:13 fails (OwnFileLoads) because a root that *)
(* is missing becomes null.  As long as each document that an operator     *)
(* writes or posts has roots that open, no load, save, edit or restart in  *)
(* any order stops the process, not even on an edited file.                *)

RootsOpen == \A doc \in Docs : doc.mapping = "open"

NothingNull ==
  /\ file # Torn => file.mapping = "open"
  /\ conf # NoConf => conf.mapping = "open"
  /\ ~panicked

LEMMA NullStep ==
  ASSUME RootsOpen, TypeOK, NothingNull, [Next]_vars
  PROVE  NothingNull'
<1>1. ASSUME NEW doc, NEW old, Load(doc, old), doc.mapping = "open"
      PROVE  NothingNull'
  BY <1>1 DEF Load, Loaded, NothingNull
<1>2. CASE Start \/ Hangup
  BY <1>1, <1>2 DEF Start, Hangup, NothingNull
<1>3. ASSUME NEW doc \in Docs, Update(doc) PROVE NothingNull'
  BY <1>1, <1>3 DEF Update, RootsOpen
<1>4. CASE LoadPanics
  BY <1>4 DEF LoadPanics, Panics, NothingNull
<1>5. ASSUME NEW doc \in Docs, Edit(doc) PROVE NothingNull'
  BY <1>5 DEF Edit, NothingNull, RootsOpen
<1>6. CASE Encode
  BY <1>6 DEF Encode, Saved, NothingNull, TypeOK
<1>7. CASE ExportConfig
  <2>1. conf \in Conf
    BY <1>7 DEF ExportConfig, TypeOK
  <2>2. conf'.mapping = conf.mapping /\ UNCHANGED <<file, panicked>>
    BY <1>7, <2>1 DEF ExportConfig, Conf
  <2>3. conf # NoConf
    BY <2>1, MarksAssumption
  <2>4. QED
    BY <2>2, <2>3 DEF NothingNull
<1>8. CASE OpenTruncates \/ SaveFails \/ Exit \/ UNCHANGED vars
  BY <1>8 DEF OpenTruncates, SaveFails, Exit, vars, NothingNull
<1>9. QED
  BY <1>2, <1>3, <1>4, <1>5, <1>6, <1>7, <1>8 DEF Next

(* Documents whose roots open never stop the server.                       *)
THEOREM OpenRootsLoad ==
  ASSUME RootsOpen
  PROVE  Spec => [](OwnFileLoads /\ ~panicked)
<1>1. Init => NothingNull
  BY DEF Init, NothingNull, RootsOpen
<1>2. NothingNull => OwnFileLoads /\ ~panicked
  BY DEF NothingNull, OwnFileLoads
<1>3. QED
  BY <1>1, <1>2, NullStep, TypeCorrect, PTL DEF Spec
=============================================================================
