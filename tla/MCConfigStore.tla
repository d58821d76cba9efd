--------------------------- MODULE MCConfigStore ---------------------------
(* Small instances of ConfigStore, and of the frames its secrets are       *)
(* sealed in, for TLC.                                                     *)
EXTENDS ConfigStore, TLC

CONSTANTS alice, bob, s1, s2

Rec(pw, key, member) == [Password |-> pw, PubKey |-> key, member |-> member]

Document(a, b, private, http, mapping) ==
  [users |-> alice :> a @@ bob :> b, private |-> private, http |-> http, mapping |-> mapping]

(* A first file in clear; the form of the web page as it comes back, with  *)
(* nothing typed in and with a new password; a password removed; a user    *)
(* removed; an unopenable root with and without a member; and the null     *)
(* that an export shows.                                                   *)
FirstFile  == Document(Rec(Clear(s1), Blank, FALSE), Rec(Clear(s2), Clear(s1), FALSE),
                       Clear(s1), Clear(s2), "open")
Untouched  == Document(Rec(Blank, Blank, FALSE), Rec(Blank, Blank, FALSE), Clear(s1), Blank, "open")
NewSecrets == Document(Rec(Clear(s2), Blank, FALSE), Rec(Blank, Clear(s2), FALSE),
                       Clear(s2), Clear(s1), "open")
Removed    == Document(NoUser, Rec(Clear(Dash), Blank, FALSE), Blank, Blank, "open")
NoRoot     == Document(Rec(Blank, Blank, FALSE), NoUser, Clear(s1), Blank, "missing")
MemberRoot == Document(Rec(Clear(s1), Encrypt(s2), TRUE), NoUser, Encrypt(s1), Blank, "missing")
NullRoot   == Document(Rec(Blank, Blank, FALSE), NoUser, Clear(s1), Blank, "null")

McDocs == {FirstFile, Untouched, NewSecrets, Removed, NoRoot, MemberRoot, NullRoot}

(* Past twice the width, so that both numbers of two bytes wrap.  Of the   *)
(* texts one is the longest that fits and one fills a block.               *)
McLengths == 0 .. 40
McSizeOf  == s1 :> 13 @@ s2 :> 2 @@ Dash :> 1

ASSUME FramesAssumption == OpensToItself /\ SizeTellsBlocks
=============================================================================
