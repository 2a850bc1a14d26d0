------------------------------ MODULE MCSignup ------------------------------
(***************************************************************************)
(* A small instance of Signup for TLC: an admin, and three signups, of     *)
(* which one may want the email of the first and the name of the second.   *)
(***************************************************************************)
EXTENDS Signup, TLC

CONSTANTS root, ann, ben, cat, c1, c2

Application(email, name, codes) ==
    {[email |-> email, name |-> name, code |-> code] : code \in codes}

MCApplications ==
    [id \in UserIds |->
        CASE id = root -> Application(root, root, {c1})
          [] id = ann -> Application(ann, ann, {c1})
          [] id = ben -> Application(ben, ben, {c1})
          [] id = cat -> Application(cat, cat, {c2}) \cup Application(ann, ben, {c2})]

MCMaxUses == c1 :> {1, 2} @@ c2 :> {1}
============================================================================
