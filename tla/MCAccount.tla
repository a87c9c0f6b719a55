------------------------------ MODULE MCAccount ------------------------------
(***************************************************************************)
(* KYC calls and ratings share no row, and neither reads what the other    *)
(* writes; both meet the calls that save the users row.  So one account is *)
(* checked with the former (its number verified long ago, its name open),  *)
(* with the latter, and with changes of number; two accounts meet over the *)
(* numbers they registered with.  The address book shares nothing with any *)
(* of these and is checked apart.                                          *)
(***************************************************************************)
EXTENDS Account, AddressBook, TLC

CONSTANTS a, b, c1, c2, f1, f2, p1, p2, Asha, Usha

VARIABLE scope

(* All sales are those of a.                                               *)
SoldByA == [p \in Sales |-> a]
Symmetry == Permutations({c1, c2}) \cup Permutations({p1, p2})
              \cup Permutations({f1, f2}) \cup Permutations({Asha, Usha})

Owners == {[NewUser EXCEPT !.fullName = name, !.phone = phone,
                           !.phoneVerifiedAt = phone] :
             name \in Names, phone \in Phones}

MCInit ==
  /\ scope \in {"identity", "reputation", "numbers", "rivals", "addresses"}
  /\ CASE scope = "identity" ->
            InitWith(Owners \cup {NewUser}) /\ user[a] \in Owners
       [] scope = "addresses" -> InitWith({NewUser})
       [] OTHER -> Init
  /\ scope # "rivals" => user[b] = NewUser
  /\ scope \in {"numbers", "rivals"} => \A u \in Users : user[u].fullName = None
  /\ AddressInit

AccountNext ==
  /\ \/ PhoneNext(IF scope = "numbers" THEN Phones ELSE {},
                  IF scope = "identity" THEN Names ELSE {})
     \/ scope = "identity" /\ KycNext
     \/ scope = "reputation" /\ RatingNext
     \/ FailureNext
  /\ scope # "rivals" => \A c \in Calls : call'[c].u # b

MCNext ==
  /\ \/ scope # "addresses" /\ AccountNext /\ UNCHANGED addressVars
     \/ scope = "addresses" /\ AddressNext /\ UNCHANGED vars
  /\ UNCHANGED scope

MCSpec == MCInit /\ [][MCNext]_<<vars, addressVars, scope>>
=============================================================================
