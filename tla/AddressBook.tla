---------------------------- MODULE AddressBook ----------------------------
(***************************************************************************)
(* The delivery addresses of one buyer: ShippingService                    *)
(* (src/modules/shipping/shipping.service.ts).  Each request reads before  *)
(* its transaction; each transaction runs at READ COMMITTED, so that what  *)
(* a statement in it found is applied when the transaction commits, to     *)
(* rows that others may have written since.  The fields of an address      *)
(* other than isDefault are left out; ids are given in the order of        *)
(* createdAt.                                                              *)
(***************************************************************************)
EXTENDS Naturals, FiniteSets, FiniteSetsExt

CONSTANTS
  Requests,                 \* requests in progress
  MAX_SHIPPING_ADDRESSES,
  MaxAddress                \* bound: addresses ever created

ASSUME AddressBookAssumption ==
  MAX_SHIPPING_ADDRESSES \in Nat \ {0} /\ MaxAddress \in Nat

VARIABLES
  address,   \* shipping_addresses, in the order of their creation
  request

addressVars == <<address, request>>

AddressId == 1..MaxAddress

Address == [state: {"unused", "saved", "removed"}, isDefault: BOOLEAN]

NoAddress == [state |-> "unused", isDefault |-> FALSE]

(* A request: the address it is about (0 if it creates one), the value of  *)
(* isDefault it will save, the addresses its transaction writes beside     *)
(* that one, and whether others have written since it began.               *)
NoRequest == [at |-> "idle", id |-> 0, isDefault |-> FALSE, clears |-> {},
              promotes |-> {}, outdated |-> FALSE]

AddressTypeOK ==
  /\ address \in [AddressId -> Address]
  /\ \A c \in Requests :
       /\ request[c].id \in AddressId \cup {0}
       /\ request[c].clears \subseteq AddressId
       /\ request[c].promotes \subseteq AddressId

AddressInit ==
  /\ address = [i \in AddressId |-> NoAddress]
  /\ request = [c \in Requests |-> NoRequest]

Saved == {i \in AddressId : address[i].state = "saved"}
Defaults == {i \in Saved : address[i].isDefault}

Read(c, at, id, isDefault) ==
  /\ request[c].at = "idle"
  /\ request' = [request EXCEPT ![c] =
       [NoRequest EXCEPT !.at = at, !.id = id, !.isDefault = isDefault]]
  /\ UNCHANGED address

(* Mutant of MadeDefault: the caller decides about the first one too.      *)
MadeDefaultIfAsked(count, asked) == asked

MadeDefault(count, asked) == count = 0 \/ asked

(* create counts and decides before its transaction.                       *)
Create(c, asked) ==
  /\ Cardinality(Saved) < MAX_SHIPPING_ADDRESSES
  /\ LET isDefault == MadeDefault(Cardinality(Saved), asked) IN
     Read(c, IF isDefault THEN "clear" ELSE "save", 0, isDefault)

(* update saves the copy getOwned returned, with its isDefault as it was   *)
(* unless the caller sets it; unsetting it is refused.                     *)
Update(c, i, asked) ==
  /\ i \in Saved
  /\ Read(c, IF asked THEN "clear" ELSE "save", i,
          asked \/ address[i].isDefault)

Remove(c, i) ==
  /\ i \in Saved
  /\ Read(c, IF address[i].isDefault THEN "promote" ELSE "remove", i,
          address[i].isDefault)

(* clearDefaults: every other address this statement sees.                 *)
ClearDefaults(c) ==
  /\ request[c].at = "clear"
  /\ request' = [request EXCEPT ![c].at = "save",
                                ![c].clears = Saved \ {request[c].id}]
  /\ UNCHANGED address

(* remove: the oldest survivor, as this statement sees it.                 *)
PromoteOldest(c) ==
  LET survivors == Saved \ {request[c].id} IN
  /\ request[c].at = "promote"
  /\ request' = [request EXCEPT ![c].at = "remove",
       ![c].promotes = IF survivors = {} THEN {} ELSE {Min(survivors)}]
  /\ UNCHANGED address

(* The transaction commits; a row saved whose id is gone is inserted.      *)
Commit(c, written) ==
  /\ address' = written
  /\ request' = [d \in Requests |->
       IF d = c THEN NoRequest
       ELSE [request[d] EXCEPT !.outdated = request[d].at # "idle"]]

SaveAddress(c) ==
  LET r == request[c] IN
  /\ r.at = "save"
  /\ \E i \in IF r.id # 0 THEN {r.id}
              ELSE LET unused == {j \in AddressId : address[j].state = "unused"}
                   IN IF unused = {} THEN {} ELSE {Min(unused)} :
       Commit(c, [j \in AddressId |->
         IF j = i THEN [state |-> "saved", isDefault |-> r.isDefault]
         ELSE IF j \in r.clears THEN [address[j] EXCEPT !.isDefault = FALSE]
         ELSE address[j]])

RemoveAddress(c) ==
  LET r == request[c] IN
  /\ r.at = "remove"
  /\ Commit(c, [j \in AddressId |->
       IF j = r.id THEN [state |-> "removed", isDefault |-> FALSE]
       ELSE IF j \in r.promotes THEN [state |-> "saved", isDefault |-> TRUE]
       ELSE address[j]])

(* The transaction fails, the locks of two being at odds, or a restart     *)
(* cuts the request off: nothing of it stays.                              *)
Abort(c) ==
  /\ request[c].at # "idle"
  /\ request' = [request EXCEPT ![c] = NoRequest]
  /\ UNCHANGED address

AddressNext ==
  \E c \in Requests :
    \/ \E asked \in BOOLEAN :
         \/ Create(c, asked)
         \/ \E i \in AddressId : Update(c, i, asked)
    \/ \E i \in AddressId : Remove(c, i)
    \/ ClearDefaults(c) \/ PromoteOldest(c)
    \/ SaveAddress(c) \/ RemoveAddress(c)
    \/ Abort(c)

AddressSpec == AddressInit /\ [][AddressNext]_addressVars

-----------------------------------------------------------------------------
(* "At most MAX_SHIPPING_ADDRESSES per user; at most one default, and,     *)
(* while any address exists, at least one": only a request overtaken by    *)
(* another since it read adds one too many, a second default or leaves     *)
(* none, and every request on its own keeps what is in order in order.     *)
RulesHoldUnlessOverlapped ==
  [][\/ \E c \in Requests : request[c].outdated /\ request'[c] # request[c]
     \/ /\ \/ Cardinality(Saved') <= MAX_SHIPPING_ADDRESSES
           \/ Cardinality(Saved') <= Cardinality(Saved)
        /\ Saved = {} \/ Cardinality(Defaults) = 1
             => Saved' = {} \/ Cardinality(Defaults') = 1]_addressVars
=============================================================================
