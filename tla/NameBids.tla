------------------------------- MODULE NameBids -------------------------------
(***************************************************************************)
(* The auction of short account names: bidname and bidrefund, the closing  *)
(* of one auction a day in onblock, and the claim of the name by the       *)
(* winner in newaccount.                                                   *)
(*                                                                         *)
(* A bid moves tokens to eosio.names at once.  Who is outbid is owed a     *)
(* refund, to be fetched at any time.  An auction closes when its bid is   *)
(* the highest of all open auctions, a day after the last bid on it, a day *)
(* after another auction closed, and 14 days after the chain was           *)
(* activated: its high bid is then negated, and only the winner can create *)
(* the account.                                                            *)
(*                                                                         *)
(* Time is kept as ages that stop counting when the code no longer tells   *)
(* them apart.  onblock looks for an auction to close once a minute: a     *)
(* step of time is at least that long.                                     *)
(***************************************************************************)
EXTENDS Sums, Payments

CONSTANTS
  Names,         \* names that need an auction
  Bidders,       \* accounts that bid
  NamesAccount,  \* names_account, eosio.names
  System,        \* the system account, which needs no auction
  Nobody,        \* no bidder
  Bids,          \* amounts a bidder may pass
  Funds,         \* initial balances
  OneDay,        \* blocks_per_day, useconds_per_day
  Fortnight      \* 14 days

ASSUME NameBidsAssumption ==
  /\ IsFiniteSet(Names) /\ IsFiniteSet(Bidders)
  /\ NamesAccount \notin Bidders
  /\ System \notin Bidders
  /\ Nobody \notin Bidders
  /\ Bids \subseteq Int
  /\ Funds \in [Bidders -> Nat]
  /\ OneDay \in Nat /\ Fortnight \in Nat

VARIABLES
  tokens,       \* balances of the bidders and eosio.names
  bidder,       \* namebids: high_bidder, Nobody without a row
  bid,          \* namebids: high_bid, negative when closed, 0 without a row
  sinceBid,     \* age of last_bid_time
  refunds,      \* bidrefunds: amount owed for each name and bidder
  sinceClose,   \* age of last_name_close
  begun,        \* thresh_activated_stake_time is set
  sinceActive,  \* and its age
  accounts,     \* names that are accounts by now
  paid          \* history: what each bidder paid for names it claimed

auctionRow == <<bidder, bid, sinceBid>>
clock == <<sinceClose, begun, sinceActive>>
bidVars == <<tokens, auctionRow, refunds, clock, accounts, paid>>

HasRow(n) == bidder[n] # Nobody
Open(n) == bid[n] > 0
Closed(n) == bid[n] < 0

BidsInit ==
  /\ tokens = [a \in Bidders \cup {NamesAccount} |->
                 IF a = NamesAccount THEN 0 ELSE Funds[a]]
  /\ bidder = [n \in Names |-> Nobody]
  /\ bid = [n \in Names |-> 0]
  /\ sinceBid = [n \in Names |-> 0]
  /\ refunds = [n \in Names |-> [a \in Bidders |-> 0]]
  /\ sinceClose = OneDay + 1
  /\ begun = FALSE
  /\ sinceActive = 0
  /\ accounts = {}
  /\ paid = [a \in Bidders |-> 0]

-----------------------------------------------------------------------------
(* More than a tenth above a bid that still stands.  The slip forgets that *)
(* a closed bid is negative.                                               *)
Tenth(amount, high) == amount - high > high \div 10
Outbids(amount, high) == high > 0 /\ amount - high > high \div 10

(* What is owed to somebody who is outbid again.  The slip forgets what he *)
(* had not fetched.                                                        *)
LastOnly(owed, high) == high
Owed(owed, high) == owed + high

Place(a, n, amount) ==
  /\ bidder' = [bidder EXCEPT ![n] = a]
  /\ bid' = [bid EXCEPT ![n] = amount]
  /\ sinceBid' = [sinceBid EXCEPT ![n] = 0]

bidname(a, n, amount) ==
  /\ n \notin accounts
  /\ CanPay(tokens, a, NamesAccount, amount)
  /\ tokens' = Paid(tokens, a, NamesAccount, amount)
  /\ \/ /\ ~HasRow(n)
        /\ UNCHANGED refunds
     \/ /\ HasRow(n)
        /\ Outbids(amount, bid[n])
        /\ bidder[n] # a
        /\ refunds' = [refunds EXCEPT ![n][bidder[n]] = Owed(@, bid[n])]
  /\ Place(a, n, amount)
  /\ UNCHANGED <<clock, accounts, paid>>

bidrefund(a, n) ==
  /\ refunds[n][a] > 0
  /\ CanPay(tokens, NamesAccount, a, refunds[n][a])
  /\ tokens' = Paid(tokens, NamesAccount, a, refunds[n][a])
  /\ refunds' = [refunds EXCEPT ![n][a] = 0]
  /\ UNCHANGED <<auctionRow, clock, accounts, paid>>

(* The winner creates the account and the row goes.  Not so when the       *)
(* system account creates it: the row, open or closed, stays for ever.     *)
MayClaim(creator, n) == bidder[n] = creator /\ Closed(n)

newaccount(creator, n) ==
  /\ n \notin accounts
  /\ accounts' = accounts \cup {n}
  /\ \/ /\ creator # System
        /\ MayClaim(creator, n)
        /\ bidder' = [bidder EXCEPT ![n] = Nobody]
        /\ bid' = [bid EXCEPT ![n] = 0]
        /\ sinceBid' = [sinceBid EXCEPT ![n] = 0]
        /\ paid' = [paid EXCEPT ![creator] = @ - bid[n]]
     \/ /\ creator = System
        /\ UNCHANGED <<auctionRow, paid>>
  /\ UNCHANGED <<tokens, refunds, clock>>

-----------------------------------------------------------------------------
(* Whether onblock closes the auction of n.  It looks only at the highest  *)
(* open bid, whose auction holds up all others while it may not close;     *)
(* among equals, the table's order decides.  The slip also looks at        *)
(* auctions that are closed.                                               *)
HighestOfAll(n) == Open(n) /\ \A m \in Names : bid[m] <= bid[n] /\ -bid[m] <= bid[n]
Highest(n) == Open(n) /\ \A m \in Names : bid[m] <= bid[n]

MayClose(n) ==
  /\ begun
  /\ sinceClose > OneDay
  /\ Highest(n)
  /\ sinceBid[n] > OneDay
  /\ sinceActive > Fortnight

Close(n) ==
  /\ MayClose(n)
  /\ sinceClose' = 0
  /\ bid' = [bid EXCEPT ![n] = -@]
  /\ UNCHANGED <<tokens, bidder, sinceBid, refunds, begun, sinceActive,
                 accounts, paid>>

(* Enough votes have been cast for the first time. *)
Activate ==
  /\ ~begun
  /\ begun' = TRUE
  /\ UNCHANGED <<tokens, auctionRow, refunds, sinceClose, sinceActive, accounts, paid>>

Older(age, end) == IF age <= end THEN age + 1 ELSE age

BidsTick ==
  /\ sinceBid' = [n \in Names |-> IF HasRow(n) THEN Older(sinceBid[n], OneDay) ELSE 0]
  /\ sinceClose' = Older(sinceClose, OneDay)
  /\ sinceActive' = IF begun THEN Older(sinceActive, Fortnight) ELSE 0
  /\ UNCHANGED <<tokens, bidder, bid, refunds, begun, accounts, paid>>

BidsNext ==
  \/ \E n \in Names :
       \/ \E a \in Bidders :
            \/ \E amount \in Bids : bidname(a, n, amount)
            \/ bidrefund(a, n)
       \/ \E creator \in Bidders \cup {System} : newaccount(creator, n)
       \/ Close(n)
  \/ Activate
  \/ BidsTick

BidsSpec == BidsInit /\ [][BidsNext]_bidVars

-----------------------------------------------------------------------------
(* A row has a bidder and a bid, and none is owed a negative amount.       *)
BidsTypeOK ==
  /\ tokens \in [Bidders \cup {NamesAccount} -> Nat]
  /\ bidder \in [Names -> Bidders \cup {Nobody}]
  /\ bid \in [Names -> Int]
  /\ \A n \in Names : HasRow(n) <=> bid[n] # 0
  /\ sinceBid \in [Names -> 0 .. OneDay + 1]
  /\ refunds \in [Names -> [Bidders -> Nat]]
  /\ sinceClose \in 0 .. OneDay + 1
  /\ begun \in BOOLEAN
  /\ sinceActive \in 0 .. Fortnight + 1
  /\ accounts \subseteq Names
  /\ paid \in [Bidders -> Nat]

(* What a bidder has, is owed, has standing in an auction and has paid for *)
(* names is what it started with: whoever loses an auction, however often  *)
(* outbid and in whatever order of bids and refunds, loses no token.       *)
Standing(a) == [n \in Names |->
                  IF bidder[n] # a THEN 0
                  ELSE IF Open(n) THEN bid[n] ELSE -bid[n]]
OwedTo(a) == [n \in Names |-> refunds[n][a]]
OnlyWinnersPay ==
  \A a \in Bidders :
    tokens[a] + Total(OwedTo(a)) + Total(Standing(a)) + paid[a] = Funds[a]

(* The winner of a closed auction keeps it: the row changes only when the  *)
(* winner claims the name, and nobody else but the system can create the   *)
(* account.                                                                *)
WinnerKeepsName ==
  [][\A n \in Names :
       Closed(n) =>
         /\ (bidder[n]' # bidder[n] \/ bid[n]' # bid[n]) => paid' # paid
         /\ n \in accounts' \ accounts =>
              newaccount(bidder[n], n) \/ newaccount(System, n)]_bidVars

(* Every auction closes after the chain is activated: although a higher    *)
(* bid on any other name puts it off, each bid is higher by a tenth and    *)
(* there are so many tokens.  Blocks and time go on.                       *)
Fairness == WF_bidVars(BidsTick) /\ \A n \in Names : WF_bidVars(Close(n))
FairSpec == BidsSpec /\ Fairness
AuctionsClose == \A n \in Names : (begun /\ Open(n)) ~> Closed(n)
===============================================================================
