------------------------------ MODULE MCVotes ------------------------------
(* Instances of Votes for TLC, and what a comment says that the code does    *)
(* not keep.                                                                 *)
EXTENDS Votes

(* One client comes and goes, from an address of its own or from that of the *)
(* other, and asks for maps; the other finds the server empty or busy, logs  *)
(* in, sleeps and changes sides, and does not leave.                         *)
GuestAndAdmin ==
  <<{"guest", "roamer", "mapper"}, {"admin", "watcher", "sleeper", "newcomer"}>>

(* Here both come and go.                                                    *)
TwoGuests == <<{"guest"}, {"admin", "guest"}>>

(* config_variables.h:551, of sv_vote_yes_percentage: "More than this        *)
(* percentage of players need to agree for a vote to succeed", so at least   *)
(* one of those who are connected.  A vote that is held back for a moderator *)
(* keeps the yes of an earlier count and passes when the moderator is gone.  *)
PassesByItsVoters == [][Passes => Agreed]_vars
=============================================================================
