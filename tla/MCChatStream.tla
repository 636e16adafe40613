---------------------------- MODULE MCChatStream ----------------------------
(***************************************************************************)
(* Instances of ChatStream for TLC.                                        *)
(***************************************************************************)
EXTENDS ChatStream, TLC

CONSTANTS r1, r2, c1, c2, scheme, guide

AClaim(cites, material, asserts, supportedBy) ==
    [cites |-> cites, material |-> material, asserts |-> asserts,
     supportedBy |-> supportedBy]

\* One claim per way the validator can accept or refuse a claim.
MCClaims ==
    {AClaim({scheme}, TRUE, FALSE, {scheme}),      \* grounded scheme fact
     AClaim({guide}, FALSE, FALSE, {guide}),       \* grounded advice
     AClaim({guide}, TRUE, FALSE, {guide}),        \* scheme fact from a guide
     AClaim({scheme, guide}, FALSE, FALSE, {}),    \* unsupported
     AClaim({}, TRUE, FALSE, {}),                  \* uncited material claim
     AClaim({}, FALSE, TRUE, {})}                  \* asserts eligibility

\* A claim that passes and one that does not, for the runs about interleaving.
MCFewClaims ==
    {AClaim({scheme}, TRUE, FALSE, {scheme}), AClaim({scheme}, TRUE, FALSE, {})}

MCOneConversation == [r \in Requests |-> c1]
MCTwoConversations == [r \in Requests |-> IF r = r1 THEN c1 ELSE c2]
=============================================================================
