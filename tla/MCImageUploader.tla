--------------------------- MODULE MCImageUploader ---------------------------
(* Two connections, of which one returns from SmugMug, and every tier. *)
EXTENDS ImageUploader, TLC
CONSTANTS c1, c2, p1
TwoConns == {c1, c2}
OnePhoto == {p1}
OneReturns == {c1}
Tier(tier, secret, persist, returns) ==
    [tier |-> tier, secret |-> secret, persist |-> persist, returns |-> returns]
SomeSetups == {Tier("local-disk", FALSE, TRUE, TRUE), Tier("local-disk", FALSE, FALSE, FALSE),
    Tier("uploadthing", TRUE, TRUE, FALSE), Tier("uploadthing", FALSE, TRUE, FALSE),
    Tier("smugmug", FALSE, TRUE, FALSE), Tier("smugmug", FALSE, TRUE, TRUE)}
\* One row is enough where tokens are exchanged beside an upload.
MostRows == [s \in SomeSetups |-> IF s.tier = "smugmug" /\ s.returns THEN 1 ELSE 3]
=============================================================================
