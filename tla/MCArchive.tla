----------------------------- MODULE MCArchive -----------------------------
EXTENDS ChainCopy, TLC

CONSTANTS a1, a2, b1, content, image

MCIdOf == (a1 :> 1) @@ (a2 :> 1) @@ (b1 :> 2)

MCRefs == (a1 :> {content}) @@ (a2 :> {}) @@ (b1 :> {content, image})

MCLength == (a1 :> 1) @@ (a2 :> 1) @@ (b1 :> 1) @@ (content :> 2) @@ (image :> 4)

MCKeyOrder == <<a1, a2, b1>>

MCBlobOrder == <<content, image>>

\* A chain with a conflict, a repeated record and a missing blob; one with an
\* incomplete tail; one with a damaged blob.
MCSources ==
    {[log |-> <<b1, a1, b1, a2>>, tail |-> FALSE, blobs |-> (content :> "Found") @@ (image :> "Missing")],
     [log |-> <<a1, b1>>, tail |-> TRUE, blobs |-> (content :> "Found") @@ (image :> "Found")],
     [log |-> <<a1, b1>>, tail |-> FALSE, blobs |-> (content :> "Found") @@ (image :> "Corrupt")]}

MCInitialRecords == {{}, {a2}}

MCInitialFiles ==
    {(content :> "copied") @@ (image :> "absent"), (content :> "absent") @@ (image :> "torn")}

MCOffers == {<<a2, b1>>}
=============================================================================
