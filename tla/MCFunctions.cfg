SPECIFICATION MCSpec
CONSTANT Word = 3
 
INVARIANT WriteDataExact
 
INVARIANT Utf8Decodes
INVARIANT EscapesDecode
INVARIANT JsonAccepts
INVARIANT JsonRoundTrip
INVARIANT StringRoundTrip
INVARIANT DirentsTile
INVARIANT OnlyItsSockets
