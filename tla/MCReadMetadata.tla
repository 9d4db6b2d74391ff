--------------------------- MODULE MCReadMetadata ---------------------------
(* ReadMetadata for TLC: layouts that reach every branch of each scanner,  *)
(* cut off at every byte; budgets at, below and above what they hold.      *)
EXTENDS ReadMetadata

File(kind, records, tail) == [kind |-> kind, records |-> records, tail |-> tail]
R(tag, n) == [tag |-> tag, n |-> n]

MCFiles == {
    File("jpeg", <<R("app1", 6), R("fill", 0), R("exif", 7), R("stop", 0)>>, 1),
    File("jpeg", <<R("other", 1), R("standalone", 0), R("exif", 8), R("exif", 6)>>, 0),
    File("jpeg", <<R("fill", 0), R("stop", 0), R("exif", 6)>>, 0),
    File("jpeg", <<R("other", -1), R("exif", 6)>>, 0),
    File("jpeg", <<R("other", 0), R("other", 0), R("other", 1), R("other", 0)>>, 2),
    File("png", <<R("other", 2), R("exif", 3), R("stop", 0)>>, 0),
    File("png", <<R("exif", 0)>>, 0),
    File("png", <<R("other", 0), R("stop", 0), R("exif", 2)>>, 0),
    File("webp", <<R("other", 3), R("other", 2), R("exif", 9)>>, 0),
    File("webp", <<R("exif", 1)>>, 0),
    File("tiff", <<>>, 9),
    File("unknown", <<>>, 3)}

MCLimitSets == {[records |-> 3, block |-> 7, tiff |-> 6],
                [records |-> 2, block |-> 8, tiff |-> 3]}

=============================================================================
