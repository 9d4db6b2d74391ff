--------------------------- MODULE MCRasterCalls ---------------------------
(* RasterCalls for TLC: one file of each kind the code tells apart.        *)
EXTENDS RasterCalls

NotWebP == [simple |-> FALSE, size |-> Empty, whole |-> FALSE]
WebP(size, whole) == [simple |-> TRUE, size |-> size, whole |-> whole]
Codec(format, size, turned, pixels, depth) ==
    [readable |-> TRUE, error |-> "InvalidDataError", format |-> format, size |-> size,
     turned |-> turned, pixels |-> pixels, depth |-> depth]
NoCodec(error, format) ==
    [readable |-> FALSE, error |-> error, format |-> format, size |-> Empty,
     turned |-> FALSE, pixels |-> Empty, depth |-> 4]

Wide == Size(6, 2)
Huge == Size(9, 3)

MCFiles == {
    \* codecs alone: upright, on its side, deep, shallow, truncated, empty, huge
    [qt |-> Codec("png", Wide, FALSE, Wide, 4), webp |-> NotWebP],
    [qt |-> Codec("jpg", Wide, TRUE, Wide, 1), webp |-> NotWebP],
    [qt |-> Codec("tif", Wide, FALSE, Wide, 8), webp |-> NotWebP],
    [qt |-> Codec("jpeg", Wide, TRUE, Empty, 4), webp |-> NotWebP],
    [qt |-> Codec("gif", Empty, FALSE, Empty, 4), webp |-> NotWebP],
    [qt |-> Codec("png", Huge, FALSE, Huge, 4), webp |-> NotWebP],
    \* frames that are not what the header promised
    [qt |-> Codec("ico", Size(2, 2), FALSE, Wide, 1), webp |-> NotWebP],
    [qt |-> Codec("ico", Wide, TRUE, Huge, 4), webp |-> NotWebP],
    \* nothing any decoder knows
    [qt |-> NoCodec("UnsupportedFormatError", ""), webp |-> NotWebP],
    \* simple WebP: read by the codec, refused by it, absent plugin, huge, cut off
    [qt |-> Codec("webp", Wide, FALSE, Wide, 4), webp |-> WebP(Wide, TRUE)],
    [qt |-> Codec("webp", Wide, FALSE, Empty, 4), webp |-> WebP(Wide, TRUE)],
    [qt |-> NoCodec("InvalidDataError", "webp"), webp |-> WebP(Wide, TRUE)],
    [qt |-> NoCodec("UnsupportedFormatError", ""), webp |-> WebP(Huge, TRUE)],
    [qt |-> NoCodec("UnsupportedFormatError", ""), webp |-> WebP(Wide, FALSE)]}

MCLimitSets == {[extent |-> 8, pixels |-> 16, decoded |-> 64],
                [extent |-> 8, pixels |-> 64, decoded |-> 50]}
MCBounds == {Empty, Size(3, 3), Size(8, 1)}

=============================================================================
