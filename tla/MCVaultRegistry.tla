--------------------------- MODULE MCVaultRegistry ---------------------------
\* Three keys and registries of up to four entries: enough for a repeat that
\* sorting makes adjacent ("<<1, 2, 1>>") and for a Vec over read_range's
\* bound, scaled down from 100_000 to 3.
EXTENDS VaultRegistry

MCKeys == {1, 2, 3}
MCMaxVaults == 3
MCMaxLen == 4
=============================================================================
