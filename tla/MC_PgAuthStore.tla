--------------------------- MODULE MC_PgAuthStore ---------------------------
EXTENDS PgAuthStore

\* The relay was installed after the key columns existed.
MCLegacyGrants == {}
=============================================================================
