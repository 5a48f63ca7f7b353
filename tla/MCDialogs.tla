----------------------------- MODULE MCDialogs ------------------------------
\* Small instances of Dialogs.
EXTENDS Dialogs

MCShown == DOMAIN Forms

=============================================================================
