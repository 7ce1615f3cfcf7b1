------------------------------ MODULE MCSignIn ------------------------------
EXTENDS SignIn

Perms == Permutations(Browser) \cup Permutations(Name)
=============================================================================
