------------------------ MODULE MCSettingsTransaction -----------------------
EXTENDS SettingsTransaction
CONSTANTS f1, f2, a, b

ConstFiles == {f1, f2}
ConstContents == {Absent, a, b}
=============================================================================
