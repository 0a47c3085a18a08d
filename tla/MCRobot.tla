------------------------------ MODULE MCRobot ------------------------------
EXTENDS Robot
MCPromises == Calls \cup Asked
=============================================================================
