\* A driver who has switched back opens the page.
SPECIFICATION MCSpec
CONSTANTS
  MaxCars = 2
  MaxPhotos = 2
  MaxRequests = 3
  MaxDocs = 2
  MaxClicks = 6
PROPERTY WizardMeansNoCar
CHECK_DEADLOCK FALSE
